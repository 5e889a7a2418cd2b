--------------------------- MODULE MCStrategyDesk ---------------------------
EXTENDS StrategyDesk

Parent(algo, slices, share, post, timeout) ==
  [kind |-> "execution", events |-> 5,
   cfg |-> [side |-> "Buy", quantity |-> 3, horizon |-> 5, algo |-> algo, slices |-> slices,
            share |-> share, post_first |-> post, post_timeout |-> timeout]]

Trend(size, cooldown) ==
  [kind |-> "trend", events |-> 8,
   cfg |-> [order_size |-> size, max_position |-> 2, tick_size |-> 64, fast_views |-> 1,
            slow_views |-> 3, entry |-> 16, exit |-> 4, stop |-> 64, max_holding |-> 3,
            cooldown |-> cooldown, backoff |-> 1, max_backoff |-> 3]]

Legacy(maker, path, size, limit) ==
  [kind |-> maker, events |-> IF maker \in {"l1", "flow_aware_l1"} THEN 4 ELSE 5,
   cfg |-> [maker |-> maker, path |-> path, size |-> size, limit |-> limit, half |-> 64, tick |-> 64,
            max_age |-> 2, window |-> 2, max_spread |-> 128, recovery_horizon |-> 2]]

MCDesks ==
  { Parent("market", 1, <<1, 2>>, FALSE, 0),
    Parent("market", 1, <<1, 2>>, TRUE, 1),
    Parent("twap", 2, <<1, 2>>, TRUE, 2),
    Parent("twap", 2, <<1, 2>>, TRUE, 0),
    Parent("pov", 1, <<1, 2>>, TRUE, 1),
    Trend(1, 1), Trend(2, 2),
    [kind |-> "naive", events |-> 5, cfg |-> [size |-> 1, max_age |-> 2, tick |-> 64]],
    [kind |-> "optimized", events |-> 3, cfg |-> [size |-> 2, limit |-> 4, window |-> 2, max_age |-> 2,
                                    refresh |-> 64]],
    [kind |-> "active", events |-> 4, cfg |-> [min_elapsed |-> 1, pause_after |-> 32, warmup_trades |-> 1,
                                 warmup_views |-> 1]],
    [kind |-> "inventory", events |-> 5, cfg |-> [limit |-> 3]],
    Legacy("passive_l1", "quotes", 2, 3), Legacy("passive_l1", "depth", 2, 3),
    Legacy("inventory_aware_l1", "quotes", 2, 4), Legacy("flow_aware_l1", "quotes", 3, 6),
    Legacy("l1", "quotes", 3, 4), Legacy("active_l1", "quotes", 2, 3) }

MCTops == {[bid |-> 256, ask |-> 320], [bid |-> 384, ask |-> 448], [bid |-> 0, ask |-> 320],
           [bid |-> 384, ask |-> 384]}

MCQuotePrices == {256, 448}
MCQuoteSizes == {1, 2}
MCTradeSizes == {2}
=============================================================================
