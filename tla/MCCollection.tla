----------------------------- MODULE MCCollection -----------------------------
EXTENDS Collection
CONSTANTS a, b, c

(* One page, or two of which the plan may let only the first be fetched.    *)
Two == [fixtures |-> <<a, b>>, priced |-> <<a, b>>]
Three == [fixtures |-> <<a, b, c>>, priced |-> <<c, a>>]

World(s, l, limit, ends, events) ==
  [sources |-> s, listing |-> l, plan |-> [limit |-> limit, ends |-> ends, events |-> events]]

SomeWorlds ==
  {World(<<"capture">>, Two, 9, TRUE, 4),
   World(<<"api-football", "capture">>, Two, 9, TRUE, 2),
   World(<<"api-football", "capture">>, Three, 1, TRUE, 2),
   World(<<"api-football", "capture">>, Three, 9, TRUE, 2),
   World(<<"api-football", "capture">>, Two, 9, FALSE, 1),
   World(<<"capture", "meridianbet-http">>, Two, 9, TRUE, 2),
   World(<<"capture", "meridianbet-http">>, Two, 9, FALSE, 1)}
=============================================================================
