------------------------------- MODULE MCAcmp --------------------------------
(***************************************************************************)
(* Acmp for TLC: r1 and r2 ask for one address by name and by IP, r3 for a *)
(* second by path, r4 for a third by name.                                 *)
(***************************************************************************)
EXTENDS Acmp, TLC

CONSTANTS r1, r2, r3, r4

MCAddr == r1 :> 1 @@ r2 :> 1 @@ r3 :> 2 @@ r4 :> 3
MCOp == r1 :> "name" @@ r2 :> "ip" @@ r3 :> "path" @@ r4 :> "name"

Use(route, asks, messages, dests, old, solicits, fails) ==
    [route_prot |-> route, asks |-> asks, msgs |-> messages, dests |-> dests, old |-> old,
     solicits |-> solicits, fails |-> fails]

MCUses == {
    Use("sa", {r1, r2}, 2, 1, 1, 0, 0),     \* two clients, a record that gets old
    Use("sa", {r1, r2}, 1, 1, 0, 1, 0),     \* and a node that asks back meanwhile
    Use("acm", {r1, r2}, 2, 2, 0, 1, 0),    \* the same, with a record that expires
    Use("sa", {r1}, 1, 2, 0, 1, 0), Use("sa", {r3}, 1, 2, 0, 1, 0),
    Use("acm", {r1, r4}, 2, 2, 0, 0, 0),    \* two messages for one credit
    Use("acm", {r1}, 1, 1, 0, 1, 1) }       \* a send that completes in error
=============================================================================
