----------------------------- MODULE CardStore -----------------------------
(***************************************************************************)
(* What a program expects of the memory cards: a sector changes only while *)
(* a request to write it is under way, at once and to all of what was to   *)
(* be written; a request that succeeds has done what it asked, and one     *)
(* that fails may have written its sector or not.  A program may ask for   *)
(* anything at a slot that has no request.                                 *)
(***************************************************************************)
EXTENDS Integers

CONSTANTS
    Requests(_),        \* what is asked of a slot
    Held(_, _)          \* the data that a card's contents hold in a sector

VARIABLES
    store,              \* the contents of both cards
    asked,              \* the last request of each slot
    open,               \* 1 while the slot's request is under way
    buffer,             \* the memory the request reads to or writes from
    success             \* 1 when a success has just been reported

vars == <<store, asked, open, buffer, success>>

Init == open = [p \in {0, 1} |-> 0] /\ success = 0

Ask(p) ==
    /\ open[p] = 0
    /\ asked' = [asked EXCEPT ![p] = asked'[p]] /\ asked'[p] \in Requests(p)
    /\ open' = [open EXCEPT ![p] = 1]
    /\ buffer' = [buffer EXCEPT ![p] = asked'[p].data]
    /\ UNCHANGED <<store, success>>

\* The buffer fills as the answers come.
Fill(p) ==
    /\ open[p] = 1 /\ asked[p].op = "read"
    /\ buffer' = [buffer EXCEPT ![p] = buffer'[p]]
    /\ UNCHANGED <<store, asked, open, success>>

\* The whole of the data is in the sector, and the other sectors are what they were.
Written(p) ==
    /\ asked[p].op = "write"
    /\ store' = [store EXCEPT ![p] = store'[p]]
    /\ \A sector \in DOMAIN store'[p] :
           Held(store'[p], sector) =
               IF sector = asked[p].sector THEN asked[p].data ELSE Held(store[p], sector)
    /\ Held(store'[p], asked[p].sector) = asked[p].data

Land(p) ==
    /\ open[p] = 1 /\ Written(p)
    /\ UNCHANGED <<asked, open, buffer, success>>

End(p, ok) ==
    /\ open[p] = 1
    /\ open' = [open EXCEPT ![p] = 0]
    /\ success' = ok
    /\ buffer' = [buffer EXCEPT ![p] = buffer'[p]]
    /\ UNCHANGED asked

Succeed(p) ==
    /\ End(p, 1) /\ UNCHANGED store
    /\ asked[p].op = "write" => Held(store[p], asked[p].sector) = asked[p].data
    /\ asked[p].op = "read" => buffer'[p] = Held(store[p], asked[p].sector)

\* The byte that ends a request may be the one that makes the card store.
Fail(p) == End(p, 0) /\ (Written(p) \/ UNCHANGED store)

\* The report is taken back when the next slot's turn comes.
Forget == success' = 0 /\ UNCHANGED <<store, asked, open, buffer>>

Next == Forget \/ \E p \in {0, 1} : Ask(p) \/ Fill(p) \/ Land(p) \/ Succeed(p) \/ Fail(p)

Spec == Init /\ [][Next]_vars
=============================================================================
