------------------------------ MODULE Positions ------------------------------
(***************************************************************************)
(* Parts of a sequence, chosen by position: what retain() and filter()     *)
(* leave of a Vec, and the messages of one kind that wait in a queue.      *)
(***************************************************************************)
EXTENDS Naturals, Sequences, FiniteSets

(* The members of S, a set of positions, from the first to the last. *)
Ascending(S) ==
    [k \in 1 .. Cardinality(S) |-> CHOOSE i \in S : Cardinality({ j \in S : j <= i }) = k]

(* The elements of q at the positions in S, in the order of q. *)
Picked(q, S) == [k \in DOMAIN Ascending(S) |-> q[Ascending(S)[k]]]

(* The messages in q whose type is one of types. *)
OfType(q, types) == Picked(q, { i \in DOMAIN q : q[i].msg_type \in types })
=============================================================================
