--------------------------- MODULE StripeIsObject ---------------------------
(***************************************************************************)
(* The stripe implements the object store: what its blocks, its running    *)
(* operations and the outcomes of its gets amount to as one object.        *)
(***************************************************************************)
EXTENDS LrcStripe

Versions == 1..MaxSets

\* Every block that is there is of version v.
AllOf(v) == \A p \in Index : store[p] \in {None, Block(v, p)}

Object ==
    IF \A p \in Index : store[p] = None THEN 0
    ELSE IF \E v \in Versions : AllOf(v) THEN CHOOSE v \in Versions : AllOf(v)
    ELSE -1

\* The version a get has returned, if all its data blocks are of one.
ValueOf(val) ==
    LET IsVersion(v) == \A d \in 0..K - 1 : val[d] = Block(v, DataPos(d, R))
    IN  IF \E v \in Versions : IsVersion(v) THEN CHOOSE v \in Versions : IsVersion(v) ELSE -1

Answer(c) ==
    IF ret[c].op = "get" /\ ret[c].rc = "SUCCESS"
    THEN [val |-> ValueOf(ret[c].val), missed |-> ret[c].lost]
    ELSE [val |-> 0, missed |-> 0]

\* What the clients are doing, and what they were told.
Writing == [c \in Clients |-> IF Setting(c) THEN setVer[c] ELSE 0]

ReadState ==
    [c \in Clients |->
        IF ~Reading(c) THEN "no" ELSE IF overlap[c] THEN "overlapped" ELSE "clear"]

Answers == [c \in Clients |-> Answer(c)]

Promise == INSTANCE ObjectStore WITH
    MaxVersion <- MaxSets,
    object <- Object,
    last <- cur,
    torn <- dirty,
    settling <- ~Settled,
    writing <- Writing,
    alone <- clean,
    reading <- ReadState,
    answer <- Answers

(***************************************************************************)
(* Seen from outside, the n blocks behave as one object: every request at  *)
(* a server, crash, eviction, rebuilt block and cut-short operation is a   *)
(* step the object store allows, or none.                                  *)
(***************************************************************************)
ImplementsObjectStore == Promise!Spec
============================================================================
