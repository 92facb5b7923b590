---------------------------- MODULE ObjectStore ----------------------------
(***************************************************************************)
(* What a stripe promises to its clients, with no blocks in it: one object *)
(* that is written and read as a whole.                                    *)
(*                                                                         *)
(* Clients write and read in operations that take time, and what is        *)
(* written may settle after the write has ended.  A read that no write     *)
(* overlaps, of an object that is settled and not torn, returns the last   *)
(* version written, if it missed no more than one piece of it.  An object  *)
(* becomes torn by a write that is abandoned, overlapped or lost on its    *)
(* way, and by a reader that writes back what it could not know; a write   *)
(* that nothing disturbs mends it.  Losses and repairs never change it     *)
(* into anything else.                                                     *)
(***************************************************************************)
EXTENDS Integers

CONSTANTS Clients, MaxVersion

Versions == 1..MaxVersion
Nothing == 0            \* no object, no version
Mixed == -1             \* pieces of several versions, or of none

Objects == Versions \cup {Nothing, Mixed}

NoAnswer == [val |-> Nothing, missed |-> 0]

VARIABLES
    object,     \* what is stored
    last,       \* the version of the write that was completed last
    torn,       \* nothing is promised about the object
    settling,   \* pieces that were written are still on their way
    writing,    \* client -> the version it is writing, or Nothing
    alone,      \* nothing disturbs the write that began last
    reading,    \* client -> whether it reads or repairs, and a write overlaps that
    answer      \* client -> what its last read returned

vars == <<object, last, torn, settling, writing, alone, reading, answer>>

Init ==
    /\ object = Nothing /\ last = Nothing /\ torn = FALSE /\ settling = FALSE
    /\ writing = [c \in Clients |-> Nothing]
    /\ alone = FALSE
    /\ reading = [c \in Clients |-> "no"]
    /\ answer = [c \in Clients |-> NoAnswer]

Writers == {c \in Clients : writing[c] # Nothing}

\* Nobody writes, and everything written has arrived.
Quiet == Writers = {} /\ ~settling

NoLongerKnown(c) == answer' = [answer EXCEPT ![c] = NoAnswer]

----------------------------------------------------------------------------
WriteBegin(c) ==
    /\ c \notin Writers /\ reading[c] = "no"
    /\ \E v \in Versions :
          /\ v > last /\ \A d \in Writers : v # writing[d]
          /\ writing' = [writing EXCEPT ![c] = v]
    /\ alone' = Quiet
    /\ reading' = [d \in Clients |-> IF reading[d] = "no" THEN "no" ELSE "overlapped"]
    /\ NoLongerKnown(c)
    /\ UNCHANGED <<object, last, torn, settling>>

\* A piece is on its way, or is lost before it leaves.
WriteSome(c) ==
    /\ c \in Writers
    /\ settling' \in {settling, TRUE}
    /\ alone' \in {alone, FALSE}
    /\ UNCHANGED <<object, last, torn, writing, reading, answer>>

\* The last piece is on its way.  What has not arrived is still to be expected.
WriteEnd(c) ==
    /\ c \in Writers
    /\ writing' = [writing EXCEPT ![c] = Nothing]
    /\ last' = writing[c]
    /\ settling' \in {settling, TRUE}
    /\ alone' \in {alone, FALSE}
    /\ torn' = ~alone'
    /\ torn' \/ settling' \/ object \in {Nothing, last'}
    /\ UNCHANGED <<object, reading, answer>>

\* A piece arrives.  If it is the last one of an object that nobody writes and
\* that is not torn, the object is the last version, or gone.
Arrive ==
    /\ settling
    /\ settling' \in BOOLEAN
    /\ object' \in Objects
    /\ ~(torn \/ settling' \/ Writers # {}) => object' \in {Nothing, last}
    /\ UNCHANGED <<last, torn, writing, alone, reading, answer>>

\* A writer gives up, or is gone together with pieces on their way.
WriteAbandoned(c) ==
    /\ c \in Writers
    /\ writing' = [writing EXCEPT ![c] = Nothing]
    /\ settling' \in {settling, FALSE}
    /\ torn' \in {torn, TRUE}
    /\ alone' \in {alone, FALSE}
    /\ torn' \/ settling' \/ Writers # {c} \/ object \in {Nothing, last}
    /\ UNCHANGED <<object, last, reading, answer>>

----------------------------------------------------------------------------
ReadBegin(c) ==
    /\ c \notin Writers /\ reading[c] = "no"
    /\ reading' = [reading EXCEPT ![c] = IF Quiet THEN "clear" ELSE "overlapped"]
    /\ NoLongerKnown(c)
    /\ UNCHANGED <<object, last, torn, settling, writing, alone>>

\* What a reader writes back: a piece of the version it has read, unless it was
\* overlapped or missed too much of it.  It may arrive late.
Restore(c, missed) ==
    /\ torn' \in {torn, torn \/ reading[c] = "overlapped" \/ missed > 1}
    /\ settling' \in {settling, TRUE}
    /\ object' \in IF torn' THEN Objects ELSE {object, last}
    /\ alone' \in {alone, alone /\ reading[c] = "clear"}

ReadEnd(c) ==
    /\ reading[c] # "no"
    /\ reading' = [reading EXCEPT ![c] = "no"]
    /\ answer'[c] \in [val : Objects, missed : Nat]
    /\ answer' = [answer EXCEPT ![c] = answer'[c]]
    /\ (reading[c] = "clear" /\ ~torn /\ last # Nothing /\ answer'[c].missed <= 1) =>
          answer'[c].val = last
    /\ Restore(c, answer'[c].missed)
    /\ UNCHANGED <<last, writing>>

RepairEnd(c) ==
    /\ reading[c] # "no"
    /\ reading' = [reading EXCEPT ![c] = "no"]
    /\ \E missed \in 0..2 : Restore(c, missed)
    /\ NoLongerKnown(c)
    /\ UNCHANGED <<last, writing>>

ReadAbandoned(c) ==
    /\ reading[c] # "no"
    /\ reading' = [reading EXCEPT ![c] = "no"]
    /\ NoLongerKnown(c)
    /\ UNCHANGED <<object, last, torn, settling, writing, alone>>

----------------------------------------------------------------------------
\* A piece is lost or deleted, by nobody in particular or by an idle client, or
\* pieces are lost on their way.
Lose ==
    /\ settling' \in {settling, FALSE}
    /\ \/ UNCHANGED <<torn, alone>>
       \/ settling /\ torn' = TRUE /\ alone' = FALSE
    /\ object' \in IF torn \/ ~Quiet THEN Objects ELSE {object, Nothing}
    /\ ~(torn' \/ settling' \/ Writers # {}) => object' \in {Nothing, last}
    /\ \/ \E c \in Clients : NoLongerKnown(c)
       \/ UNCHANGED answer
    /\ UNCHANGED <<last, writing, reading>>

Next ==
    \/ Arrive \/ Lose
    \/ \E c \in Clients :
          \/ WriteBegin(c) \/ WriteSome(c) \/ WriteEnd(c) \/ WriteAbandoned(c)
          \/ ReadBegin(c) \/ ReadEnd(c) \/ RepairEnd(c) \/ ReadAbandoned(c)

Spec == Init /\ [][Next]_vars
============================================================================
