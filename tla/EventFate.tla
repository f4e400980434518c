------------------------------ MODULE EventFate ------------------------------
(***************************************************************************)
(* What the detection pipeline promises about each event, whatever fails:  *)
(* it is handed to the worker at most once, its row in detections is       *)
(* written at most once and in the order of publication, and an event that *)
(* is lost stays lost.  That an event is not lost is no part of the        *)
(* promise: the stream is read with the id ">" only.                       *)
(***************************************************************************)
EXTENDS Integers

CONSTANT MaxEvents

Ids == 1..MaxEvents

VARIABLE fate

Fates == {"unpublished", "queued", "taken", "stored", "lost"}

Init == fate = [e \in Ids |-> "unpublished"]

With(f) == {e \in Ids : fate[e] = f}

\* Nothing older than a member of S has the same fate and is not in S.
Oldest(S, f) == \A e \in S : \A d \in With(f) : d < e => d \in S

Become(S, f) == fate' = [e \in Ids |-> IF e \in S THEN f ELSE fate[e]]

\* The next event enters the stream, which may push out the oldest ones.
Publish(e, S) ==
    /\ fate[e] = "unpublished"
    /\ \A d \in Ids : d < e => fate[d] # "unpublished"
    /\ S \subseteq With("queued")
    /\ Oldest(S, "queued")
    /\ fate' = [d \in Ids |-> IF d = e THEN "queued"
                              ELSE IF d \in S THEN "lost" ELSE fate[d]]

\* The worker, which holds no other event, takes the oldest ones.
Take(S) ==
    /\ With("taken") = {}
    /\ S \subseteq With("queued")
    /\ Oldest(S, "queued")
    /\ Become(S, "taken")

Store(e) ==
    /\ fate[e] = "taken"
    /\ Oldest({e}, "taken")
    /\ Become({e}, "stored")

Lose(S) ==
    /\ S \subseteq With("queued") \cup With("taken")
    /\ Oldest(S, "queued")
    /\ Become(S, "lost")

Next ==
    \/ \E e \in Ids, S \in SUBSET Ids : Publish(e, S)
    \/ \E S \in SUBSET Ids : Take(S)
    \/ \E e \in Ids : Store(e)
    \/ \E S \in SUBSET Ids : Lose(S)

Spec == Init /\ [][Next]_fate

=============================================================================
