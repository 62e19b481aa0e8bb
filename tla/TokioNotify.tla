---------------------------- MODULE TokioNotify ----------------------------
(***************************************************************************)
(* tokio::sync::Notify as src/lockfree_pool.rs uses it: notify_one(),      *)
(* notify_waiters() and the Notified future made by notified().            *)
(*                                                                         *)
(* A Notify is a value, a record with                                      *)
(*   permit  TRUE when one notification is stored for the next waiter (at  *)
(*           most one is ever stored);                                     *)
(*   queue   the registered waiters, oldest first;                         *)
(*   st      the state of each task's Notified future:                     *)
(*             "none"     there is no future                               *)
(*             "created"  made, not polled yet                             *)
(*             "stale"    made, not polled, and notify_waiters() came since *)
(*             "waiting"  registered in queue                              *)
(*             "one"      taken out of queue by notify_one()               *)
(*             "all"      taken out of queue by notify_waiters()           *)
(***************************************************************************)
EXTENDS Sequences, SequencesExt

NotifiedStates == {"none", "created", "stale", "waiting", "one", "all"}

NotifyType(Tasks) ==
    [permit : BOOLEAN, queue : Seq(Tasks), st : [Tasks -> NotifiedStates]]

NewNotify(Tasks) ==
    [permit |-> FALSE, queue |-> <<>>, st |-> [t \in Tasks |-> "none"]]

\* notify_one(): wake the oldest waiter; with nobody registered, store the
\* permit, which a second notification finds already stored.
NotifyOne(n) ==
    IF n.queue = <<>>
    THEN [n EXCEPT !.permit = TRUE]
    ELSE [n EXCEPT !.queue = Tail(@), !.st[Head(n.queue)] = "one"]

\* notify_waiters(): wake every registered waiter and every future that exists
\* already; store nothing for those to come.
NotifyWaiters(n) ==
    [n EXCEPT !.queue = <<>>,
              !.st = [t \in DOMAIN n.st |->
                        IF n.st[t] = "waiting" THEN "all"
                        ELSE IF n.st[t] = "created" THEN "stale"
                        ELSE n.st[t]]]

\* notified(): make the future. It is in no queue until its first poll.
Create(n, t) == [n EXCEPT !.st[t] = "created"]

\* What a poll of t's future finds.
Ready(n, t) ==
    \/ n.st[t] \in {"one", "all", "stale"}
    \/ n.st[t] = "created" /\ n.permit

\* The poll that completes the future: an unregistered future takes the stored
\* permit first.
Consume(n, t) ==
    [n EXCEPT !.permit = @ /\ n.st[t] \notin {"created", "stale"},
              !.st[t] = "none"]

\* The first poll of a future that is not ready registers it.
Register(n, t) == [n EXCEPT !.queue = Append(@, t), !.st[t] = "waiting"]

\* The list of waiters when one of them leaves it.
Unlink(queue, t) ==
    IF t \in ToSet(queue)
    THEN RemoveAt(queue, CHOOSE i \in 1 .. Len(queue) : queue[i] = t)
    ELSE queue

\* Dropping an unfinished future. One that notify_one() had chosen hands its
\* notification on; one woken by notify_waiters() does not.
DropNotified(n, t) ==
    LET gone == [n EXCEPT !.queue = Unlink(@, t), !.st[t] = "none"]
    IN  IF n.st[t] = "one" THEN NotifyOne(gone) ELSE gone
=============================================================================
