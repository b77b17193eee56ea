------------------------ MODULE MailDispatcherProofs ------------------------
(* Proofs about MailDispatcher, for any mails and any number of starts.      *)
EXTENDS MailDispatcher, SequenceTheorems, TLAPS

(* Facts about the two ends of the queue.                                   *)

\* A mail that is enqueued extends the record of all mails.
LEMMA ConcatAppend ==
  ASSUME NEW t \in Seq(Mails), NEW q \in Seq(Mails), NEW m \in Mails
  PROVE  Append(t \o q, m) = t \o Append(q, m)
<1>1. t \o q \in Seq(Mails) /\ <<m>> \in Seq(Mails)
  BY ConcatProperties
<1>2. Append(t \o q, m) = (t \o q) \o <<m>> /\ Append(q, m) = q \o <<m>>
  BY <1>1, AppendIsConcat
<1> QED BY <1>1, <1>2, ConcatAssociative

\* A mail that moves from the queue to those taken leaves the whole as it was.
LEMMA TakeFirst ==
  ASSUME NEW t \in Seq(Mails), NEW q \in Seq(Mails), q # <<>>
  PROVE  /\ Head(q) \in Mails /\ Tail(q) \in Seq(Mails)
         /\ Append(t, Head(q)) \in Seq(Mails)
         /\ Append(t, Head(q)) \o Tail(q) = t \o q
<1>1. Head(q) \in Mails /\ Tail(q) \in Seq(Mails)
  BY HeadTailProperties
<1>2. <<Head(q)>> \in Seq(Mails) /\ <<Head(q)>> \o Tail(q) = q
  BY <1>1
<1>3. Append(t, Head(q)) = t \o <<Head(q)>>
  BY <1>1, AppendIsConcat
<1>4. (t \o <<Head(q)>>) \o Tail(q) = t \o (<<Head(q)>> \o Tail(q))
  BY <1>1, <1>2, ConcatAssociative
<1> QED BY <1>1, <1>2, <1>3, <1>4

-----------------------------------------------------------------------------
(* The inductive invariant.                                                 *)

\* The condition is not set while the dispatcher is stopped, so that a thread
\* which got past the wait was woken before the last stop() and has taken
\* nothing since, unless it is to shut down; this lasts until it has taken the
\* mail it found, whatever is called after it gave thread_status_mutex_ back.
StopInv ==
  /\ ~run_ /\ ~shutdown_requested_ => ~wakening_call_
  /\ run_ => sentAfterStop = 0
  /\ pc = "lock" /\ ~shutdown_requested_ => sentAfterStop = 0
  /\ pc = "take" => sentAfterStop = 0 /\ messages_ # <<>>
  /\ sentAfterStop <= 1

\* A thread that found a mail did so before the shutdown, and has taken none since.
ShutdownInv ==
  /\ ~shutdown_requested_ \/ pc = "take" => sentAfterShutdown = 0
  /\ sentAfterShutdown <= 1

IInv == MailTypeOK /\ NoLostWakening /\ MailsInOrder /\ StopInv /\ ShutdownInv

LEMMA IInvInit == MailInit => IInv
<1> SUFFICES ASSUME MailInit PROVE IInv
  OBVIOUS
<1>1. <<>> \in Seq(Mails) /\ <<>> \o <<>> = <<>>
  BY EmptySeq, ConcatEmptySeq
<1>2. MailTypeOK
  <2>1. pc # "send" /\ sending = {}
    BY DEF MailInit
  <2>2. sentAfterStop \in Nat /\ starts \in Nat
    BY DEF MailInit
  <2> QED BY <1>1, <2>1, <2>2 DEF MailInit, MailTypeOK
<1>3. MailsInOrder
  BY <1>1 DEF MailInit, MailsInOrder
<1>4. NoLostWakening /\ StopInv /\ ShutdownInv
  BY DEF MailInit, NoLostWakening, StopInv, ShutdownInv
<1> QED BY <1>2, <1>3, <1>4 DEF IInv

LEMMA IInvStep == IInv /\ [MailNext]_mailVars => IInv'
<1> SUFFICES ASSUME IInv, [MailNext]_mailVars PROVE IInv'
  OBVIOUS
<1>1. ASSUME NEW m \in Mails, EnqueueMailMessage(m)  PROVE IInv'
  <2>1. Append(messages_, m) \in Seq(Mails) /\ Append(enqueued, m) \in Seq(Mails)
    BY DEF IInv, MailTypeOK
  <2>2. MailsInOrder'
    BY <1>1, ConcatAppend DEF IInv, MailTypeOK, EnqueueMailMessage, MailsInOrder
  <2>3. MailTypeOK'
    BY <1>1, <2>1 DEF IInv, MailTypeOK, EnqueueMailMessage
  <2>4. NoLostWakening' /\ StopInv' /\ ShutdownInv'
    BY <1>1 DEF IInv, MailTypeOK, EnqueueMailMessage, ContainerLocked,
                    NoLostWakening, StopInv, ShutdownInv
  <2> QED BY <2>2, <2>3, <2>4 DEF IInv
<1>2. CASE DequeueMailMessage
  <2>1. MailsInOrder' /\ messages_' \in Seq(Mails) /\ taken' \in Seq(Mails)
    BY <1>2, TakeFirst DEF IInv, MailTypeOK, DequeueMailMessage, MailsInOrder
  <2>2. MailTypeOK'
    BY <1>2, <2>1 DEF IInv, MailTypeOK, DequeueMailMessage
  <2>3. NoLostWakening' /\ StopInv' /\ ShutdownInv'
    BY <1>2 DEF IInv, MailTypeOK, DequeueMailMessage, ContainerLocked,
                    NoLostWakening, StopInv, ShutdownInv
  <2> QED BY <2>1, <2>2, <2>3 DEF IInv
<1>3. CASE Start
  BY <1>3 DEF IInv, MailTypeOK, Start, NoLostWakening, MailsInOrder, StopInv, ShutdownInv
<1>4. CASE Stop
  BY <1>4 DEF IInv, MailTypeOK, Stop, NoLostWakening, MailsInOrder, StopInv, ShutdownInv
<1>5. CASE Shutdown
  BY <1>5 DEF IInv, MailTypeOK, Shutdown, NoLostWakening, MailsInOrder, StopInv, ShutdownInv
<1>6. CASE WakensUp
  <2>1. StopInv' /\ ShutdownInv'
    BY <1>6 DEF IInv, WakensUp, StopInv, ShutdownInv
  <2> QED BY <1>6, <2>1 DEF IInv, MailTypeOK, WakensUp, NoLostWakening, MailsInOrder
<1>7. CASE EndsRun
  BY <1>7 DEF IInv, MailTypeOK, EndsRun, NoLostWakening, MailsInOrder, StopInv, ShutdownInv
<1>7a. CASE FindsMessage
  BY <1>7a DEF IInv, MailTypeOK, FindsMessage, NoLostWakening, MailsInOrder, StopInv,
               ShutdownInv
<1>8. CASE TakesMessage
  <2>0. pc = "take" /\ messages_ # <<>>
    BY <1>8 DEF IInv, TakesMessage, StopInv
  <2>1. MailsInOrder' /\ messages_' \in Seq(Mails) /\ taken' \in Seq(Mails)
    BY <1>8, <2>0, TakeFirst DEF IInv, MailTypeOK, TakesMessage, MailsInOrder
  <2>1a. Head(messages_) \in Mails /\ sending' = {Head(messages_)}
    BY <1>8, <2>0, TakeFirst DEF IInv, MailTypeOK, TakesMessage
  <2>2. MailTypeOK'
    BY <1>8, <2>1, <2>1a DEF IInv, MailTypeOK, TakesMessage
  <2>3. NoLostWakening' /\ StopInv' /\ ShutdownInv'
    BY <1>8, <2>0 DEF IInv, MailTypeOK, TakesMessage, NoLostWakening, StopInv, ShutdownInv
  <2> QED BY <2>1, <2>2, <2>3 DEF IInv
<1>9. CASE GoesIdle
  BY <1>9 DEF IInv, MailTypeOK, GoesIdle, NoLostWakening, MailsInOrder, StopInv, ShutdownInv
<1>10. CASE SendMailMessageNotifyListener
  BY <1>10 DEF IInv, MailTypeOK, SendMailMessageNotifyListener, NoLostWakening,
               MailsInOrder, StopInv, ShutdownInv
<1>11. CASE NotifiesIdle
  BY <1>11 DEF IInv, MailTypeOK, NotifiesIdle, NoLostWakening, MailsInOrder, StopInv, ShutdownInv
<1>12. CASE UNCHANGED mailVars
  BY <1>12 DEF mailVars, IInv, MailTypeOK, NoLostWakening, MailsInOrder, StopInv, ShutdownInv
<1> QED BY <1>1, <1>2, <1>3, <1>4, <1>5, <1>6, <1>7, <1>8, <1>9, <1>10, <1>11, <1>12, <1>7a
        DEF MailNext

LEMMA IInvAlways == MailSpec => []IInv
  BY IInvInit, IInvStep, PTL DEF MailSpec

-----------------------------------------------------------------------------
\* Every reachable state of the dispatcher has the declared types; in particular
\* the thread holds a mail exactly while it sends one.
THEOREM TypeCorrect == MailSpec => []MailTypeOK
<1>1. IInv => MailTypeOK
  BY DEF IInv
<1> QED BY <1>1, IInvAlways, PTL

\* A started dispatcher with mails in its queue always has its condition set:
\* neither enqueueMailMessage nor the reset before the thread sleeps loses one.
THEOREM NoWakeningLost == MailSpec => []NoLostWakening
<1>1. IInv => NoLostWakening
  BY DEF IInv
<1> QED BY <1>1, IInvAlways, PTL

\* The mails enqueued are those taken, in order, followed by those in the queue:
\* the thread and dequeueMailMessage together lose, double and reorder none.
THEOREM MailsStayInOrder == MailSpec => []MailsInOrder
<1>1. IInv => MailsInOrder
  BY DEF IInv
<1> QED BY <1>1, IInvAlways, PTL

\* After stop() the thread, which does not test run_, begins one mail at most.
THEOREM StopBound == MailSpec => []AtMostOneAfterStop
<1>1. IInv => AtMostOneAfterStop
  BY DEF IInv, StopInv, AtMostOneAfterStop
<1> QED BY <1>1, IInvAlways, PTL

\* After shutdown() has returned the thread begins one mail at most, the one it
\* had found before it gave thread_status_mutex_ back.
THEOREM ShutdownBound == MailSpec => []AtMostOneAfterShutdown
<1>1. IInv => AtMostOneAfterShutdown
  BY DEF IInv, ShutdownInv, AtMostOneAfterShutdown
<1> QED BY <1>1, IInvAlways, PTL
=============================================================================
