--------------------------- MODULE MailDispatcher ---------------------------
(***************************************************************************)
(* MailDispatcher (source/uibase/dbui/maildispatcher.cxx): a thread that   *)
(* sends the mails of a mail merge, and the calls with which a client      *)
(* feeds, starts, stops and shuts it down.                                 *)
(*                                                                         *)
(* A call of the client is one step: it holds thread_status_mutex_ or      *)
(* message_container_mutex_ for all it does to the state.  The thread      *)
(* takes one step to return from the wait on wakening_call_, one under     *)
(* both mutexes, one under message_container_mutex_ alone after it gave    *)
(* thread_status_mutex_ back (maildispatcher.cxx:251), and one for what it *)
(* does without them.                                                      *)
(***************************************************************************)
EXTENDS Naturals, Sequences

CONSTANTS
  Mails,       \* the mail messages
  MaxStarts    \* bound on the number of start() calls

VARIABLES
  messages_,
  run_,
  shutdown_requested_,
  wakening_call_,    \* is the condition set?
  pc,                \* where the thread is
  sending,           \* the mail that the thread took out of messages_, if any
  enqueued,          \* every mail that was enqueued, in that order
  taken,             \* every mail that left messages_, in that order
  sentAfterStop,     \* mails the thread took since the last stop()
  sentAfterShutdown, \* mails the thread took since the first shutdown()
  starts

mailVars == <<messages_, run_, shutdown_requested_, wakening_call_, pc, sending,
          enqueued, taken, sentAfterStop, sentAfterShutdown, starts>>

MailTypeOK ==
  /\ messages_ \in Seq(Mails) /\ enqueued \in Seq(Mails) /\ taken \in Seq(Mails)
  /\ run_ \in BOOLEAN /\ shutdown_requested_ \in BOOLEAN /\ wakening_call_ \in BOOLEAN
  /\ pc \in {"wait", "lock", "take", "send", "idle", "ended"}
  /\ sending \in {{}} \cup {{m} : m \in Mails}
  /\ (sending # {} <=> pc = "send")
  /\ sentAfterStop \in Nat /\ sentAfterShutdown \in Nat
  /\ starts \in Nat

\* The constructor has returned: the thread is alive.
MailInit ==
  /\ messages_ = <<>> /\ enqueued = <<>> /\ taken = <<>>
  /\ run_ = FALSE /\ shutdown_requested_ = FALSE /\ wakening_call_ = FALSE
  /\ pc = "wait" /\ sending = {}
  /\ sentAfterStop = 0 /\ sentAfterShutdown = 0 /\ starts = 0

\* The thread keeps message_container_mutex_ until it has taken the mail.
ContainerLocked == pc = "take"

-----------------------------------------------------------------------------
(* The client.  The preconditions on isStarted and on the shutdown are      *)
(* diagnostics: the calls are defined, and modelled, without them.          *)

\* Mutant of EnqueueMailMessage: the thread is not woken.
EnqueueMailMessage_NoWakening(m) ==
  /\ ~ContainerLocked /\ \A i \in 1 .. Len(enqueued) : enqueued[i] # m
  /\ messages_' = Append(messages_, m)
  /\ enqueued' = Append(enqueued, m)
  /\ UNCHANGED <<run_, shutdown_requested_, wakening_call_, pc, sending, taken,
                 sentAfterStop, sentAfterShutdown, starts>>

EnqueueMailMessage(m) ==
  /\ ~ContainerLocked /\ \A i \in 1 .. Len(enqueued) : enqueued[i] # m
  /\ messages_' = Append(messages_, m)
  /\ enqueued' = Append(enqueued, m)
  /\ wakening_call_' = (wakening_call_ \/ run_)
  /\ UNCHANGED <<run_, shutdown_requested_, pc, sending, taken,
                 sentAfterStop, sentAfterShutdown, starts>>

\* The caller gets the first mail, or nothing.
DequeueMailMessage ==
  /\ ~ContainerLocked /\ messages_ # <<>>
  /\ messages_' = Tail(messages_)
  /\ taken' = Append(taken, Head(messages_))
  /\ UNCHANGED <<run_, shutdown_requested_, wakening_call_, pc, sending, enqueued,
                 sentAfterStop, sentAfterShutdown, starts>>

Start ==
  /\ ~shutdown_requested_ /\ starts < MaxStarts
  /\ run_' = TRUE /\ wakening_call_' = TRUE
  /\ sentAfterStop' = 0 /\ starts' = starts + 1
  /\ UNCHANGED <<messages_, shutdown_requested_, pc, sending, enqueued, taken,
                 sentAfterShutdown>>

\* Mutant of Stop: the condition stays set.
Stop_KeepsAwake ==
  /\ ~shutdown_requested_
  /\ run_' = FALSE
  /\ UNCHANGED <<messages_, shutdown_requested_, wakening_call_, pc, sending, enqueued,
                 taken, sentAfterStop, sentAfterShutdown, starts>>

Stop ==
  /\ ~shutdown_requested_
  /\ run_' = FALSE /\ wakening_call_' = FALSE
  /\ UNCHANGED <<messages_, shutdown_requested_, pc, sending, enqueued, taken,
                 sentAfterStop, sentAfterShutdown, starts>>

\* Mutant of Shutdown: a thread that waits is not woken.
Shutdown_NoWakening ==
  /\ shutdown_requested_' = TRUE
  /\ UNCHANGED <<messages_, run_, wakening_call_, pc, sending, enqueued, taken,
                 sentAfterStop, sentAfterShutdown, starts>>

Shutdown ==
  /\ shutdown_requested_' = TRUE /\ wakening_call_' = TRUE
  /\ UNCHANGED <<messages_, run_, pc, sending, enqueued, taken, sentAfterStop,
                 sentAfterShutdown, starts>>

-----------------------------------------------------------------------------
(* The thread.                                                              *)

WakensUp ==
  /\ pc = "wait" /\ wakening_call_
  /\ pc' = "lock"
  /\ UNCHANGED <<messages_, run_, shutdown_requested_, wakening_call_, sending,
                 enqueued, taken, sentAfterStop, sentAfterShutdown, starts>>

EndsRun ==
  /\ pc = "lock" /\ shutdown_requested_
  /\ pc' = "ended"
  /\ UNCHANGED <<messages_, run_, shutdown_requested_, wakening_call_, sending,
                 enqueued, taken, sentAfterStop, sentAfterShutdown, starts>>

\* Mutant of FindsMessage: the request to shut down is not looked at.
FindsMessage_IgnoresShutdown ==
  /\ pc = "lock" /\ messages_ # <<>>
  /\ pc' = "take"
  /\ UNCHANGED <<messages_, run_, shutdown_requested_, wakening_call_, sending,
                 enqueued, taken, sentAfterStop, sentAfterShutdown, starts>>

\* The thread does not look at run_, and gives thread_status_mutex_ back.
FindsMessage ==
  /\ pc = "lock" /\ ~shutdown_requested_ /\ messages_ # <<>>
  /\ pc' = "take"
  /\ UNCHANGED <<messages_, run_, shutdown_requested_, wakening_call_, sending,
                 enqueued, taken, sentAfterStop, sentAfterShutdown, starts>>

\* Mutant of TakesMessage: the first mail is sent and stays in the queue.
TakesMessage_NoPop ==
  /\ pc = "take"
  /\ sending' = {Head(messages_)} /\ pc' = "send"
  /\ taken' = Append(taken, Head(messages_))
  /\ sentAfterStop' = IF run_ THEN sentAfterStop ELSE sentAfterStop + 1
  /\ sentAfterShutdown' = IF shutdown_requested_ THEN sentAfterShutdown + 1
                          ELSE sentAfterShutdown
  /\ UNCHANGED <<messages_, run_, shutdown_requested_, wakening_call_, enqueued, starts>>

\* stop() and shutdown() may have returned since the thread found the mail.
TakesMessage ==
  /\ pc = "take"
  /\ sending' = {Head(messages_)} /\ pc' = "send"
  /\ messages_' = Tail(messages_)
  /\ taken' = Append(taken, Head(messages_))
  /\ sentAfterStop' = IF run_ THEN sentAfterStop ELSE sentAfterStop + 1
  /\ sentAfterShutdown' = IF shutdown_requested_ THEN sentAfterShutdown + 1
                          ELSE sentAfterShutdown
  /\ UNCHANGED <<run_, shutdown_requested_, wakening_call_, enqueued, starts>>

\* Mutant of GoesIdle: the condition is reset although a mail waits.
GoesIdle_AnyTime ==
  /\ pc = "lock" /\ ~shutdown_requested_
  /\ wakening_call_' = FALSE /\ pc' = "idle"
  /\ UNCHANGED <<messages_, run_, shutdown_requested_, sending, enqueued, taken,
                 sentAfterStop, sentAfterShutdown, starts>>

GoesIdle ==
  /\ pc = "lock" /\ ~shutdown_requested_ /\ messages_ = <<>>
  /\ wakening_call_' = FALSE /\ pc' = "idle"
  /\ UNCHANGED <<messages_, run_, shutdown_requested_, sending, enqueued, taken,
                 sentAfterStop, sentAfterShutdown, starts>>

\* Mutant of SendMailMessageNotifyListener: the mail is kept.
SendMailMessageNotifyListener_Keeps ==
  /\ pc = "send"
  /\ pc' = "wait" /\ UNCHANGED sending
  /\ UNCHANGED <<messages_, run_, shutdown_requested_, wakening_call_, enqueued, taken,
                 sentAfterStop, sentAfterShutdown, starts>>

\* The mail server answers, with success or a failure, and the listeners are told.
SendMailMessageNotifyListener ==
  /\ pc = "send"
  /\ pc' = "wait" /\ sending' = {}
  /\ UNCHANGED <<messages_, run_, shutdown_requested_, wakening_call_, enqueued, taken,
                 sentAfterStop, sentAfterShutdown, starts>>

\* The listeners hear that the thread is idle.
NotifiesIdle ==
  /\ pc = "idle"
  /\ pc' = "wait"
  /\ UNCHANGED <<messages_, run_, shutdown_requested_, wakening_call_, sending,
                 enqueued, taken, sentAfterStop, sentAfterShutdown, starts>>

Thread == \/ WakensUp \/ EndsRun \/ FindsMessage \/ TakesMessage \/ GoesIdle
          \/ SendMailMessageNotifyListener \/ NotifiesIdle

-----------------------------------------------------------------------------
MailNext ==
  \/ \E m \in Mails : EnqueueMailMessage(m)
  \/ DequeueMailMessage
  \/ Start
  \/ Stop
  \/ Shutdown
  \/ WakensUp
  \/ EndsRun
  \/ FindsMessage
  \/ TakesMessage
  \/ GoesIdle
  \/ SendMailMessageNotifyListener
  \/ NotifiesIdle

MailSpec == MailInit /\ [][MailNext]_mailVars

\* The thread is scheduled, and the mail server and the listeners return.
MailFairness == WF_mailVars(Thread)
MailFairSpec == MailSpec /\ MailFairness

-----------------------------------------------------------------------------
(* Safety.                                                                  *)

\* No wakening is lost: while the dispatcher is started and mails wait, the
\* condition is set, whatever the thread and the client were doing at that time.
NoLostWakening ==
  run_ /\ ~shutdown_requested_ /\ messages_ # <<>> => wakening_call_

\* Mails leave the queue in the order they were enqueued, none is lost and none
\* is taken twice, although the client may take mails out too.
MailsInOrder == enqueued = taken \o messages_

\* After stop() the thread begins to send at most one mail until the next start.
AtMostOneAfterStop == ~run_ => sentAfterStop <= 1

\* After shutdown() at most one mail is still begun, the one the thread had found
\* when it gave thread_status_mutex_ back; all others are discarded, as
\* maildispatcher.hxx says at the destructor.
AtMostOneAfterShutdown == sentAfterShutdown <= 1

\* A thread told to shut down ends.
ShutdownEndsThread == shutdown_requested_ ~> pc = "ended"

\* A mail that waits while the dispatcher is started is taken, unless the
\* dispatcher is stopped or shut down.
WaitingMailTaken ==
  \A m \in Mails :
    (\E i \in 1 .. Len(messages_) : messages_[i] = m) /\ run_
      ~> (\A i \in 1 .. Len(messages_) : messages_[i] # m) \/ ~run_ \/ shutdown_requested_

=============================================================================
