------------------------------ MODULE MCThreads ------------------------------
(***************************************************************************)
(* The two components that have threads of their own and eventualities,    *)
(* explored by one run: the retrieval of graphics with the thread manager, *)
(* and the mail dispatcher.  They share nothing; part is the component     *)
(* that a behaviour is of, and the other one stays in its initial state,   *)
(* where none of its fair actions is enabled.                              *)
(***************************************************************************)
EXTENDS GraphicRetrieval, MailDispatcher

VARIABLE part

PartsInit == RetrievalInit /\ MailInit /\ part \in {"retrieval", "mails"}

PartsNext ==
  /\ UNCHANGED part
  /\ \/ part = "retrieval" /\ RetrievalNext /\ UNCHANGED mailVars
     \/ part = "mails" /\ MailNext /\ UNCHANGED allVars

PartsSpec ==
  /\ PartsInit /\ [][PartsNext]_<<allVars, mailVars, part>>
  /\ RetrievalFairness /\ MailFairness
=============================================================================
