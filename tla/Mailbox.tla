------------------------------ MODULE Mailbox ------------------------------
(***************************************************************************)
(* What an asynchronous command task promises to the code that uses it: a  *)
(* mailbox.  A command that is accepted waits behind the commands accepted *)
(* before it, is executed once, and none is ever dropped.  The mailbox may *)
(* refuse a command at any time (the task is not started, or is stopping). *)
(***************************************************************************)
EXTENDS Sequences

CONSTANT Commands

VARIABLES waiting,   \* accepted, not yet executed
          executed   \* executed, in execution order

mvars == <<waiting, executed>>

MailInit ==
  /\ waiting  = <<>>
  /\ executed = <<>>

Accept(c) ==
  /\ waiting' = Append(waiting, c)
  /\ UNCHANGED executed

ExecuteOldest ==
  /\ waiting # <<>>
  /\ executed' = Append(executed, Head(waiting))
  /\ waiting'  = Tail(waiting)

MailNext == ExecuteOldest \/ \E c \in Commands : Accept(c)

MailSpec == MailInit /\ [][MailNext]_mvars
=============================================================================
