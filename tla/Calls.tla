------------------------------- MODULE Calls -------------------------------
(***************************************************************************)
(* A handler that awaits one thing after another is a script: the steps it *)
(* still has to make, each with what becomes of the call when it fails.    *)
(* An error is a status, with which the call ends, or the name of a block  *)
(* that the code gives up as a whole and goes on behind (an error that is  *)
(* logged, an if let Ok).  Units, Mixer, Host and Bluetooth say what the   *)
(* steps do.                                                               *)
(***************************************************************************)
EXTENDS Naturals, Sequences, FiniteSetsExt

CONSTANT Callers    \* each makes one call

VARIABLES
  call,   \* of each: operation, subject, argument, steps to do, fields as last
          \* read, history: changes made; its reply
  since   \* history: field values its subject has had since its last change

scriptVars == <<call, since>>

Statuses == {"Ok", "Internal", "PermissionDenied", "FailedPrecondition", "InvalidArgument"}

\* The steps, on one subject, with one way to fail.
Try(steps, on, err) == [k \in DOMAIN steps |-> [do |-> steps[k], on |-> on, err |-> err]]

NoCall == [op |-> "none", on |-> "none", arg |-> 0, todo |-> <<>>, saw |-> {}, did |-> {}, reply |-> "none"]

CallsInit == call = [c \in Callers |-> NoCall] /\ since = [c \in Callers |-> {}]

Busy(c) == call[c].todo # <<>>
Now(c) == Head(call[c].todo)
Due(c, step) == Busy(c) /\ Now(c).do = step

\* Call r with its reply, and with the steps todo left.
Ended(r, reply) == [r EXCEPT !.todo = <<>>, !.saw = {}, !.reply = reply]
Left(r, todo) == IF todo = <<>> THEN Ended(r, "Ok") ELSE [r EXCEPT !.todo = todo]

\* A caller asks.
Begin(c, op, on, arg, script) ==
  /\ call[c] = NoCall
  /\ call' = [call EXCEPT ![c] = Left([NoCall EXCEPT !.op = op, !.on = on, !.arg = arg], script)]

\* The step is done and changed nothing ...
Pass(c) == call' = [call EXCEPT ![c] = Left(@, Tail(@.todo))]

\* ... has read a field, or could not and goes on with a default (values = {}) ...
See(c, field, values) == LET r == call[c] IN call' = [call EXCEPT ![c] =
  Left([r EXCEPT !.saw = {f \in r.saw : f[1] # field} \cup ({field} \X values)], Tail(r.todo))]

\* ... or has changed the subject.
Do(c) == LET r == call[c] IN call' = [call EXCEPT ![c] =
  Left([r EXCEPT !.did = r.did \cup {<<Now(c).do, Now(c).on>>}], Tail(r.todo))]

\* The rest of a script behind the block it is in.
Behind(todo) == LET others == {k \in DOMAIN todo : todo[k].err # Head(todo).err} IN
  IF others = {} THEN <<>> ELSE SubSeq(todo, Min(others), Len(todo))

\* The step fails.
Miss(c) == LET err == Now(c).err IN
  call' = [call EXCEPT ![c] =
    IF err \in Statuses THEN Ended(@, err)
    ELSE Left(@, Behind(@.todo))]

\* The step, which asks some service, is done or fails.
Ask(c) == Pass(c) \/ Miss(c)

\* publish never fails (module EventBus).
PublishStep(c) == Due(c, "publish") /\ Pass(c)

-----------------------------------------------------------------------------
(* What the properties of the modules that use this one are made of. *)

\* since follows the subject of a call that will publish, from the request or
\* from its last change on: now is the set of field values after the step.
Publishes(r) == \E k \in DOMAIN r.todo : r.todo[k].do = "publish"
Follow(now) == since' = [c \in Callers |->
  IF ~Publishes(call'[c]) THEN {}
  ELSE (IF call'[c].did # call[c].did THEN {} ELSE since[c]) \cup now[call'[c].on]]

CallsTypeOK == \A c \in Callers :
  /\ call[c].reply \in Statuses \cup {"none"}
  /\ \A f, g \in call[c].saw : f[1] = g[1] => f = g
  /\ \A k \in DOMAIN call[c].todo : DOMAIN call[c].todo[k] = {"do", "on", "err"}

\* The event a call publishes says of its subject what was so at some moment
\* since the call changed it: each field is read after the change.
EventIsFresh == \A c \in Callers : Due(c, "publish") => call[c].saw \subseteq since[c]

\* A call that is refused, for its name, its argument or a precondition, has
\* changed nothing.
RefusedUntouched == \A c \in Callers :
  call[c].reply \in {"PermissionDenied", "FailedPrecondition", "InvalidArgument"} => call[c].did = {}
=============================================================================
