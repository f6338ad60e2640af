------------------------------ MODULE HostProofs ------------------------------
(***************************************************************************)
(* Proofs about module Host, for every number of clients, calls, units and *)
(* mixer elements.                                                         *)
(*                                                                         *)
(*   CallsInv   what is true of each call: its steps are the rest of a     *)
(*              script, and what a step needs is done by one before it     *)
(*   MixerInv   an element has the volume that was asked for last          *)
(*   FileInv    the file, when calls on it do not overlap                  *)
(*   ActionInv  the post-write actions and what the unit has read          *)
(*                                                                         *)
(* A step of the system is a step of one call (Moves), or begins or ends   *)
(* one (Changing).  Moves keeps CallInv whatever the script is; that each  *)
(* script has it to begin with is shown item by item.                      *)
(***************************************************************************)
EXTENDS Host, CallsProofs

-----------------------------------------------------------------------------
(* What is true of a call, whatever it is: its steps are the rest of a      *)
(* script, and what a step needs is done by one before it.                 *)

ChangeKinds == Jobs \cup Files \cup {"on", "off", "set_volume", "set_mute", "gain"}
Reads == {"active", "enabled", "percent", "muted"}
Refusals == {"PermissionDenied", "FailedPrecondition", "InvalidArgument"}
Blocks == {"event", "ignored", "logged"} \cup Units
Names == Units \cup {"adapter", "none", "stream", "Master", "PCM", "a2dp"}
Kinds == ChangeKinds \cup Reads \cup
  {"check", "connect", "load", "daemon_reload", "publish", "timeout", "require", "open", "card"}
Item == [do : Kinds, on : Names, err : (Statuses \ {"Ok"}) \cup Blocks]

\* Steps j and k, and those between them, fail together.
SameBlock(todo, j, k) == \A i \in j..k : todo[i].err = todo[k].err

CallTyped(r) ==
  /\ r = [op |-> r.op, on |-> r.on, arg |-> r.arg, todo |-> r.todo, saw |-> r.saw, did |-> r.did,
          reply |-> r.reply]
  /\ r.on \in Names /\ r.arg \in Nat /\ r.todo \in Seq(Item) /\ r.reply \in Statuses \cup {"none"}
  /\ r.todo # <<>> => r.reply = "none" /\ r.op # "none"
  /\ r.op = "none" => r.reply = "none"
  /\ \A f \in r.saw : f[1] \in Reads
  /\ \A f, g \in r.saw : f[1] = g[1] => f = g

\* A unit that a step changes is on the allowlist, or a check comes before it.
Checked(r) ==
  /\ \A k \in DOMAIN r.todo : r.todo[k].do \in Jobs \cup Files =>
       \/ r.todo[k].on \in Allow
       \/ \E j \in 1..(k - 1) : /\ r.todo[j].do = "check" /\ r.todo[j].on = r.todo[k].on
                                /\ r.todo[j].err \in Statuses
  /\ \A u \in Units \ Allow, kind \in Jobs \cup Files : <<kind, u>> \notin r.did

\* A step that may refuse comes before all changes, or does not refuse.
Early(r) ==
  /\ \A k \in DOMAIN r.todo : r.todo[k].err \in Refusals =>
       \/ r.todo[k].do = "check" /\ r.todo[k].on \in Allow
       \/ \E j \in 1..(k - 1) : r.todo[j].do = "require" /\ r.todo[j].err \in Statuses /\ ~A2dpEnabled
       \/ r.did = {} /\ \A j \in 1..(k - 1) : r.todo[j].do \notin ChangeKinds
  /\ r.reply \in Refusals => r.did = {}

\* The changes a call was asked for are made or still to be made, and no others.
Must(r) ==
  IF r.op = "a2dp_enable" THEN {<<"start", A2dpUnit>>, <<"on", "adapter">>}
  ELSE IF r.op = "a2dp_disable" THEN {<<"stop", A2dpUnit>>}
  ELSE IF r.op \in {"status", "list", "list_mixers", "get_volume"} THEN {}
  ELSE {<<r.op, r.on>>}
May(r) == Must(r) \cup (IF r.op = "a2dp_disable" THEN {<<"off", "adapter">>} ELSE {})
Settled(r) ==
  /\ \A x \in r.did : x \in May(r)
  /\ \A k \in DOMAIN r.todo : r.todo[k].do \in ChangeKinds => <<r.todo[k].do, r.todo[k].on>> \in May(r)
  /\ r.op # "none" /\ r.reply \in {"none", "Ok"} => \A x \in Must(r) :
       \/ x \in r.did
       \/ \E k \in DOMAIN r.todo : /\ r.todo[k].do \in ChangeKinds /\ r.todo[k].err \in Statuses
                                   /\ x = <<r.todo[k].do, r.todo[k].on>>

\* An element is read only when it was found.
Opened(r) == \A k \in DOMAIN r.todo : r.todo[k].do \in {"percent", "muted"} =>
  \/ Find(r.todo[k].on) # "none"
  \/ \E j \in 1..(k - 1) : /\ r.todo[j].do = "open" /\ r.todo[j].on = r.todo[k].on
                           /\ SameBlock(r.todo, j, k)

\* What is read for an event is read of its subject.
OnSubject(r) == \A j, k \in DOMAIN r.todo :
  j < k /\ r.todo[j].do \in Reads /\ r.todo[k].do = "publish" =>
    /\ r.todo[j].on = r.on
    /\ IF r.todo[j].do \in {"active", "enabled"} THEN r.on \in Units ELSE r.on \in {"Master", "PCM"}

\* Between a change and the event, all that was read before is read again.
ReadAgain(todo, field, i, k) ==
  \E j \in (i + 1)..(k - 1) : todo[j].do = field /\ SameBlock(todo, j, k)
Reread(r) == \A i, k \in DOMAIN r.todo, field \in Reads :
  /\ i < k /\ r.todo[i].do \in ChangeKinds /\ r.todo[k].do = "publish"
  /\ (\E f \in r.saw : f[1] = field) \/ (\E j \in 1..(i - 1) : r.todo[j].do = field)
  => ReadAgain(r.todo, field, i, k)

CallInv(r) == CallTyped(r) /\ Checked(r) /\ Early(r) /\ Settled(r) /\ Opened(r) /\ OnSubject(r) /\ Reread(r)

\* What a call has read for its event was so since, or is read again.
Fresh(r, s) == \A k \in DOMAIN r.todo, f \in r.saw :
  r.todo[k].do = "publish" => f \in s \/ ReadAgain(r.todo, f[1], 0, k)

CallsInv == /\ call = [c \in Callers |-> call[c]] /\ since = [c \in Callers |-> since[c]]
            /\ \A c \in Callers : CallInv(call[c]) /\ Fresh(call[c], since[c])

-----------------------------------------------------------------------------
(* The mixer, and the file with one call at a time.                        *)

MixerInv == MixerTypeOK /\ \A m \in Controls : asked[m] >= 0 => level[m] = Raw(asked[m])

Writing == {"block1", "block2", "chmod", "rename"}
LastOne == IF effected = <<>> THEN Old ELSE effected[Len(effected)]

FilesTyped ==
  /\ PutTypeOK /\ reader = [inode |-> reader.inode, read |-> reader.read]
  /\ reader.read \in Seq(Inodes \cup {NoFile}) /\ Len(reader.read) <= 2
  /\ reader.inode = NoFile => reader.read = <<>>
  /\ \A w \in Puts : pc[w] \in {"block1", "block2"} => fd[w] # NoFile

\* Every inode in use was made by a call that has opened it.
InodesInv ==
  /\ \A w \in Puts : pc[w] \in {"idle", "open"} => w \notin {target, tmp, reader.inode}
  /\ tmp # NoFile => tmp # target /\ tmp # reader.inode

\* The call that writes has its inode for itself.
WriterInv ==
  /\ \A v, w \in InFlight : v = w
  /\ \A w \in Puts :
       /\ pc[w] \in Writing => fd[w] = tmp /\ tmp # NoFile
       /\ pc[w] \in {"idle", "open"} \cup Writing =>
            outcome[w] = "none" /\ w \notin {effected[k] : k \in DOMAIN effected}
       /\ pc[w] = "block2" => content[tmp][1] = w
       /\ pc[w] \in {"chmod", "rename"} => content[tmp] = Whole(w)
  /\ \A k \in DOMAIN effected : outcome[effected[k]] # "failed"

TargetInv ==
  /\ content[target] = Whole(LastOne)
  /\ reader.inode # NoFile => \E v \in Inodes :
       content[reader.inode] = Whole(v) /\ \A k \in DOMAIN reader.read : reader.read[k] = v

\* A default mode, of the file or on its way to it, comes from a mode unseen.
ModeInv ==
  /\ mode[target] # "new" /\ (mode[target] = "default" => Unseen)
  /\ mode[target] = "none" => effected = <<>>
  /\ \A w \in Puts : pc[w] \in {"open"} \cup Writing =>
       perms[w] \in {"file", "default", "unseen"} /\ (perms[w] = "default" => Unseen)
  /\ \A w \in Puts : pc[w] = "rename" =>
       mode[tmp] \in {"file", "default"} /\ (mode[tmp] = "default" => Unseen \/ perms[w] = "unseen")

\* The calls of ConfigService, and no others, are the post-write actions.
ActsInv ==
  /\ service # "config" => effected = <<>>
  /\ service = "config" => \A c \in Callers : call[c] # NoCall =>
       c \in Puts /\ pc[c] = "acting" /\ call[c].op \in {"reload", "restart"} /\ call[c].on = BoundUnit

Asked(w) == outcome[w] = "applied" \/ (w \in Callers /\ call[w].did # {})
ReadInv == service = "config" =>
  /\ unit[BoundUnit].job \in {"none", "reload", "restart"}
  /\ \A k \in DOMAIN effected : Asked(effected[k]) =>
       unit[BoundUnit].job # "none" \/ \E j \in k..Len(effected) : loaded = Whole(effected[j])

-----------------------------------------------------------------------------
(* The steps a call can make. *)

Goes(r, r2, n) ==
  /\ r2 = [op |-> r.op, on |-> r.on, arg |-> r.arg, todo |-> r2.todo, saw |-> r2.saw, did |-> r2.did,
           reply |-> IF r2.todo = <<>> THEN "Ok" ELSE r.reply]
  /\ r2.todo \in Seq(Item) /\ Rest(r.todo, r2.todo, n)

Passes(r, r2) ==
  /\ Goes(r, r2, 1) /\ r2.did = r.did /\ r2.saw \subseteq r.saw
  /\ r.todo[1].do \notin ChangeKinds \cup Reads
  /\ r.todo[1].do = "check" => r.todo[1].on \in Allow
  /\ r.todo[1].do = "require" => A2dpEnabled
  /\ r.todo[1].do = "open" => Find(r.todo[1].on) # "none"

\* Facts are those of the subject the step reads of.
Sees(r, r2, facts) ==
  /\ Goes(r, r2, 1) /\ r2.did = r.did /\ r.todo[1].do \in Reads
  /\ \A f \in r2.saw : \/ f \in r.saw /\ f[1] # r.todo[1].do
                       \/ f[1] = r.todo[1].do /\ f \in facts
  /\ \A f, g \in r2.saw : f[1] = r.todo[1].do /\ g[1] = r.todo[1].do => f = g

Does(r, r2) ==
  /\ Goes(r, r2, 1) /\ r.todo[1].do \in ChangeKinds
  /\ r2.did = r.did \cup {<<r.todo[1].do, r.todo[1].on>>} /\ r2.saw \subseteq r.saw

GivesUp(r, r2, n) ==
  /\ Goes(r, r2, n) /\ r2.did = r.did /\ r2.saw \subseteq r.saw /\ r.todo[1].err \notin Statuses
  /\ \A k \in 1..n : r.todo[k].err = r.todo[1].err
  /\ n < Len(r.todo) => r.todo[n + 1].err # r.todo[1].err

Refuses(r, r2) ==
  /\ r2 = [op |-> r.op, on |-> r.on, arg |-> r.arg, todo |-> <<>>, saw |-> {}, did |-> r.did,
           reply |-> r.todo[1].err]
  /\ r.todo[1].err \in Statuses
  /\ ~(r.todo[1].do = "check" /\ r.todo[1].on \in Allow)
  /\ ~(r.todo[1].do = "require" /\ A2dpEnabled)

Moves(r, r2, facts) ==
  /\ r.todo # <<>>
  /\ \/ Passes(r, r2) \/ Sees(r, r2, facts) \/ Does(r, r2) \/ Refuses(r, r2)
     \/ \E n \in 1..Len(r.todo) : GivesUp(r, r2, n)

\* The kinds of steps.
LEMMA StepKinds ==
  /\ ChangeKinds \cap Reads = {} /\ "check" \notin ChangeKinds \cup Reads
  /\ "require" \notin ChangeKinds \cup Reads /\ "open" \notin ChangeKinds \cup Reads
  /\ "publish" \notin ChangeKinds \cup Reads
  /\ Refusals \subseteq Statuses \ {"Ok"} /\ Jobs \cup Files \subseteq ChangeKinds
  /\ Blocks \cap Statuses = {}
BY HostAssumption DEF ChangeKinds, Reads, Jobs, Files, Refusals, Statuses, Blocks

\* The steps of a script.
LEMMA Items ==
  ASSUME NEW r, CallTyped(r)
  PROVE  /\ Len(r.todo) \in Nat /\ DOMAIN r.todo = 1..Len(r.todo)
         /\ \A k \in 1..Len(r.todo) : r.todo[k] \in Item /\ r.todo[k].err \in (Statuses \ {"Ok"}) \cup Blocks
         /\ r.todo # <<>> => 1 \in 1..Len(r.todo) /\ r.op # "none" /\ r.reply = "none"
<1>1. r.todo \in Seq(Item)
  BY DEF CallTyped
<1>2. Len(r.todo) \in Nat /\ DOMAIN r.todo = 1..Len(r.todo) /\ \A k \in 1..Len(r.todo) : r.todo[k] \in Item
  BY <1>1
<1>3. r.todo # <<>> => 1 \in 1..Len(r.todo)
  BY <1>1, TailRest DEF Rest
<1>4. \A i \in Item : i.err \in (Statuses \ {"Ok"}) \cup Blocks
  BY DEF Item
<1> QED
  BY <1>2, <1>3, <1>4 DEF CallTyped

\* What a call is after a step.
LEMMA Moved ==
  ASSUME NEW r, NEW r2, NEW facts, CallTyped(r), Moves(r, r2, facts)
  PROVE  /\ CallTyped(r2) /\ r2.op = r.op /\ r2.on = r.on /\ r2.arg = r.arg
         /\ r2.did \in {r.did, r.did \cup {<<r.todo[1].do, r.todo[1].on>>}}
<1>1. /\ r.on \in Names /\ r.arg \in Nat /\ r.todo \in Seq(Item) /\ r.reply = "none" /\ r.op # "none"
      /\ r.todo # <<>>
      /\ \A f \in r.saw : f[1] \in Reads
      /\ \A f, g \in r.saw : f[1] = g[1] => f = g
  BY DEF CallTyped, Moves
<1>2. ASSUME NEW n, Goes(r, r2, n),
             \A f \in r2.saw : f[1] \in Reads, \A f, g \in r2.saw : f[1] = g[1] => f = g
      PROVE  CallTyped(r2) /\ r2.op = r.op /\ r2.on = r.on /\ r2.arg = r.arg
  <2>1. /\ r2 = [op |-> r2.op, on |-> r2.on, arg |-> r2.arg, todo |-> r2.todo, saw |-> r2.saw,
                 did |-> r2.did, reply |-> r2.reply]
        /\ r2.op = r.op /\ r2.on = r.on /\ r2.arg = r.arg /\ r2.todo \in Seq(Item)
        /\ r2.reply = IF r2.todo = <<>> THEN "Ok" ELSE r.reply
    BY <1>2 DEF Goes
  <2>2. r2.reply \in Statuses \cup {"none"} /\ (r2.todo # <<>> => r2.reply = "none")
    BY <1>1, <2>1 DEF Statuses
  <2> QED
    BY <1>1, <1>2, <2>1, <2>2 DEF CallTyped
<1>3. CASE Passes(r, r2) \/ Does(r, r2)
  BY <1>1, <1>2, <1>3 DEF Passes, Does
<1>4. CASE Sees(r, r2, facts)
  <2>1. Goes(r, r2, 1) /\ r2.did = r.did
    BY <1>4 DEF Sees
  <2>2. \A f \in r2.saw : f[1] \in Reads
    BY <1>1, <1>4 DEF Sees
  <2>3. \A f, g \in r2.saw : f[1] = g[1] => f = g
    BY <1>1, <1>4 DEF Sees
  <2> QED
    BY <1>2, <2>1, <2>2, <2>3
<1>5. CASE Refuses(r, r2)
  <2>1. /\ r2 = [op |-> r2.op, on |-> r2.on, arg |-> r2.arg, todo |-> r2.todo, saw |-> r2.saw,
                 did |-> r2.did, reply |-> r2.reply]
        /\ r2.op = r.op /\ r2.on = r.on /\ r2.arg = r.arg /\ r2.todo = <<>> /\ r2.saw = {} /\ r2.did = r.did
        /\ r2.reply \in Statuses
    BY <1>5 DEF Refuses
  <2>2. <<>> \in Seq(Item)
    OBVIOUS
  <2> QED
    BY <1>1, <2>1, <2>2 DEF CallTyped
<1>6. ASSUME NEW n \in 1..Len(r.todo), GivesUp(r, r2, n) PROVE CallTyped(r2) /\ r2.op = r.op /\ r2.on = r.on
                                                               /\ r2.arg = r.arg /\ r2.did = r.did
  BY <1>1, <1>2, <1>6 DEF GivesUp
<1> QED
  BY <1>3, <1>4, <1>5, <1>6 DEF Moves

\* A step leaves the rest of the script, with what came before it either over or,
\* when it failed, given up with its block.
LEMMA RestOf ==
  ASSUME NEW r, NEW r2, NEW facts, CallTyped(r), Moves(r, r2, facts)
  PROVE  \/ r2.todo = <<>> /\ Refuses(r, r2)
         \/ \E n \in 1..Len(r.todo) :
              /\ Rest(r.todo, r2.todo, n)
              /\ \A k \in DOMAIN r2.todo : k + n \in DOMAIN r.todo /\ r2.todo[k] = r.todo[k + n]
              /\ \A k \in DOMAIN r2.todo : \A j \in 1..(k + n - 1) : j > n => j - n \in 1..(k - 1)
              /\ \/ n = 1 /\ (Passes(r, r2) \/ Sees(r, r2, facts) \/ Does(r, r2))
                 \/ GivesUp(r, r2, n)
<1>1. CASE Refuses(r, r2)
  BY <1>1 DEF Refuses
<1>2. ASSUME NEW n, Goes(r, r2, n)
      PROVE  /\ n \in 1..Len(r.todo) /\ Rest(r.todo, r2.todo, n)
             /\ \A k \in DOMAIN r2.todo : k + n \in DOMAIN r.todo /\ r2.todo[k] = r.todo[k + n]
             /\ \A k \in DOMAIN r2.todo : \A j \in 1..(k + n - 1) : j > n => j - n \in 1..(k - 1)
  <2>1. /\ n \in 1..Len(r.todo) /\ Len(r.todo) \in Nat /\ DOMAIN r.todo = 1..Len(r.todo)
        /\ DOMAIN r2.todo = 1..(Len(r.todo) - n) /\ \A k \in 1..(Len(r.todo) - n) : r2.todo[k] = r.todo[k + n]
    BY <1>2 DEF Goes, Rest
  <2>2. \A k \in 1..(Len(r.todo) - n) : k + n \in 1..Len(r.todo)
    BY <2>1
  <2>3. \A k \in 1..(Len(r.todo) - n) : \A j \in 1..(k + n - 1) : j > n => j - n \in 1..(k - 1)
    BY <2>1
  <2> QED
    BY <1>2, <2>1, <2>2, <2>3 DEF Goes
<1>3. CASE Passes(r, r2) \/ Sees(r, r2, facts) \/ Does(r, r2)
  BY <1>2, <1>3 DEF Passes, Sees, Does
<1>4. ASSUME NEW n \in 1..Len(r.todo), GivesUp(r, r2, n)
      PROVE  /\ Rest(r.todo, r2.todo, n)
             /\ \A k \in DOMAIN r2.todo : k + n \in DOMAIN r.todo /\ r2.todo[k] = r.todo[k + n]
             /\ \A k \in DOMAIN r2.todo : \A j \in 1..(k + n - 1) : j > n => j - n \in 1..(k - 1)
  BY <1>2, <1>4 DEF GivesUp
<1> QED
  BY <1>1, <1>3, <1>4 DEF Moves

\* A step changes only what a check has let through.
LEMMA KeepsChecked ==
  ASSUME NEW r, NEW r2, NEW facts, CallTyped(r), Moves(r, r2, facts), Checked(r)
  PROVE  Checked(r2)
<1>1. Len(r.todo) \in Nat /\ DOMAIN r.todo = 1..Len(r.todo) /\ 1 \in DOMAIN r.todo
  BY Items DEF Moves
<1>2. \A u \in Units \ Allow, kind \in Jobs \cup Files : <<kind, u>> \notin r2.did
  <2>1. CASE r2.did = r.did
    BY <2>1 DEF Checked
  <2>2. CASE r2.did # r.did
    <3>1. r2.did = r.did \cup {<<r.todo[1].do, r.todo[1].on>>}
      BY <2>2, Moved
    <3>2. r.todo[1].do \in Jobs \cup Files => r.todo[1].on \in Allow
      BY <1>1 DEF Checked
    <3> QED
      BY <3>1, <3>2 DEF Checked
  <2> QED
    BY <2>1, <2>2
<1>3. CASE r2.todo = <<>>
  BY <1>2, <1>3 DEF Checked
<1>4. CASE r2.todo # <<>>
  <2>1. PICK n \in 1..Len(r.todo) :
           /\ \A k \in DOMAIN r2.todo : k + n \in DOMAIN r.todo /\ r2.todo[k] = r.todo[k + n]
           /\ \A k \in DOMAIN r2.todo : \A j \in 1..(k + n - 1) : j > n => j - n \in 1..(k - 1)
           /\ Rest(r.todo, r2.todo, n)
           /\ \/ n = 1 /\ (Passes(r, r2) \/ Sees(r, r2, facts) \/ Does(r, r2))
              \/ GivesUp(r, r2, n)
    BY <1>4, RestOf
  <2>2. ASSUME NEW k \in DOMAIN r2.todo, r2.todo[k].do \in Jobs \cup Files, r2.todo[k].on \notin Allow
        PROVE  \E j \in 1..(k - 1) : /\ r2.todo[j].do = "check" /\ r2.todo[j].on = r2.todo[k].on
                                     /\ r2.todo[j].err \in Statuses
    <3>1. PICK j \in 1..(k + n - 1) : /\ r.todo[j].do = "check" /\ r.todo[j].on = r2.todo[k].on
                                      /\ r.todo[j].err \in Statuses
      <4>1. k + n \in DOMAIN r.todo /\ r.todo[k + n] = r2.todo[k] /\ k \in Nat /\ n \in Nat
        BY <2>1 DEF Rest
      <4>2. r.todo[k + n].do \in Jobs \cup Files /\ r.todo[k + n].on \notin Allow
        BY <2>2, <4>1
      <4>3. PICK i \in Nat : i = k + n
        BY <4>1
      <4>4. i \in DOMAIN r.todo /\ r.todo[i].on = r2.todo[k].on /\ r.todo[i].do \in Jobs \cup Files
            /\ r.todo[i].on \notin Allow
        BY <4>1, <4>2, <4>3
      <4>5. \E j \in 1..(i - 1) : /\ r.todo[j].do = "check" /\ r.todo[j].on = r.todo[i].on
                                  /\ r.todo[j].err \in Statuses
        BY <1>1, <4>4 DEF Checked
      <4>6. i - 1 = k + n - 1
        BY <4>1, <4>3
      <4>7. \E j \in 1..(i - 1) : /\ r.todo[j].do = "check" /\ r.todo[j].on = r2.todo[k].on
                                  /\ r.todo[j].err \in Statuses
        BY <4>4, <4>5, Zenon
      <4> QED
        BY <4>6, <4>7, Zenon
    <3>2. CASE j > n
      <4>1. j - n \in 1..(k - 1) /\ j - n \in DOMAIN r2.todo /\ (j - n) + n = j
        BY <2>1, <3>2 DEF Rest
      <4> QED
        BY <2>1, <3>1, <4>1
    <3>3. CASE j <= n
      <4>1. j \in 1..n
        BY <3>3
      <4>2. ~GivesUp(r, r2, n)
        BY <3>1, <4>1 DEF GivesUp
      <4>3. j = 1 /\ ~Sees(r, r2, facts) /\ ~Does(r, r2)
        BY <2>1, <3>1, <4>1, <4>2, StepKinds DEF Sees, Does
      <4> QED
        BY <2>1, <2>2, <3>1, <4>2, <4>3 DEF Passes
    <3> QED
      BY <2>1, <3>1, <3>2, <3>3
  <2> QED
    BY <1>2, <2>2 DEF Checked
<1> QED
  BY <1>3, <1>4

\* A call that is refused has changed nothing.
LEMMA KeepsEarly ==
  ASSUME NEW r, NEW r2, NEW facts, CallTyped(r), Moves(r, r2, facts), Early(r)
  PROVE  Early(r2)
<1>1. /\ Len(r.todo) \in Nat /\ DOMAIN r.todo = 1..Len(r.todo) /\ 1 \in DOMAIN r.todo /\ r.reply = "none"
      /\ r.todo # <<>>
  BY Items DEF Moves
<1>2. CASE Refuses(r, r2)
  <2>1. r2.did = r.did /\ r2.reply = r.todo[1].err /\ r2.todo = <<>>
    BY <1>2 DEF Refuses
  <2>2. r.todo[1].err \in Refusals => r.did = {}
    BY <1>1, <1>2 DEF Early, Refuses
  <2> QED
    BY <2>1, <2>2 DEF Early
<1>3. CASE ~Refuses(r, r2)
  <2>1. PICK n \in 1..Len(r.todo) :
           /\ \A k \in DOMAIN r2.todo : k + n \in DOMAIN r.todo /\ r2.todo[k] = r.todo[k + n]
           /\ \A k \in DOMAIN r2.todo : \A j \in 1..(k + n - 1) : j > n => j - n \in 1..(k - 1)
           /\ Rest(r.todo, r2.todo, n)
           /\ \/ n = 1 /\ (Passes(r, r2) \/ Sees(r, r2, facts) \/ Does(r, r2))
              \/ GivesUp(r, r2, n)
    BY <1>3, RestOf
  <2>2. r2.reply \notin Refusals
    BY <1>1, <2>1 DEF Passes, Sees, Does, GivesUp, Goes, Refusals
  <2>3. ASSUME NEW k \in DOMAIN r2.todo, r2.todo[k].err \in Refusals,
               ~(r2.todo[k].do = "check" /\ r2.todo[k].on \in Allow)
        PROVE  \/ \E j \in 1..(k - 1) : r2.todo[j].do = "require" /\ r2.todo[j].err \in Statuses /\ ~A2dpEnabled
               \/ r2.did = {} /\ \A j \in 1..(k - 1) : r2.todo[j].do \notin ChangeKinds
    <3>0. k + n \in DOMAIN r.todo /\ r2.todo[k] = r.todo[k + n] /\ k \in Nat /\ n \in Nat
      BY SMTT(20), <2>1 DEF Rest
    <3>1. \/ \E j \in 1..(k + n - 1) : r.todo[j].do = "require" /\ r.todo[j].err \in Statuses /\ ~A2dpEnabled
          \/ r.did = {} /\ \A j \in 1..(k + n - 1) : r.todo[j].do \notin ChangeKinds
      BY SMTT(20), <2>3, <3>0 DEF Early
    <3>2. CASE \E j \in 1..(k + n - 1) : r.todo[j].do = "require" /\ r.todo[j].err \in Statuses /\ ~A2dpEnabled
      <4>1. PICK j \in 1..(k + n - 1) : r.todo[j].do = "require" /\ r.todo[j].err \in Statuses /\ ~A2dpEnabled
        BY <3>2
      <4>2. CASE j > n
        <5>1. j - n \in 1..(k - 1) /\ j - n \in DOMAIN r2.todo /\ (j - n) + n = j
          BY <2>1, <4>2 DEF Rest
        <5> QED
          BY <2>1, <4>1, <5>1
      <4>3. CASE j <= n
        <5>1. j \in 1..n
          BY <4>3
        <5>2. ~GivesUp(r, r2, n)
          BY <4>1, <5>1 DEF GivesUp
        <5>3. j = 1 /\ ~Sees(r, r2, facts) /\ ~Does(r, r2)
          BY <2>1, <4>1, <5>1, <5>2, StepKinds DEF Sees, Does
        <5> QED
          BY <2>1, <4>1, <5>2, <5>3 DEF Passes
      <4> QED
        BY <2>1, <4>1, <4>2, <4>3
    <3>3. CASE r.did = {} /\ \A j \in 1..(k + n - 1) : r.todo[j].do \notin ChangeKinds
      <4>1. 1 \in 1..(k + n - 1)
        BY <2>1, <3>0 DEF Rest
      <4>2. ~Does(r, r2)
        BY <3>3, <4>1 DEF Does
      <4>3. r2.did = {}
        BY <2>1, <3>3, <4>2 DEF Passes, Sees, GivesUp
      <4>4. ASSUME NEW j \in 1..(k - 1) PROVE r2.todo[j].do \notin ChangeKinds
        <5>1. j \in DOMAIN r2.todo /\ j + n \in 1..(k + n - 1)
          BY <2>1 DEF Rest
        <5> QED
          BY <2>1, <3>3, <5>1
      <4> QED
        BY <4>3, <4>4
    <3> QED
      BY <3>1, <3>2, <3>3
  <2> QED
    BY <2>2, <2>3 DEF Early
<1> QED
  BY <1>2, <1>3

\* What was asked for stays made or to be made.
LEMMA KeepsSettled ==
  ASSUME NEW r, NEW r2, NEW facts, CallTyped(r), Moves(r, r2, facts), Settled(r)
  PROVE  Settled(r2)
<1>1. /\ Len(r.todo) \in Nat /\ DOMAIN r.todo = 1..Len(r.todo) /\ 1 \in DOMAIN r.todo /\ r.reply = "none"
      /\ r.todo # <<>> /\ r.todo[1].err # "Ok" /\ r.op # "none"
  <2>1. "Ok" \notin Blocks
    BY StepKinds DEF Statuses
  <2> QED
    BY <2>1, Items DEF Moves
<1>2. Must(r2) = Must(r) /\ May(r2) = May(r) /\ r2.op = r.op
  BY Moved DEF Must, May
<1>3. CASE Refuses(r, r2)
  <2>1. r2.did = r.did /\ r2.reply = r.todo[1].err /\ r2.todo = <<>> /\ r.todo[1].err \in Statuses
    BY <1>3 DEF Refuses
  <2>2. r2.reply \notin {"none", "Ok"}
    BY <1>1, <2>1 DEF Statuses
  <2> QED
    BY <1>2, <2>1, <2>2 DEF Settled
<1>4. CASE ~Refuses(r, r2)
  <2>1. PICK n \in 1..Len(r.todo) :
           /\ \A k \in DOMAIN r2.todo : k + n \in DOMAIN r.todo /\ r2.todo[k] = r.todo[k + n]
           /\ \A k \in DOMAIN r2.todo : \A j \in 1..(k + n - 1) : j > n => j - n \in 1..(k - 1)
           /\ Rest(r.todo, r2.todo, n)
           /\ \/ n = 1 /\ (Passes(r, r2) \/ Sees(r, r2, facts) \/ Does(r, r2))
              \/ GivesUp(r, r2, n)
    BY <1>4, RestOf
  <2>2. /\ r.did \subseteq r2.did
        /\ \A x \in r2.did : x \in r.did \/ (r.todo[1].do \in ChangeKinds /\ x = <<r.todo[1].do, r.todo[1].on>>)
    BY <2>1 DEF Passes, Sees, Does, GivesUp
  <2>3. \A x \in r2.did : x \in May(r2)
    BY <1>1, <1>2, <2>2 DEF Settled
  <2>4. ASSUME NEW k \in DOMAIN r2.todo, r2.todo[k].do \in ChangeKinds
        PROVE  <<r2.todo[k].do, r2.todo[k].on>> \in May(r2)
    <3>1. k + n \in DOMAIN r.todo /\ r2.todo[k] = r.todo[k + n]
      BY <2>1
    <3> QED
      BY <1>2, <2>4, <3>1 DEF Settled
  <2>5. ASSUME NEW x \in Must(r2), x \notin r2.did
        PROVE  \E k \in DOMAIN r2.todo : /\ r2.todo[k].do \in ChangeKinds /\ r2.todo[k].err \in Statuses
                                         /\ x = <<r2.todo[k].do, r2.todo[k].on>>
    <3>1. PICK j \in DOMAIN r.todo : /\ r.todo[j].do \in ChangeKinds /\ r.todo[j].err \in Statuses
                                     /\ x = <<r.todo[j].do, r.todo[j].on>>
      BY <1>1, <1>2, <2>2, <2>5 DEF Settled
    <3>2. CASE j > n
      <4>1. j - n \in DOMAIN r2.todo /\ (j - n) + n = j
        BY <1>1, <2>1, <3>2 DEF Rest
      <4> QED
        BY <2>1, <3>1, <4>1
    <3>3. CASE j <= n
      <4>1. j \in 1..n
        BY <1>1, <3>3
      <4>2. ~GivesUp(r, r2, n)
        BY <3>1, <4>1 DEF GivesUp
      <4>3. j = 1 /\ ~Sees(r, r2, facts) /\ ~Passes(r, r2)
        BY <2>1, <3>1, <4>1, <4>2, StepKinds DEF Sees, Passes
      <4> QED
        BY <2>1, <2>5, <3>1, <4>2, <4>3 DEF Does
    <3> QED
      BY <1>1, <2>1, <3>2, <3>3
  <2> QED
    BY <2>3, <2>4, <2>5 DEF Settled
<1> QED
  BY <1>3, <1>4

\* Steps of one block, moved to the front.
LEMMA BlockMoves ==
  ASSUME NEW q, NEW p, NEW n, Rest(q, p, n), NEW k \in DOMAIN p, NEW j \in 1..(k + n - 1), j > n,
         SameBlock(q, j, k + n)
  PROVE  SameBlock(p, j - n, k)
<1>1. /\ Len(q) \in Nat /\ n \in 1..Len(q) /\ DOMAIN p = 1..(Len(q) - n)
      /\ \A i \in 1..(Len(q) - n) : p[i] = q[i + n]
  BY DEF Rest
<1>2. p[k] = q[k + n]
  BY <1>1
<1>3. ASSUME NEW i \in (j - n)..k PROVE p[i].err = p[k].err
  <2>1. i \in 1..(Len(q) - n) /\ i + n \in j..(k + n)
    BY <1>1
  <2> QED
    BY <1>1, <1>2, <2>1 DEF SameBlock
<1> QED
  BY <1>3 DEF SameBlock

\* A block that is given up is given up to its end.
LEMMA BlockGone ==
  ASSUME NEW r, NEW r2, NEW n, GivesUp(r, r2, n), NEW k \in DOMAIN r2.todo, NEW j \in 1..n,
         SameBlock(r.todo, j, k + n)
  PROVE  FALSE
<1>1. /\ Len(r.todo) \in Nat /\ n \in 1..Len(r.todo) /\ k \in 1..(Len(r.todo) - n)
  BY DEF GivesUp, Goes, Rest
<1>2. n + 1 \in j..(k + n) /\ j \in j..(k + n) /\ n < Len(r.todo)
  BY <1>1
<1>3. r.todo[n + 1].err # r.todo[1].err /\ r.todo[j].err = r.todo[1].err
  BY <1>2 DEF GivesUp
<1> QED
  BY <1>2, <1>3 DEF SameBlock

\* An element stays found.
LEMMA KeepsOpened ==
  ASSUME NEW r, NEW r2, NEW facts, CallTyped(r), Moves(r, r2, facts), Opened(r)
  PROVE  Opened(r2)
<1>1. Len(r.todo) \in Nat /\ DOMAIN r.todo = 1..Len(r.todo) /\ 1 \in DOMAIN r.todo
  BY Items DEF Moves
<1>2. CASE r2.todo = <<>>
  BY <1>2 DEF Opened
<1>3. CASE r2.todo # <<>>
  <2>1. PICK n \in 1..Len(r.todo) :
           /\ \A k \in DOMAIN r2.todo : k + n \in DOMAIN r.todo /\ r2.todo[k] = r.todo[k + n]
           /\ \A k \in DOMAIN r2.todo : \A j \in 1..(k + n - 1) : j > n => j - n \in 1..(k - 1)
           /\ Rest(r.todo, r2.todo, n)
           /\ \/ n = 1 /\ (Passes(r, r2) \/ Sees(r, r2, facts) \/ Does(r, r2))
              \/ GivesUp(r, r2, n)
    BY <1>3, RestOf
  <2>2. ASSUME NEW k \in DOMAIN r2.todo, r2.todo[k].do \in {"percent", "muted"}, Find(r2.todo[k].on) = "none"
        PROVE  \E j \in 1..(k - 1) : /\ r2.todo[j].do = "open" /\ r2.todo[j].on = r2.todo[k].on
                                     /\ SameBlock(r2.todo, j, k)
    <3>0. k + n \in DOMAIN r.todo /\ r.todo[k + n] = r2.todo[k] /\ k \in Nat /\ n \in Nat
      BY <2>1 DEF Rest
    <3>1. PICK j \in 1..(k + n - 1) : /\ r.todo[j].do = "open" /\ r.todo[j].on = r2.todo[k].on
                                      /\ SameBlock(r.todo, j, k + n)
      <4>1. r.todo[k + n].do \in {"percent", "muted"} /\ Find(r.todo[k + n].on) = "none"
        BY <2>2, <3>0
      <4> QED
        BY <3>0, <4>1 DEF Opened
    <3>2. CASE j > n
      <4>1. j - n \in 1..(k - 1) /\ j - n \in DOMAIN r2.todo /\ (j - n) + n = j
        BY <2>1, <3>2 DEF Rest
      <4>2. SameBlock(r2.todo, j - n, k)
        BY <2>1, <3>1, <3>2, BlockMoves
      <4> QED
        BY <2>1, <3>1, <4>1, <4>2
    <3>3. CASE j <= n
      <4>1. j \in 1..n
        BY <3>3
      <4>2. ~GivesUp(r, r2, n)
        BY <3>1, <4>1, BlockGone
      <4>3. j = 1 /\ ~Sees(r, r2, facts) /\ ~Does(r, r2)
        BY <2>1, <3>1, <4>1, <4>2, StepKinds DEF Sees, Does
      <4> QED
        BY <2>1, <2>2, <3>1, <4>2, <4>3 DEF Passes
    <3> QED
      BY <2>1, <3>1, <3>2, <3>3
  <2> QED
    BY <2>2 DEF Opened
<1> QED
  BY <1>2, <1>3

\* The steps left read of the subject.
LEMMA KeepsOnSubject ==
  ASSUME NEW r, NEW r2, NEW facts, CallTyped(r), Moves(r, r2, facts), OnSubject(r)
  PROVE  OnSubject(r2)
<1>1. r2.on = r.on
  BY Moved
<1>2. CASE r2.todo = <<>>
  BY <1>2 DEF OnSubject
<1>3. CASE r2.todo # <<>>
  <2>1. PICK n \in 1..Len(r.todo) :
           /\ \A k \in DOMAIN r2.todo : k + n \in DOMAIN r.todo /\ r2.todo[k] = r.todo[k + n]
           /\ Rest(r.todo, r2.todo, n)
    BY <1>3, RestOf
  <2>2. ASSUME NEW j \in DOMAIN r2.todo, NEW k \in DOMAIN r2.todo, j < k PROVE j + n < k + n
    BY <2>1, <2>2 DEF Rest
  <2>3. ASSUME NEW j \in DOMAIN r2.todo, NEW k \in DOMAIN r2.todo, j < k, r2.todo[j].do \in Reads,
               r2.todo[k].do = "publish"
        PROVE  /\ r2.todo[j].on = r.on
               /\ IF r2.todo[j].do \in {"active", "enabled"} THEN r.on \in Units ELSE r.on \in {"Master", "PCM"}
    <3>1. /\ j + n \in DOMAIN r.todo /\ r2.todo[j] = r.todo[j + n]
          /\ k + n \in DOMAIN r.todo /\ r2.todo[k] = r.todo[k + n]
      BY <2>1
    <3>2. j + n < k + n
      BY <2>2, <2>3
    <3> QED
      BY <2>3, <3>1, <3>2 DEF OnSubject
  <2> QED
    BY <1>1, <2>3 DEF OnSubject
<1> QED
  BY <1>2, <1>3

\* What is to be read again behind a step is not given up without the event.
LEMMA KeepsReadAgain ==
  ASSUME NEW r, NEW r2, NEW n, NEW k \in DOMAIN r2.todo, NEW field, NEW i \in Nat, Rest(r.todo, r2.todo, n),
         NEW a, NEW b, a = i + n, b = k + n, ReadAgain(r.todo, field, a, b)
  PROVE  ReadAgain(r2.todo, field, i, k)
<1>1. /\ Len(r.todo) \in Nat /\ n \in 1..Len(r.todo) /\ DOMAIN r2.todo = 1..(Len(r.todo) - n)
      /\ \A l \in 1..(Len(r.todo) - n) : r2.todo[l] = r.todo[l + n]
  BY DEF Rest
<1>2. PICK j \in (a + 1)..(b - 1) : r.todo[j].do = field /\ SameBlock(r.todo, j, b)
  BY DEF ReadAgain
<1>3. /\ j > n /\ j \in 1..(k + n - 1) /\ j - n \in (i + 1)..(k - 1)
      /\ j - n \in 1..(Len(r.todo) - n) /\ (j - n) + n = j
  BY <1>1
<1>4. SameBlock(r2.todo, j - n, k)
  BY <1>2, <1>3, BlockMoves
<1>5. r2.todo[j - n].do = field
  BY <1>1, <1>2, <1>3
<1> QED
  BY <1>3, <1>4, <1>5 DEF ReadAgain

\* What is read before a change stays to be read again behind it.
LEMMA KeepsReread ==
  ASSUME NEW r, NEW r2, NEW facts, CallTyped(r), Moves(r, r2, facts), Reread(r)
  PROVE  Reread(r2)
<1>1. CASE r2.todo = <<>>
  BY <1>1 DEF Reread
<1>2. CASE r2.todo # <<>>
  <2>1. PICK n \in 1..Len(r.todo) :
           /\ \A k \in DOMAIN r2.todo : k + n \in DOMAIN r.todo /\ r2.todo[k] = r.todo[k + n]
           /\ Rest(r.todo, r2.todo, n)
           /\ \/ n = 1 /\ (Passes(r, r2) \/ Sees(r, r2, facts) \/ Does(r, r2))
              \/ GivesUp(r, r2, n)
    BY <1>2, RestOf
  <2>2. ASSUME NEW i \in DOMAIN r2.todo, NEW k \in DOMAIN r2.todo, NEW field \in Reads,
               i < k, r2.todo[i].do \in ChangeKinds, r2.todo[k].do = "publish",
               (\E f \in r2.saw : f[1] = field) \/ (\E j \in 1..(i - 1) : r2.todo[j].do = field)
        PROVE  ReadAgain(r2.todo, field, i, k)
    <3> DEFINE a == i + n
               b == k + n
    <3>1. /\ a \in DOMAIN r.todo /\ r.todo[a] = r2.todo[i] /\ b \in DOMAIN r.todo /\ r.todo[b] = r2.todo[k]
      BY <2>1
    <3>2. /\ a < b /\ i \in Nat /\ k \in Nat /\ n \in Nat \ {0} /\ DOMAIN r2.todo = 1..(Len(r.todo) - n)
          /\ Len(r.todo) \in Nat
      BY SMTT(20), <2>1, <2>2 DEF Rest
    <3>3. (\E f \in r.saw : f[1] = field) \/ (\E j \in 1..(a - 1) : r.todo[j].do = field)
      <4>1. ASSUME NEW j \in 1..(i - 1), r2.todo[j].do = field
            PROVE  \E l \in 1..(a - 1) : r.todo[l].do = field
        <5>1. j + n \in 1..(a - 1) /\ j \in DOMAIN r2.todo
          BY SMTT(20), <2>2, <3>2
        <5> QED
          BY <2>1, <4>1, <5>1
      <4>2. ASSUME NEW f \in r2.saw, f[1] = field, f \notin r.saw
            PROVE  \E l \in 1..(a - 1) : r.todo[l].do = field
        <5>1. n = 1 /\ r.todo[1].do = field
          BY <2>1, <4>2 DEF Passes, Sees, Does, GivesUp
        <5>2. 1 \in 1..(a - 1)
          BY <3>2, <2>2
        <5> QED
          BY <5>1, <5>2
      <4> QED
        BY <2>2, <4>1, <4>2
    <3> HIDE DEF a, b
    <3>4. ReadAgain(r.todo, field, a, b)
      BY <2>2, <3>1, <3>2, <3>3 DEF Reread
    <3> QED
      BY <2>1, <3>2, <3>4, KeepsReadAgain DEF a, b
  <2> QED
    BY <2>2 DEF Reread
<1> QED
  BY <1>1, <1>2

\* A step of a call keeps all that.
LEMMA MovesKeep ==
  ASSUME NEW r, NEW r2, NEW facts, CallInv(r), Moves(r, r2, facts)
  PROVE  CallInv(r2)
BY Moved, KeepsChecked, KeepsEarly, KeepsSettled, KeepsOpened, KeepsOnSubject, KeepsReread DEF CallInv

\* ... and what it has read was so since its last change.
LEMMA MovesFresh ==
  ASSUME NEW r, NEW r2, NEW facts, NEW s, NEW s2, CallInv(r), Moves(r, r2, facts), Fresh(r, s),
         \A k \in DOMAIN r2.todo : r2.todo[k].do = "publish" =>
           /\ r2.did = r.did => s \subseteq s2
           /\ r.todo[1].do \in Reads => facts \subseteq s2
  PROVE  Fresh(r2, s2)
<1>1. CallTyped(r) /\ Reread(r)
  BY DEF CallInv
<1>2. CASE r2.todo = <<>>
  BY <1>2 DEF Fresh
<1>3. CASE r2.todo # <<>>
  <2>1. PICK n \in 1..Len(r.todo) :
           /\ \A k \in DOMAIN r2.todo : k + n \in DOMAIN r.todo /\ r2.todo[k] = r.todo[k + n]
           /\ Rest(r.todo, r2.todo, n)
           /\ \/ n = 1 /\ (Passes(r, r2) \/ Sees(r, r2, facts) \/ Does(r, r2))
              \/ GivesUp(r, r2, n)
    BY <1>1, <1>3, RestOf
  <2>2. ASSUME NEW k \in DOMAIN r2.todo, NEW f \in r2.saw, r2.todo[k].do = "publish", f \notin s2
        PROVE  ReadAgain(r2.todo, f[1], 0, k)
    <3> DEFINE b == k + n
    <3>1. /\ b \in DOMAIN r.todo /\ r.todo[b] = r2.todo[k] /\ n \in Nat \ {0} /\ k \in 1..(Len(r.todo) - n)
          /\ Len(r.todo) \in Nat /\ DOMAIN r.todo = 1..Len(r.todo) /\ r.todo[b].do = "publish"
      BY SMTT(20), <2>1, <2>2 DEF Rest
    <3>2. f \in r.saw /\ (Sees(r, r2, facts) => f[1] # r.todo[1].do) /\ f[1] \in Reads
      <4>1. f \in r.saw /\ (Sees(r, r2, facts) => f[1] # r.todo[1].do)
        BY <2>1, <2>2 DEF Passes, Sees, Does, GivesUp
      <4> QED
        BY <1>1, <4>1 DEF CallTyped
    <3>3. CASE r2.did = r.did
      <4>1. f \notin s
        BY <2>2, <3>3
      <4>2. ReadAgain(r.todo, f[1], 0, b)
        BY <2>2, <3>1, <3>2, <4>1 DEF Fresh
      <4>3. PICK j \in 1..(b - 1) : r.todo[j].do = f[1] /\ SameBlock(r.todo, j, b)
        <5>1. PICK j \in (0 + 1)..(b - 1) : r.todo[j].do = f[1] /\ SameBlock(r.todo, j, b)
          BY <4>2 DEF ReadAgain
        <5> QED
          BY <5>1
      <4>4. j > n
        <5>1. CASE j = 1
          <6>1. ~Passes(r, r2) /\ ~Does(r, r2) /\ ~Sees(r, r2, facts)
            BY <3>2, <4>3, <5>1, StepKinds DEF Passes, Does
          <6>2. GivesUp(r, r2, n) /\ j \in 1..n
            BY <2>1, <5>1, <6>1
          <6> QED
            BY <4>3, <6>2, BlockGone
        <5>2. CASE j # 1 /\ j <= n
          <6>1. GivesUp(r, r2, n) /\ j \in 1..n
            BY <2>1, <5>2
          <6> QED
            BY <4>3, <6>1, BlockGone
        <5> QED
          BY <3>1, <5>1, <5>2
      <4>5. j \in (n + 1)..(b - 1)
        BY <3>1, <4>4
      <4>6. ReadAgain(r.todo, f[1], n, b)
        BY <4>3, <4>5 DEF ReadAgain
      <4>7. n = 0 + n
        BY <3>1
      <4> HIDE DEF b
      <4> QED
        BY <2>1, <4>6, <4>7, KeepsReadAgain DEF b
    <3>4. CASE r2.did # r.did
      <4>1. n = 1 /\ Does(r, r2)
        BY <2>1, <3>4 DEF Passes, Sees, GivesUp
      <4>2. r.todo[1].do \in ChangeKinds /\ 1 \in DOMAIN r.todo /\ 1 < b
        BY <3>1, <4>1 DEF Does
      <4>3. ReadAgain(r.todo, f[1], 1, b)
        BY <1>1, <3>1, <3>2, <4>2 DEF Reread
      <4>4. 1 = 0 + n
        BY <4>1
      <4> HIDE DEF b
      <4> QED
        BY <2>1, <4>3, <4>4, KeepsReadAgain DEF b
    <3> QED
      BY <3>3, <3>4
  <2> QED
    BY <2>2 DEF Fresh
<1> QED
  BY <1>2, <1>3

-----------------------------------------------------------------------------
(* The scripts, step by step. *)

St(do, on, err) == [do |-> do, on |-> on, err |-> err]

\* Script q has the n steps all, which items of St are.
Steps(q, n) == q \in Seq(Item) /\ Len(q) = n /\ DOMAIN q = 1..n /\ q # <<>>

\* The steps of Try.
LEMMA TryItems ==
  ASSUME NEW steps \in Seq(Kinds), NEW on \in Names, NEW err \in (Statuses \ {"Ok"}) \cup Blocks,
         Len(steps) > 0
  PROVE  /\ Steps(Try(steps, on, err), Len(steps))
         /\ \A k \in 1..Len(steps) : Try(steps, on, err)[k] = St(steps[k], on, err)
<1>1. Len(steps) \in Nat /\ DOMAIN steps = 1..Len(steps) /\ \A k \in 1..Len(steps) : steps[k] \in Kinds
  OBVIOUS
<1>2. Try(steps, on, err) = [k \in 1..Len(steps) |-> St(steps[k], on, err)]
  BY <1>1 DEF Try, St
<1>3. \A k \in 1..Len(steps) : St(steps[k], on, err) \in Item
  BY <1>1 DEF St, Item
<1>4. Try(steps, on, err) \in [1..Len(steps) -> Item]
  BY <1>2, <1>3
<1>5. Try(steps, on, err) \in Seq(Item) /\ Len(Try(steps, on, err)) = Len(steps)
  BY <1>1, <1>4
<1>6. Try(steps, on, err) # <<>>
  BY <1>1, <1>5, Empty
<1> QED
  BY <1>2, <1>4, <1>5, <1>6 DEF Steps

\* The names and errors of the scripts.
LEMMA Words ==
  /\ \A u \in Units : u \in Names /\ u \in (Statuses \ {"Ok"}) \cup Blocks
  /\ {"adapter", "none", "stream", "Master", "PCM", "a2dp"} \subseteq Names
  /\ {"PermissionDenied", "Internal", "FailedPrecondition", "event", "ignored", "logged"}
       \subseteq (Statuses \ {"Ok"}) \cup Blocks
<1>1. \A u \in Units : u \in Names /\ u \in (Statuses \ {"Ok"}) \cup Blocks
  BY DEF Names, Blocks
<1>2. {"adapter", "none", "stream", "Master", "PCM", "a2dp"} \subseteq Names
  BY DEF Names
<1>3. {"PermissionDenied", "Internal", "FailedPrecondition", "event", "ignored", "logged"}
       \subseteq (Statuses \ {"Ok"}) \cup Blocks
  BY DEF Statuses, Blocks
<1> QED
  BY <1>1, <1>2, <1>3

\* A script of one step, of two, and those of the status and of the volume event.
LEMMA OneStep ==
  ASSUME NEW a \in Kinds, NEW on \in Names, NEW err \in (Statuses \ {"Ok"}) \cup Blocks
  PROVE  Steps(Try(<<a>>, on, err), 1) /\ Try(<<a>>, on, err)[1] = St(a, on, err)
<1> DEFINE steps == <<a>>
<1>1. steps \in Seq(Kinds) /\ Len(steps) = 1 /\ steps[1] = a
  BY OneItem
<1> HIDE DEF steps
<1>2. Steps(Try(steps, on, err), Len(steps)) /\ Try(steps, on, err)[1] = St(steps[1], on, err)
  BY <1>1, TryItems
<1> QED
  BY <1>1, <1>2 DEF steps

\* Two steps on one subject.
LEMMA TwoSteps ==
  ASSUME NEW a \in Kinds, NEW b \in Kinds, NEW on \in Names, NEW err \in (Statuses \ {"Ok"}) \cup Blocks
  PROVE  LET q == Try(<<a, b>>, on, err) IN
         Steps(q, 2) /\ q[1] = St(a, on, err) /\ q[2] = St(b, on, err)
<1> DEFINE steps == <<a, b>>
<1>1. steps \in Seq(Kinds) /\ Len(steps) = 2 /\ steps[1] = a /\ steps[2] = b
  BY TwoItems
<1> HIDE DEF steps
<1>2. Len(steps) > 0
  BY <1>1
<1>3. Steps(Try(steps, on, err), Len(steps))
  BY <1>1, <1>2, TryItems
<1>4. \A k \in 1..Len(steps) : Try(steps, on, err)[k] = St(steps[k], on, err)
  BY <1>1, <1>2, TryItems
<1> DEFINE q == Try(steps, on, err)
<1> HIDE DEF q
<1>5. Steps(q, 2) /\ q[1] = St(a, on, err) /\ q[2] = St(b, on, err)
  BY <1>1, <1>3, <1>4 DEF q
<1> QED
  BY <1>5 DEF q, steps

\* Four steps on one subject.
LEMMA FourSteps ==
  ASSUME NEW a \in Kinds, NEW b \in Kinds, NEW c \in Kinds, NEW d \in Kinds,
         NEW on \in Names, NEW err \in (Statuses \ {"Ok"}) \cup Blocks
  PROVE  LET q == Try(<<a, b, c, d>>, on, err) IN
         /\ Steps(q, 4) /\ q[1] = St(a, on, err) /\ q[2] = St(b, on, err)
         /\ q[3] = St(c, on, err) /\ q[4] = St(d, on, err)
<1> DEFINE steps == <<a, b, c, d>>
<1>1. steps \in Seq(Kinds) /\ Len(steps) = 4 /\ steps[1] = a /\ steps[2] = b /\ steps[3] = c /\ steps[4] = d
  BY FourItems
<1> HIDE DEF steps
<1>2. Len(steps) > 0
  BY <1>1
<1>3. Steps(Try(steps, on, err), Len(steps))
  BY <1>1, <1>2, TryItems
<1>4. \A k \in 1..Len(steps) : Try(steps, on, err)[k] = St(steps[k], on, err)
  BY <1>1, <1>2, TryItems
<1> DEFINE q == Try(steps, on, err)
<1> HIDE DEF q
<1>5. /\ Steps(q, 4) /\ q[1] = St(a, on, err) /\ q[2] = St(b, on, err)
      /\ q[3] = St(c, on, err) /\ q[4] = St(d, on, err)
  BY <1>1, <1>3, <1>4 DEF q
<1> QED
  BY <1>5 DEF q, steps

\* status: the check, then the status steps.
LEMMA CheckedStatus ==
  ASSUME NEW on \in Names, NEW err \in (Statuses \ {"Ok"}) \cup Blocks
  PROVE  LET q == Try(<<"check">> \o StatusSteps, on, err) IN
         /\ Steps(q, 5) /\ q[1] = St("check", on, err) /\ q[2] = St("connect", on, err)
         /\ q[3] = St("load", on, err) /\ q[4] = St("enabled", on, err) /\ q[5] = St("active", on, err)
<1> DEFINE steps == <<"check">> \o <<"connect", "load", "enabled", "active">>
<1>1. {"check", "connect", "load", "enabled", "active"} \subseteq Kinds
  BY DEF Kinds, Reads
<1>2. /\ steps \in Seq(Kinds) /\ Len(steps) = 5 /\ steps[1] = "check" /\ steps[2] = "connect"
      /\ steps[3] = "load" /\ steps[4] = "enabled" /\ steps[5] = "active"
  BY <1>1, FiveItems
<1>3. <<"check">> \o StatusSteps = steps
  BY DEF StatusSteps
<1> HIDE DEF steps
<1>4. Len(steps) > 0
  BY <1>2
<1>5. /\ Steps(Try(steps, on, err), Len(steps))
      /\ \A k \in 1..Len(steps) : Try(steps, on, err)[k] = St(steps[k], on, err)
  BY <1>2, <1>4, TryItems
<1> DEFINE q == Try(steps, on, err)
<1> HIDE DEF q
<1>6. /\ Steps(q, 5) /\ q[1] = St("check", on, err) /\ q[2] = St("connect", on, err)
      /\ q[3] = St("load", on, err) /\ q[4] = St("enabled", on, err) /\ q[5] = St("active", on, err)
  BY <1>2, <1>5 DEF q
<1> QED
  BY <1>3, <1>6 DEF q

\* publish_after.
EventSteps(q, i, u) ==
  /\ q[i + 1] = St("check", u, "event") /\ q[i + 2] = St("connect", u, "event")
  /\ q[i + 3] = St("load", u, "event") /\ q[i + 4] = St("enabled", u, "event")
  /\ q[i + 5] = St("active", u, "event") /\ q[i + 6] = St("publish", u, "event")

\* publish_after: a status, then the event.
LEMMA PublishAfterSteps ==
  ASSUME NEW u \in Units
  PROVE  Steps(PublishAfter(u), 6) /\ EventSteps(PublishAfter(u), 0, u)
<1> DEFINE steps == <<"check">> \o <<"connect", "load", "enabled", "active">> \o <<"publish">>
<1>1. {"check", "connect", "load", "enabled", "active", "publish"} \subseteq Kinds
  BY DEF Kinds, Reads
<1>2. /\ steps \in Seq(Kinds) /\ Len(steps) = 6 /\ steps[1] = "check" /\ steps[2] = "connect"
      /\ steps[3] = "load" /\ steps[4] = "enabled" /\ steps[5] = "active" /\ steps[6] = "publish"
  BY <1>1, SixItems
<1>3. PublishAfter(u) = Try(steps, u, "event")
  BY DEF PublishAfter, StatusSteps
<1>4. u \in Names /\ "event" \in (Statuses \ {"Ok"}) \cup Blocks
  BY Words
<1>5. Len(steps) > 0
  BY <1>2
<1> HIDE DEF steps
<1>6. /\ Steps(Try(steps, u, "event"), Len(steps))
      /\ \A k \in 1..Len(steps) : Try(steps, u, "event")[k] = St(steps[k], u, "event")
  BY <1>2, <1>4, <1>5, TryItems
<1> DEFINE q == Try(steps, u, "event")
<1> HIDE DEF q
<1>7. Steps(q, 6) /\ EventSteps(q, 0, u)
  BY <1>2, <1>6 DEF EventSteps, q
<1> QED
  BY <1>3, <1>7 DEF q

\* Script q with script p behind it is t, by the step.
Joined(t, p, m, q, n) == /\ Steps(t, m + n)
                         /\ \A k \in 1..m : t[k] = p[k]
                         /\ \A k \in 1..n : t[m + k] = q[k]

\* One script after another, item by item.
LEMMA ThenAt ==
  ASSUME NEW m \in Nat, NEW n \in Nat, NEW p, Steps(p, m), NEW q, Steps(q, n)
  PROVE  Joined(p \o q, p, m, q, n)
<1>1. p \in Seq(Item) /\ Len(p) = m /\ p # <<>> /\ q \in Seq(Item) /\ Len(q) = n
  BY DEF Steps
<1> DEFINE t == p \o q
<1>2. t \in Seq(Item) /\ Len(t) = m + n /\ \A k \in 1..(m + n) : t[k] = IF k <= m THEN p[k] ELSE q[k - m]
  BY <1>1
<1> HIDE DEF t
<1>3. \A k \in 1..m : t[k] = p[k]
  BY <1>2
<1>4. \A k \in 1..n : m + k \in 1..(m + n) /\ ~(m + k <= m) /\ (m + k) - m = k
  OBVIOUS
<1>5. \A k \in 1..n : t[m + k] = q[k]
  BY <1>2, <1>4
<1>6. m # 0
  BY <1>1, Empty
<1>7. m + n # 0
  BY <1>6
<1>8. t # <<>>
  BY <1>2, <1>7, Empty
<1>9. DOMAIN t = 1..(m + n)
  BY <1>2
<1> QED
  BY <1>2, <1>3, <1>5, <1>8, <1>9 DEF Joined, Steps, t

\* An event behind three or four steps, or more.
LEMMA ThenEvent ==
  ASSUME NEW m \in Nat, NEW p, Steps(p, m), NEW u \in Units
  PROVE  LET q == p \o PublishAfter(u) IN
         Steps(q, m + 6) /\ EventSteps(q, m, u) /\ \A k \in 1..m : q[k] = p[k]
<1>1. Steps(PublishAfter(u), 6) /\ EventSteps(PublishAfter(u), 0, u) /\ 6 \in Nat
  BY PublishAfterSteps
<1> DEFINE e == PublishAfter(u)
<1> HIDE DEF e
<1>2. Steps(e, 6) /\ EventSteps(e, 0, u) /\ 6 \in Nat
  BY <1>1 DEF e
<1> DEFINE q == p \o e
<1>j. Joined(q, p, m, e, 6)
  BY <1>2, ThenAt DEF q
<1> HIDE DEF q
<1>3. Steps(q, m + 6) /\ (\A k \in 1..m : q[k] = p[k]) /\ \A k \in 1..6 : q[m + k] = e[k]
  BY <1>j DEF Joined
<1>4. /\ q[m + 1] = e[1] /\ q[m + 2] = e[2] /\ q[m + 3] = e[3]
      /\ q[m + 4] = e[4] /\ q[m + 5] = e[5] /\ q[m + 6] = e[6]
  BY <1>3
<1>5. 0 + 1 = 1 /\ 0 + 2 = 2 /\ 0 + 3 = 3 /\ 0 + 4 = 4 /\ 0 + 5 = 5 /\ 0 + 6 = 6
  BY SMT
<1>6. EventSteps(q, m, u)
  BY <1>2, <1>4, <1>5, Zenon DEF EventSteps
<1> QED
  BY <1>3, <1>6 DEF q, e

\* A job or a change of the unit file, and its event.
ChangeSteps(q, i, kind, u) ==
  /\ q[i + 1] = St("check", u, "PermissionDenied") /\ q[i + 2] = St("connect", u, "Internal")
  /\ q[i + 3] = St(kind, u, "Internal")

\* The check, the connection and the change with which a unit call begins.
LEMMA ThreeSteps ==
  ASSUME NEW u \in Units, NEW kind \in Jobs \cup Files
  PROVE  LET q == Check(u) \o Try(<<"connect", kind>>, u, "Internal") IN
         Steps(q, 3) /\ ChangeSteps(q, 0, kind, u)
<1>1. /\ "check" \in Kinds /\ "connect" \in Kinds /\ kind \in Kinds /\ u \in Names
      /\ "PermissionDenied" \in (Statuses \ {"Ok"}) \cup Blocks /\ "Internal" \in (Statuses \ {"Ok"}) \cup Blocks
  BY Words DEF Kinds, ChangeKinds
<1> DEFINE p == Check(u)
           r == Try(<<"connect", kind>>, u, "Internal")
<1>2. Steps(p, 1) /\ p[1] = St("check", u, "PermissionDenied")
  BY <1>1, OneStep DEF Check
<1>3. Steps(r, 2) /\ r[1] = St("connect", u, "Internal") /\ r[2] = St(kind, u, "Internal")
  BY <1>1, TwoSteps
<1> HIDE DEF p, r
<1>4. 1 \in Nat /\ 2 \in Nat
  BY SMT
<1> DEFINE q == p \o r
<1>j. Joined(q, p, 1, r, 2)
  BY <1>2, <1>3, <1>4, ThenAt DEF q
<1> HIDE DEF q
<1>5. Steps(q, 1 + 2) /\ (\A k \in 1..1 : q[k] = p[k]) /\ \A k \in 1..2 : q[1 + k] = r[k]
  BY <1>j DEF Joined
<1>6. 1 + 2 = 3 /\ q[1] = p[1] /\ q[2] = r[1] /\ q[3] = r[2]
  BY <1>5
<1>7. 0 + 1 = 1 /\ 0 + 2 = 2 /\ 0 + 3 = 3
  BY SMT
<1> QED
  BY <1>2, <1>3, <1>5, <1>6, <1>7, Zenon DEF ChangeSteps, p, q, r

\* start, stop, restart, reload.
LEMMA JobScript ==
  ASSUME NEW u \in Units, NEW kind \in Jobs
  PROVE  LET q == Job(kind, u) IN Steps(q, 9) /\ ChangeSteps(q, 0, kind, u) /\ EventSteps(q, 3, u)
<1> DEFINE p == Check(u) \o Try(<<"connect", kind>>, u, "Internal")
           q == p \o PublishAfter(u)
<1>1. Steps(p, 3) /\ ChangeSteps(p, 0, kind, u) /\ 3 \in Nat
  BY ThreeSteps
<1> HIDE DEF p
<1>2. Steps(q, 3 + 6) /\ EventSteps(q, 3, u) /\ \A k \in 1..3 : q[k] = p[k]
  BY <1>1, ThenEvent
<1>3. Job(kind, u) = q
  BY DEF Job, p
<1> HIDE DEF q
<1>4. q[0 + 1] = p[0 + 1] /\ q[0 + 2] = p[0 + 2] /\ q[0 + 3] = p[0 + 3] /\ 3 + 6 = 9
  BY <1>2
<1> QED
  BY <1>1, <1>2, <1>3, <1>4, Zenon DEF ChangeSteps

\* enable, disable: as a job, with the daemon-reload between.
LEMMA FileScript ==
  ASSUME NEW u \in Units, NEW kind \in Files
  PROVE  LET q == File(kind, u) IN
         /\ Steps(q, 10) /\ ChangeSteps(q, 0, kind, u) /\ q[4] = St("daemon_reload", u, "ignored")
         /\ EventSteps(q, 4, u)
<1> DEFINE t == Check(u) \o Try(<<"connect", kind>>, u, "Internal")
           d == Try(<<"daemon_reload">>, u, "ignored")
           p == t \o d
           q == p \o PublishAfter(u)
<1>1. Steps(t, 3) /\ ChangeSteps(t, 0, kind, u) /\ 3 \in Nat /\ 1 \in Nat
  BY ThreeSteps
<1>2. Steps(d, 1) /\ d[1] = St("daemon_reload", u, "ignored")
  <2>1. "daemon_reload" \in Kinds /\ u \in Names /\ "ignored" \in (Statuses \ {"Ok"}) \cup Blocks
    BY Words DEF Kinds
  <2> QED
    BY <2>1, OneStep
<1>3. q = File(kind, u)
  BY DEF File
<1> HIDE DEF t, d
<1>j. Joined(p, t, 3, d, 1)
  BY <1>1, <1>2, ThenAt DEF p
<1> HIDE DEF p
<1>4. Steps(p, 3 + 1) /\ (\A k \in 1..3 : p[k] = t[k]) /\ \A k \in 1..1 : p[3 + k] = d[k]
  BY <1>j DEF Joined
<1>5. Steps(p, 4) /\ p[1] = t[1] /\ p[2] = t[2] /\ p[3] = t[3] /\ p[4] = d[1] /\ 4 \in Nat
  BY <1>4
<1>6. Steps(q, 4 + 6) /\ EventSteps(q, 4, u) /\ \A k \in 1..4 : q[k] = p[k]
  BY <1>5, ThenEvent DEF q
<1> HIDE DEF q
<1>7. q[1] = p[1] /\ q[2] = p[2] /\ q[3] = p[3] /\ q[4] = p[4] /\ 4 + 6 = 10
  BY <1>6
<1>8. 0 + 1 = 1 /\ 0 + 2 = 2 /\ 0 + 3 = 3
  BY SMT
<1> QED
  BY <1>1, <1>2, <1>3, <1>5, <1>6, <1>7, <1>8, Zenon DEF ChangeSteps

\* status alone.
LEMMA StatusScript ==
  ASSUME NEW u \in Units
  PROVE  LET q == Status(u) IN
         /\ Steps(q, 5) /\ q[1] = St("check", u, "PermissionDenied") /\ q[2] = St("connect", u, "Internal")
         /\ q[3] = St("load", u, "Internal") /\ q[4] = St("enabled", u, "Internal")
         /\ q[5] = St("active", u, "Internal")
<1>1. /\ {"check", "connect", "load", "enabled", "active"} \subseteq Kinds /\ u \in Names
      /\ "PermissionDenied" \in (Statuses \ {"Ok"}) \cup Blocks /\ "Internal" \in (Statuses \ {"Ok"}) \cup Blocks
  BY Words DEF Kinds, Reads
<1> DEFINE p == Check(u)
           r == Try(<<"connect", "load", "enabled", "active">>, u, "Internal")
           q == p \o r
<1>2. Steps(p, 1) /\ p[1] = St("check", u, "PermissionDenied")
  BY <1>1, OneStep DEF Check
<1>3. /\ Steps(r, 4) /\ r[1] = St("connect", u, "Internal") /\ r[2] = St("load", u, "Internal")
      /\ r[3] = St("enabled", u, "Internal") /\ r[4] = St("active", u, "Internal")
  BY <1>1, FourSteps
<1>4. q = Status(u)
  BY DEF Status, StatusSteps
<1> HIDE DEF p, r
<1>5. 1 \in Nat /\ 4 \in Nat
  BY SMT
<1>j. Joined(q, p, 1, r, 4)
  BY <1>2, <1>3, <1>5, ThenAt DEF q
<1> HIDE DEF q
<1>6. Steps(q, 1 + 4) /\ (\A k \in 1..1 : q[k] = p[k]) /\ \A k \in 1..4 : q[1 + k] = r[k]
  BY <1>j DEF Joined
<1>7. 1 + 4 = 5 /\ q[1] = p[1] /\ q[2] = r[1] /\ q[3] = r[2] /\ q[4] = r[3] /\ q[5] = r[4]
  BY <1>6
<1> QED
  BY <1>2, <1>3, <1>4, <1>6, <1>7, Zenon

\* Where the steps of a job are when others come before it.
LEMMA Shifted ==
  ASSUME NEW m \in Nat, NEW i \in Nat, NEW q, NEW t, NEW kind, NEW u
  PROVE  /\ ChangeSteps(q, i, kind, u) /\ (\A k \in (i + 1)..(i + 3) : t[m + k] = q[k])
              => ChangeSteps(t, m + i, kind, u)
         /\ EventSteps(q, i, u) /\ (\A k \in (i + 1)..(i + 6) : t[m + k] = q[k]) => EventSteps(t, m + i, u)
<1>1. \A k \in 1..6 : m + (i + k) = (m + i) + k /\ i + k \in (i + 1)..(i + 6)
  OBVIOUS
<1>2. \A k \in 1..3 : m + (i + k) = (m + i) + k /\ i + k \in (i + 1)..(i + 3)
  OBVIOUS
<1>3. ASSUME ChangeSteps(q, i, kind, u), \A k \in (i + 1)..(i + 3) : t[m + k] = q[k]
      PROVE  ChangeSteps(t, m + i, kind, u)
  <2>1. \A k \in 1..3 : t[(m + i) + k] = q[i + k]
    BY <1>2, <1>3, Zenon
  <2>2. 1 \in 1..3 /\ 2 \in 1..3 /\ 3 \in 1..3
    BY SMT
  <2> QED
    BY <1>3, <2>1, <2>2, Zenon DEF ChangeSteps
<1>4. ASSUME EventSteps(q, i, u), \A k \in (i + 1)..(i + 6) : t[m + k] = q[k]
      PROVE  EventSteps(t, m + i, u)
  <2>1. \A k \in 1..6 : t[(m + i) + k] = q[i + k]
    BY <1>1, <1>4, Zenon
  <2>2. 1 \in 1..6 /\ 2 \in 1..6 /\ 3 \in 1..6 /\ 4 \in 1..6 /\ 5 \in 1..6 /\ 6 \in 1..6
    BY SMT
  <2> QED
    BY <1>4, <2>1, <2>2, Zenon DEF EventSteps
<1> QED
  BY <1>3, <1>4

\* set_discoverable.
LEMMA DiscoverableScript ==
  ASSUME NEW on \in BOOLEAN, NEW err \in (Statuses \ {"Ok"}) \cup Blocks
  PROVE  LET q == SetDiscoverable(on, err) IN
         /\ Steps(q, 2) /\ q[1] = St("timeout", "adapter", err)
         /\ q[2] = St(IF on THEN "on" ELSE "off", "adapter", err)
<1>1. /\ "timeout" \in Kinds /\ (IF on THEN "on" ELSE "off") \in Kinds /\ "adapter" \in Names
  BY Words DEF Kinds, ChangeKinds
<1> DEFINE a == IF on THEN "on" ELSE "off"
<1> HIDE DEF a
<1>2. LET q == Try(<<"timeout", a>>, "adapter", err) IN
      Steps(q, 2) /\ q[1] = St("timeout", "adapter", err) /\ q[2] = St(a, "adapter", err)
  BY <1>1, TwoSteps DEF a
<1> QED
  BY <1>2 DEF SetDiscoverable, a

\* The precondition of the A2DP calls.
LEMMA RequireScript == Steps(Require, 1) /\ Require[1] = St("require", "a2dp", "FailedPrecondition")
<1>1. "require" \in Kinds /\ "a2dp" \in Names /\ "FailedPrecondition" \in (Statuses \ {"Ok"}) \cup Blocks
  BY Words DEF Kinds
<1> QED
  BY <1>1, OneStep DEF Require

\* a2dp_enable.
EnableSteps(q) ==
  LET u == A2dpUnit IN
  /\ q[1] = St("require", "a2dp", "FailedPrecondition") /\ q[2] = St("check", u, "FailedPrecondition")
  /\ q[3] = St("connect", u, "FailedPrecondition") /\ q[4] = St("load", u, "FailedPrecondition")
  /\ q[5] = St("enabled", u, "FailedPrecondition") /\ q[6] = St("active", u, "FailedPrecondition")
  /\ ChangeSteps(q, 6, "start", u) /\ EventSteps(q, 9, u)
  /\ q[16] = St("timeout", "adapter", "Internal") /\ q[17] = St("on", "adapter", "Internal")

\* a2dp_enable: 17 steps.
LEMMA EnableScript == Steps(A2dpEnable, 17) /\ EnableSteps(A2dpEnable)
<1> DEFINE u == A2dpUnit
           a == Require
           b == Try(<<"check">> \o StatusSteps, u, "FailedPrecondition")
           c == Job("start", u)
           d == SetDiscoverable(TRUE, "Internal")
           ab == a \o b
           abc == ab \o c
           q == abc \o d
<1>1. u \in Units /\ u \in Names /\ "start" \in Jobs
  BY HostAssumption, Words DEF Jobs
<1>2. "FailedPrecondition" \in (Statuses \ {"Ok"}) \cup Blocks /\ "Internal" \in (Statuses \ {"Ok"}) \cup Blocks
  BY Words
<1>3. Steps(a, 1) /\ a[1] = St("require", "a2dp", "FailedPrecondition")
  BY RequireScript
<1>4. /\ Steps(b, 5) /\ b[1] = St("check", u, "FailedPrecondition") /\ b[2] = St("connect", u, "FailedPrecondition")
      /\ b[3] = St("load", u, "FailedPrecondition") /\ b[4] = St("enabled", u, "FailedPrecondition")
      /\ b[5] = St("active", u, "FailedPrecondition")
  BY <1>1, <1>2, CheckedStatus
<1>5. Steps(c, 9) /\ ChangeSteps(c, 0, "start", u) /\ EventSteps(c, 3, u)
  BY <1>1, JobScript
<1>6. Steps(d, 2) /\ d[1] = St("timeout", "adapter", "Internal") /\ d[2] = St("on", "adapter", "Internal")
  <2>1. TRUE \in BOOLEAN
    OBVIOUS
  <2> QED
    BY <1>2, <2>1, DiscoverableScript
<1>7. q = A2dpEnable
  BY DEF A2dpEnable
<1> HIDE DEF a, b, c, d
<1>8. 1 \in Nat /\ 5 \in Nat /\ 9 \in Nat /\ 2 \in Nat /\ 6 \in Nat /\ 15 \in Nat /\ 0 \in Nat /\ 3 \in Nat
  BY SMT
<1>9. Joined(ab, a, 1, b, 5)
  BY <1>3, <1>4, <1>8, ThenAt
<1> HIDE DEF ab
<1>10. /\ Steps(ab, 6) /\ ab[1] = a[1] /\ ab[2] = b[1] /\ ab[3] = b[2] /\ ab[4] = b[3] /\ ab[5] = b[4]
       /\ ab[6] = b[5]
  BY <1>9 DEF Joined
<1>11. Joined(abc, ab, 6, c, 9)
  BY <1>5, <1>8, <1>10, ThenAt
<1> HIDE DEF abc
<1>12. /\ Steps(abc, 15) /\ abc[1] = ab[1] /\ abc[2] = ab[2] /\ abc[3] = ab[3] /\ abc[4] = ab[4]
       /\ abc[5] = ab[5] /\ abc[6] = ab[6]
  BY <1>11 DEF Joined
<1>13. ChangeSteps(abc, 6, "start", u) /\ EventSteps(abc, 9, u)
  <2>1. \A k \in 1..9 : abc[6 + k] = c[k]
    BY <1>11 DEF Joined
  <2>2. \A k \in (0 + 1)..(0 + 3) : abc[6 + k] = c[k]
    BY <2>1
  <2>3. \A k \in (3 + 1)..(3 + 6) : abc[6 + k] = c[k]
    BY <2>1
  <2>4. ChangeSteps(abc, 6 + 0, "start", u)
    BY <1>5, <1>8, <2>2, Shifted
  <2>5. EventSteps(abc, 6 + 3, u)
    BY <1>5, <1>8, <2>3, Shifted
  <2>6. 6 + 0 = 6 /\ 6 + 3 = 9
    BY SMT
  <2> QED
    BY <2>4, <2>5, <2>6, Zenon
<1>14. Joined(q, abc, 15, d, 2)
  BY <1>6, <1>8, <1>12, ThenAt
<1> HIDE DEF q
<1>15. Steps(q, 17) /\ (\A k \in 1..15 : q[k] = abc[k]) /\ q[16] = d[1] /\ q[17] = d[2]
  BY <1>14 DEF Joined
<1>16. /\ q[1] = abc[1] /\ q[2] = abc[2] /\ q[3] = abc[3] /\ q[4] = abc[4] /\ q[5] = abc[5] /\ q[6] = abc[6]
  BY <1>15
<1>17. ChangeSteps(q, 6, "start", u)
  <2>1. \A k \in (6 + 1)..(6 + 3) : q[0 + k] = abc[k]
    BY <1>15
  <2>2. ChangeSteps(q, 0 + 6, "start", u)
    BY <1>8, <1>13, <2>1, Shifted
  <2>3. 0 + 6 = 6
    BY SMT
  <2> QED
    BY <2>2, <2>3, Zenon
<1>18. EventSteps(q, 9, u)
  <2>1. \A k \in (9 + 1)..(9 + 6) : q[0 + k] = abc[k]
    BY <1>15
  <2>2. EventSteps(q, 0 + 9, u)
    BY <1>8, <1>13, <2>1, Shifted
  <2>3. 0 + 9 = 9
    BY SMT
  <2> QED
    BY <2>2, <2>3, Zenon
<1>19. EnableSteps(q)
  BY <1>3, <1>4, <1>6, <1>10, <1>12, <1>15, <1>16, <1>17, <1>18, Zenon DEF EnableSteps
<1> QED
  BY <1>7, <1>15, <1>19

\* a2dp_disable.
DisableSteps(q) ==
  /\ q[1] = St("require", "a2dp", "FailedPrecondition") /\ q[2] = St("timeout", "adapter", "logged")
  /\ q[3] = St("off", "adapter", "logged")
  /\ ChangeSteps(q, 3, "stop", A2dpUnit) /\ EventSteps(q, 6, A2dpUnit)

\* a2dp_disable: 12 steps.
LEMMA DisableScript == Steps(A2dpDisable, 12) /\ DisableSteps(A2dpDisable)
<1> DEFINE u == A2dpUnit
           a == Require
           b == SetDiscoverable(FALSE, "logged")
           c == Job("stop", u)
           ab == a \o b
           q == ab \o c
<1>1. u \in Units /\ "stop" \in Jobs /\ "logged" \in (Statuses \ {"Ok"}) \cup Blocks /\ FALSE \in BOOLEAN
  BY HostAssumption, Words DEF Jobs
<1>2. Steps(a, 1) /\ a[1] = St("require", "a2dp", "FailedPrecondition")
  BY RequireScript
<1>3. Steps(b, 2) /\ b[1] = St("timeout", "adapter", "logged") /\ b[2] = St("off", "adapter", "logged")
  BY <1>1, DiscoverableScript
<1>4. Steps(c, 9) /\ ChangeSteps(c, 0, "stop", u) /\ EventSteps(c, 3, u)
  BY <1>1, JobScript
<1>5. q = A2dpDisable
  BY DEF A2dpDisable
<1> HIDE DEF a, b, c
<1>6. 1 \in Nat /\ 2 \in Nat /\ 3 \in Nat /\ 9 \in Nat /\ 0 \in Nat
  BY SMT
<1>7. Joined(ab, a, 1, b, 2)
  BY <1>2, <1>3, <1>6, ThenAt
<1> HIDE DEF ab
<1>8. Steps(ab, 3) /\ ab[1] = a[1] /\ ab[2] = b[1] /\ ab[3] = b[2]
  BY <1>7 DEF Joined
<1>9. Joined(q, ab, 3, c, 9)
  BY <1>4, <1>6, <1>8, ThenAt
<1> HIDE DEF q
<1>10. Steps(q, 12) /\ q[1] = ab[1] /\ q[2] = ab[2] /\ q[3] = ab[3] /\ \A k \in 1..9 : q[3 + k] = c[k]
  BY <1>9 DEF Joined
<1>11. ChangeSteps(q, 3, "stop", u) /\ EventSteps(q, 6, u)
  <2>1. \A k \in (0 + 1)..(0 + 3) : q[3 + k] = c[k]
    BY <1>10
  <2>2. \A k \in (3 + 1)..(3 + 6) : q[3 + k] = c[k]
    BY <1>10
  <2>3. ChangeSteps(q, 3 + 0, "stop", u)
    BY <1>4, <1>6, <2>1, Shifted
  <2>4. EventSteps(q, 3 + 3, u)
    BY <1>4, <1>6, <2>2, Shifted
  <2>5. 3 + 0 = 3 /\ 3 + 3 = 6
    BY SMT
  <2> QED
    BY <2>3, <2>4, <2>5, Zenon
<1>12. DisableSteps(q)
  BY <1>2, <1>3, <1>8, <1>10, <1>11, Zenon DEF DisableSteps
<1> QED
  BY <1>5, <1>10, <1>12

\* The scripts of the volume.
LEMMA MixersScript == Steps(ListMixers, 1) /\ ListMixers[1] = St("card", "none", "Internal")
<1>1. "card" \in Kinds /\ "none" \in Names /\ "Internal" \in (Statuses \ {"Ok"}) \cup Blocks
  BY Words DEF Kinds
<1> QED
  BY <1>1, OneStep DEF ListMixers

\* The stream volume.
LEMMA StreamScript ==
  LET q == SetStreamVolume IN
  Steps(q, 2) /\ q[1] = St("gain", "stream", "Internal") /\ q[2] = St("publish", "stream", "Internal")
<1>1. /\ "gain" \in Kinds /\ "publish" \in Kinds /\ "stream" \in Names
      /\ "Internal" \in (Statuses \ {"Ok"}) \cup Blocks
  BY Words DEF Kinds, ChangeKinds
<1> QED
  BY <1>1, TwoSteps DEF SetStreamVolume

\* get_volume.
LEMMA VolumeScript ==
  ASSUME NEW sel \in {"Master", "PCM"}
  PROVE  LET q == GetVolume(sel) IN
         /\ Steps(q, 3) /\ q[1] = St("open", sel, "Internal") /\ q[2] = St("percent", sel, "Internal")
         /\ q[3] = St("muted", sel, "Internal")
<1>1. /\ "open" \in Kinds /\ "percent" \in Kinds /\ "muted" \in Kinds /\ sel \in Names
      /\ "Internal" \in (Statuses \ {"Ok"}) \cup Blocks
  BY Words DEF Kinds, Reads
<1> DEFINE steps == <<"open", "percent", "muted">>
<1>2. /\ steps \in Seq(Kinds) /\ Len(steps) = 3 /\ steps[1] = "open" /\ steps[2] = "percent"
      /\ steps[3] = "muted"
  BY <1>1, ThreeItems
<1>3. GetVolume(sel) = Try(steps, sel, "Internal")
  BY DEF GetVolume
<1>4. Len(steps) > 0
  BY <1>2
<1> HIDE DEF steps
<1>5. /\ Steps(Try(steps, sel, "Internal"), Len(steps))
      /\ \A k \in 1..Len(steps) : Try(steps, sel, "Internal")[k] = St(steps[k], sel, "Internal")
  BY <1>1, <1>2, <1>4, TryItems
<1> DEFINE q == Try(steps, sel, "Internal")
<1> HIDE DEF q
<1>6. /\ Steps(q, 3) /\ q[1] = St("open", sel, "Internal") /\ q[2] = St("percent", sel, "Internal")
      /\ q[3] = St("muted", sel, "Internal")
  BY <1>2, <1>5 DEF q
<1> QED
  BY <1>3, <1>6 DEF q

LevelSteps(q, kind, sel) ==
  /\ q[1] = St("open", sel, "Internal") /\ q[2] = St(kind, sel, "Internal")
  /\ q[3] = St("open", sel, "event") /\ q[4] = St("percent", sel, "event")
  /\ q[5] = St("muted", sel, "event") /\ q[6] = St("publish", sel, "event")

\* set_volume, set_mute: the change, then the event.
LEMMA LevelScript ==
  ASSUME NEW sel \in {"Master", "PCM"}, NEW kind \in {"set_volume", "set_mute"}
  PROVE  Steps(SetLevel(kind, sel), 6) /\ LevelSteps(SetLevel(kind, sel), kind, sel)
<1>1. /\ "open" \in Kinds /\ kind \in Kinds /\ "percent" \in Kinds /\ "muted" \in Kinds
      /\ "publish" \in Kinds
  BY DEF Kinds, ChangeKinds, Reads
<1>2. /\ sel \in Names /\ "Internal" \in (Statuses \ {"Ok"}) \cup Blocks
      /\ "event" \in (Statuses \ {"Ok"}) \cup Blocks
  BY Words
<1> DEFINE p == Try(<<"open", kind>>, sel, "Internal")
           e == Try(<<"open", "percent", "muted", "publish">>, sel, "event")
           q == p \o e
<1>3. Steps(p, 2) /\ p[1] = St("open", sel, "Internal") /\ p[2] = St(kind, sel, "Internal")
  BY <1>1, <1>2, TwoSteps
<1>4. /\ Steps(e, 4) /\ e[1] = St("open", sel, "event") /\ e[2] = St("percent", sel, "event")
      /\ e[3] = St("muted", sel, "event") /\ e[4] = St("publish", sel, "event")
  BY <1>1, <1>2, FourSteps
<1>5. q = SetLevel(kind, sel)
  BY DEF SetLevel, PublishVolume
<1> HIDE DEF p, e
<1>6. 2 \in Nat /\ 4 \in Nat
  BY SMT
<1>7. Joined(q, p, 2, e, 4)
  BY <1>3, <1>4, <1>6, ThenAt
<1> HIDE DEF q
<1>8. /\ Steps(q, 6) /\ q[1] = p[1] /\ q[2] = p[2] /\ q[3] = e[1] /\ q[4] = e[2] /\ q[5] = e[3]
      /\ q[6] = e[4]
  BY <1>7 DEF Joined
<1> QED
  BY <1>3, <1>4, <1>5, <1>8, Zenon DEF LevelSteps

-----------------------------------------------------------------------------
(* The calls as they begin. *)

\* A call that begins has its types.
LEMMA NewTyped ==
  ASSUME NEW op, op # "none", NEW on \in Names, NEW arg \in Nat, NEW n \in Nat, NEW q, Steps(q, n)
  PROVE  CallTyped(New(op, on, arg, q))
  BY DEF CallTyped, New, Steps

\* What is left to show of a script.
LEMMA NewInv ==
  ASSUME NEW op, op # "none", NEW on \in Names, NEW arg \in Nat, NEW n \in Nat, NEW q, Steps(q, n),
         \A k \in 1..n : q[k].do \in Jobs \cup Files =>
           \/ q[k].on \in Allow
           \/ \E j \in 1..(k - 1) : q[j].do = "check" /\ q[j].on = q[k].on /\ q[j].err \in Statuses,
         \A k \in 1..n : q[k].err \in Refusals =>
           \/ \E j \in 1..(k - 1) : q[j].do = "require" /\ q[j].err \in Statuses /\ ~A2dpEnabled
           \/ q[k].do = "check" /\ q[k].on \in Allow
           \/ \A j \in 1..(k - 1) : q[j].do \notin ChangeKinds,
         \A k \in 1..n : q[k].do \in ChangeKinds => <<q[k].do, q[k].on>> \in May(New(op, on, arg, q)),
         \A x \in Must(New(op, on, arg, q)) : \E k \in 1..n :
           q[k].do \in ChangeKinds /\ q[k].err \in Statuses /\ x = <<q[k].do, q[k].on>>,
         \A k \in 1..n : q[k].do \in {"percent", "muted"} =>
           \/ Find(q[k].on) # "none"
           \/ \E j \in 1..(k - 1) : q[j].do = "open" /\ q[j].on = q[k].on /\ SameBlock(q, j, k),
         \A j, k \in 1..n : j < k /\ q[j].do \in Reads /\ q[k].do = "publish" =>
           /\ q[j].on = on
           /\ IF q[j].do \in {"active", "enabled"} THEN on \in Units ELSE on \in {"Master", "PCM"},
         \A i, k \in 1..n, field \in Reads :
           i < k /\ q[i].do \in ChangeKinds /\ q[k].do = "publish" /\ (\E j \in 1..(i - 1) : q[j].do = field)
             => ReadAgain(q, field, i, k)
  PROVE  CallInv(New(op, on, arg, q))
<1> DEFINE r == New(op, on, arg, q)
<1>1. r.op = op /\ r.on = on /\ r.todo = q /\ r.saw = {} /\ r.did = {} /\ r.reply = "none"
  BY DEF New
<1>2. DOMAIN q = 1..n
  BY DEF Steps
<1>3. CallTyped(r)
  BY NewTyped
<1> HIDE DEF r
<1>4. Checked(r)
  BY <1>1, <1>2 DEF Checked
<1>5. Early(r)
  BY <1>1, <1>2 DEF Early, Refusals
<1>6. Settled(r)
  BY <1>1, <1>2 DEF Settled, r
<1>7. Opened(r)
  BY <1>1, <1>2 DEF Opened
<1>8. OnSubject(r)
  BY <1>1, <1>2 DEF OnSubject
<1>9. Reread(r)
  BY <1>1, <1>2 DEF Reread
<1> QED
  BY <1>3, <1>4, <1>5, <1>6, <1>7, <1>8, <1>9 DEF CallInv, r

\* A script that changes and publishes nothing.
LEMMA NewQuiet ==
  ASSUME NEW op \in {"status", "list", "list_mixers", "get_volume"}, NEW on \in Names, NEW n \in Nat,
         NEW q, Steps(q, n),
         \A k \in 1..n : q[k].do \notin ChangeKinds /\ q[k].do # "publish",
         \A k \in 1..n : q[k].do \in {"percent", "muted"} =>
           \/ Find(q[k].on) # "none"
           \/ \E j \in 1..(k - 1) : q[j].do = "open" /\ q[j].on = q[k].on /\ SameBlock(q, j, k)
  PROVE  CallInv(New(op, on, 0, q))
<1>1. Jobs \cup Files \subseteq ChangeKinds
  BY DEF ChangeKinds
<1>2. op # "none" /\ 0 \in Nat
  OBVIOUS
<1>3. Must(New(op, on, 0, q)) = {}
  BY DEF Must, New
<1>4. \A k \in 1..n : \A j \in 1..(k - 1) : j \in 1..n
  OBVIOUS
<1> QED
  BY <1>1, <1>2, <1>3, <1>4, NewInv, Zenon

\* What kind of step each is.
LEMMA KindsOf ==
  /\ \A kind \in Jobs \cup Files : kind \in ChangeKinds /\ kind \notin Reads /\ kind # "publish" /\ kind # "check"
  /\ \A do \in {"check", "connect", "load", "daemon_reload", "timeout", "require", "open", "card"} :
       do \notin ChangeKinds /\ do \notin Reads /\ do # "publish"
  /\ \A do \in Reads : do \notin ChangeKinds /\ do # "publish"
  /\ "publish" \notin ChangeKinds /\ "publish" \notin Reads
  /\ \A do \in {"on", "off", "set_volume", "set_mute", "gain"} :
       do \in ChangeKinds /\ do \notin Jobs \cup Files /\ do \notin Reads /\ do # "publish"
<1>1. \A kind \in Jobs \cup Files : kind \in ChangeKinds /\ kind \notin Reads /\ kind # "publish" /\ kind # "check"
  BY DEF ChangeKinds, Jobs, Files, Reads
<1>2. \A do \in {"check", "connect", "load", "daemon_reload", "timeout", "require", "open", "card"} :
        do \notin ChangeKinds /\ do \notin Reads /\ do # "publish"
  BY DEF ChangeKinds, Jobs, Files, Reads
<1>3. \A do \in Reads : do \notin ChangeKinds /\ do # "publish"
  BY DEF ChangeKinds, Jobs, Files, Reads
<1>4. "publish" \notin ChangeKinds /\ "publish" \notin Reads
  BY DEF ChangeKinds, Jobs, Files, Reads
<1>5. \A do \in {"on", "off", "set_volume", "set_mute", "gain"} :
        do \in ChangeKinds /\ do \notin Jobs \cup Files /\ do \notin Reads /\ do # "publish"
  BY DEF ChangeKinds, Jobs, Files, Reads
<1> QED
  BY <1>1, <1>2, <1>3, <1>4, <1>5

\* An event of a unit behind i steps: what it needs of the steps.
LEMMA EventShape ==
  ASSUME NEW i \in Nat, NEW q, NEW u, EventSteps(q, i, u)
  PROVE  /\ \A k \in (i + 1)..(i + 6) :
              /\ q[k].on = u /\ q[k].err = "event" /\ q[k].do \notin ChangeKinds
              /\ q[k].do \notin {"percent", "muted", "require"} /\ (q[k].do = "publish" => k = i + 6)
         /\ \A field \in {"active", "enabled"} : \E j \in (i + 1)..(i + 5) : q[j].do = field
<1>1. \A k \in (i + 1)..(i + 6) : k = i + 1 \/ k = i + 2 \/ k = i + 3 \/ k = i + 4 \/ k = i + 5 \/ k = i + 6
  OBVIOUS
<1>2. /\ q[i + 1].do = "check" /\ q[i + 2].do = "connect" /\ q[i + 3].do = "load"
      /\ q[i + 4].do = "enabled" /\ q[i + 5].do = "active" /\ q[i + 6].do = "publish"
      /\ q[i + 1].on = u /\ q[i + 2].on = u /\ q[i + 3].on = u
      /\ q[i + 4].on = u /\ q[i + 5].on = u /\ q[i + 6].on = u
      /\ q[i + 1].err = "event" /\ q[i + 2].err = "event" /\ q[i + 3].err = "event"
      /\ q[i + 4].err = "event" /\ q[i + 5].err = "event" /\ q[i + 6].err = "event"
  BY DEF EventSteps, St
<1>3. /\ \A do \in {"check", "connect", "load", "enabled", "active", "publish"} :
           do \notin ChangeKinds /\ do \notin {"percent", "muted", "require"}
      /\ \A do \in {"check", "connect", "load", "enabled", "active"} : do # "publish"
  BY DEF ChangeKinds, Jobs, Files
<1>4. \A k \in (i + 1)..(i + 6) :
        /\ q[k].on = u /\ q[k].err = "event" /\ q[k].do \notin ChangeKinds
        /\ q[k].do \notin {"percent", "muted", "require"} /\ (q[k].do = "publish" => k = i + 6)
  BY <1>1, <1>2, <1>3
<1>5. i + 4 \in (i + 1)..(i + 5) /\ i + 5 \in (i + 1)..(i + 5)
  OBVIOUS
<1>6. \A field \in {"active", "enabled"} : \E j \in (i + 1)..(i + 5) : q[j].do = field
  BY <1>2, <1>5
<1> QED
  BY <1>4, <1>6

\* What comes before a change of a unit needs of its steps.
LEMMA ChangeShape ==
  ASSUME NEW i \in Nat, NEW q, NEW u, NEW kind \in Jobs \cup Files, ChangeSteps(q, i, kind, u)
  PROVE  /\ q[i + 1].do = "check" /\ q[i + 1].on = u /\ q[i + 1].err = "PermissionDenied"
         /\ q[i + 2].do = "connect" /\ q[i + 2].on = u /\ q[i + 2].err = "Internal"
         /\ q[i + 3].do = kind /\ q[i + 3].on = u /\ q[i + 3].err = "Internal"
  BY DEF ChangeSteps, St

\* A job: the check comes before the change, the status after it.
LEMMA NewJob ==
  ASSUME NEW u \in Units, NEW kind \in Jobs
  PROVE  CallInv(New(kind, u, 0, Job(kind, u)))
<1> DEFINE q == Job(kind, u)
<1>1. Steps(q, 9) /\ ChangeSteps(q, 0, kind, u) /\ EventSteps(q, 3, u)
  BY JobScript
<1> HIDE DEF q
<1>2. /\ q[1].do = "check" /\ q[1].on = u /\ q[1].err = "PermissionDenied"
      /\ q[2].do = "connect" /\ q[2].on = u /\ q[2].err = "Internal"
      /\ q[3].do = kind /\ q[3].on = u /\ q[3].err = "Internal"
  BY <1>1 DEF ChangeSteps, St
<1>3. /\ \A k \in 4..9 :
           /\ q[k].on = u /\ q[k].err = "event" /\ q[k].do \notin ChangeKinds
           /\ q[k].do \notin {"percent", "muted", "require"} /\ (q[k].do = "publish" => k = 9)
      /\ \A field \in {"active", "enabled"} : \E j \in 4..8 : q[j].do = field
  <2>1. 3 \in Nat
    OBVIOUS
  <2>2. /\ \A k \in (3 + 1)..(3 + 6) :
           /\ q[k].on = u /\ q[k].err = "event" /\ q[k].do \notin ChangeKinds
           /\ q[k].do \notin {"percent", "muted", "require"} /\ (q[k].do = "publish" => k = 3 + 6)
        /\ \A field \in {"active", "enabled"} : \E j \in (3 + 1)..(3 + 5) : q[j].do = field
    BY <1>1, <2>1, EventShape
  <2> QED
    BY <2>2
<1>4. \A k \in 1..9 : k = 1 \/ k = 2 \/ k = 3 \/ k \in 4..9
  OBVIOUS
<1>5. /\ kind \in ChangeKinds /\ kind # "none" /\ kind # "publish" /\ kind \notin Reads
      /\ "check" \notin ChangeKinds \cup Reads /\ "connect" \notin ChangeKinds \cup Reads
      /\ Jobs \cup Files \subseteq ChangeKinds
      /\ kind \notin {"a2dp_enable", "a2dp_disable", "status", "list", "list_mixers", "get_volume"}
  BY DEF ChangeKinds, Reads, Jobs, Files
<1>6. \A k \in 1..9 : (q[k].do \in ChangeKinds => k = 3) /\ (q[k].do = "publish" => k = 9)
  BY <1>2, <1>3, <1>4, <1>5
<1>7. \A k \in 1..9 : q[k].do \in Jobs \cup Files =>
        \/ q[k].on \in Allow
        \/ \E j \in 1..(k - 1) : q[j].do = "check" /\ q[j].on = q[k].on /\ q[j].err \in Statuses
  <2>1. 1 \in 1..(3 - 1) /\ "PermissionDenied" \in Statuses
    BY DEF Statuses
  <2> QED
    BY <1>2, <1>5, <1>6, <2>1
<1>8. \A k \in 1..9 : q[k].err \in Refusals => \A j \in 1..(k - 1) : q[j].do \notin ChangeKinds
  <2>1. "event" \notin Refusals /\ "Internal" \notin Refusals
    BY DEF Refusals
  <2>2. \A k \in 1..9 : q[k].err \in Refusals => k = 1
    BY <1>2, <1>3, <1>4, <2>1
  <2>3. \A j : j \notin 1..(1 - 1)
    OBVIOUS
  <2> QED
    BY <2>2, <2>3
<1>9. Must(New(kind, u, 0, q)) = {<<kind, u>>} /\ May(New(kind, u, 0, q)) = {<<kind, u>>}
  BY <1>5 DEF Must, May, New
<1>10. \A k \in 1..9 : q[k].do \in ChangeKinds => <<q[k].do, q[k].on>> \in May(New(kind, u, 0, q))
  BY <1>2, <1>6, <1>9
<1>11. \A x \in Must(New(kind, u, 0, q)) : \E k \in 1..9 :
         q[k].do \in ChangeKinds /\ q[k].err \in Statuses /\ x = <<q[k].do, q[k].on>>
  <2>1. 3 \in 1..9 /\ "Internal" \in Statuses
    BY DEF Statuses
  <2> QED
    BY <1>2, <1>5, <1>9, <2>1
<1>12. \A k \in 1..9 : q[k].do \notin {"percent", "muted"}
  <2>1. kind \notin {"percent", "muted"}
    BY DEF Jobs
  <2> QED
    BY <1>2, <1>3, <1>4, <2>1
<1>13. \A k \in 1..9 : q[k].on = u
  BY <1>2, <1>3, <1>4
<1>14. \A i, k \in 1..9, field \in Reads :
         i < k /\ q[i].do \in ChangeKinds /\ q[k].do = "publish" /\ (\E j \in 1..(i - 1) : q[j].do = field)
           => ReadAgain(q, field, i, k)
  <2>1. \A j \in 1..(3 - 1) : j = 1 \/ j = 2
    OBVIOUS
  <2>2. \A j \in 1..(3 - 1) : q[j].do \notin Reads
    BY <1>2, <1>5, <2>1
  <2> QED
    BY <1>6, <2>2
<1>15. u \in Names /\ 0 \in Nat /\ 9 \in Nat
  BY Words
<1>16. CallInv(New(kind, u, 0, q))
  <2>1. \A j \in 1..9 : q[j].do \in Reads => q[j].do \in {"active", "enabled"}
    BY <1>12 DEF Reads
  <2> QED
    BY <1>1, <1>5, <1>7, <1>8, <1>10, <1>11, <1>12, <1>13, <1>14, <1>15, <2>1, NewInv, Zenon
<1> QED
  BY <1>16 DEF q

\* enable, disable.
LEMMA NewFile ==
  ASSUME NEW u \in Units, NEW kind \in Files
  PROVE  CallInv(New(kind, u, 0, File(kind, u)))
<1> DEFINE q == File(kind, u)
<1>1. /\ Steps(q, 10) /\ ChangeSteps(q, 0, kind, u) /\ q[4] = St("daemon_reload", u, "ignored")
      /\ EventSteps(q, 4, u)
  BY FileScript
<1> HIDE DEF q
<1>2. /\ q[1].do = "check" /\ q[1].on = u /\ q[1].err = "PermissionDenied"
      /\ q[2].do = "connect" /\ q[2].on = u /\ q[2].err = "Internal"
      /\ q[3].do = kind /\ q[3].on = u /\ q[3].err = "Internal"
      /\ q[4].do = "daemon_reload" /\ q[4].on = u /\ q[4].err = "ignored"
  BY <1>1 DEF ChangeSteps, St
<1>3. /\ \A k \in 5..10 :
           /\ q[k].on = u /\ q[k].err = "event" /\ q[k].do \notin ChangeKinds
           /\ q[k].do \notin {"percent", "muted", "require"} /\ (q[k].do = "publish" => k = 10)
      /\ \A field \in {"active", "enabled"} : \E j \in 5..9 : q[j].do = field
  <2>1. PICK i \in Nat : i = 4
    OBVIOUS
  <2>2. EventSteps(q, i, u)
    BY <1>1, <2>1
  <2>3. /\ \A k \in (i + 1)..(i + 6) :
           /\ q[k].on = u /\ q[k].err = "event" /\ q[k].do \notin ChangeKinds
           /\ q[k].do \notin {"percent", "muted", "require"} /\ (q[k].do = "publish" => k = i + 6)
        /\ \A field \in {"active", "enabled"} : \E j \in (i + 1)..(i + 5) : q[j].do = field
    BY <2>2, EventShape
  <2> QED
    BY <2>1, <2>3
<1>4. \A k \in 1..10 : k = 1 \/ k = 2 \/ k = 3 \/ k = 4 \/ k \in 5..10
  OBVIOUS
<1>5. /\ kind \in ChangeKinds /\ kind # "none" /\ kind # "publish" /\ kind \notin Reads
      /\ "check" \notin ChangeKinds \cup Reads /\ "connect" \notin ChangeKinds \cup Reads
      /\ "daemon_reload" \notin ChangeKinds \cup Reads /\ "daemon_reload" # "publish"
      /\ Jobs \cup Files \subseteq ChangeKinds
      /\ kind \notin {"a2dp_enable", "a2dp_disable", "status", "list", "list_mixers", "get_volume"}
  BY DEF ChangeKinds, Reads, Jobs, Files
<1>6. \A k \in 1..10 : (q[k].do \in ChangeKinds => k = 3) /\ (q[k].do = "publish" => k = 10)
  BY <1>2, <1>3, <1>4, <1>5
<1>7. \A k \in 1..10 : q[k].do \in Jobs \cup Files =>
        \/ q[k].on \in Allow
        \/ \E j \in 1..(k - 1) : q[j].do = "check" /\ q[j].on = q[k].on /\ q[j].err \in Statuses
  <2>1. 1 \in 1..(3 - 1) /\ "PermissionDenied" \in Statuses
    BY DEF Statuses
  <2> QED
    BY <1>2, <1>5, <1>6, <2>1
<1>8. \A k \in 1..10 : q[k].err \in Refusals => \A j \in 1..(k - 1) : q[j].do \notin ChangeKinds
  <2>1. "event" \notin Refusals /\ "ignored" \notin Refusals /\ "Internal" \notin Refusals
    BY DEF Refusals
  <2>2. \A k \in 1..10 : q[k].err \in Refusals => k = 1
    BY <1>2, <1>3, <1>4, <2>1
  <2>3. \A j : j \notin 1..(1 - 1)
    OBVIOUS
  <2> QED
    BY <2>2, <2>3
<1>9. Must(New(kind, u, 0, q)) = {<<kind, u>>} /\ May(New(kind, u, 0, q)) = {<<kind, u>>}
  BY <1>5 DEF Must, May, New
<1>10. \A k \in 1..10 : q[k].do \in ChangeKinds => <<q[k].do, q[k].on>> \in May(New(kind, u, 0, q))
  BY <1>2, <1>6, <1>9
<1>11. \A x \in Must(New(kind, u, 0, q)) : \E k \in 1..10 :
         q[k].do \in ChangeKinds /\ q[k].err \in Statuses /\ x = <<q[k].do, q[k].on>>
  <2>1. 3 \in 1..10 /\ "Internal" \in Statuses
    BY DEF Statuses
  <2> QED
    BY <1>2, <1>5, <1>9, <2>1
<1>12. \A k \in 1..10 : q[k].do \notin {"percent", "muted"}
  <2>1. kind \notin {"percent", "muted"}
    BY DEF Files
  <2> QED
    BY <1>2, <1>3, <1>4, <2>1
<1>13. \A k \in 1..10 : q[k].on = u
  BY <1>2, <1>3, <1>4
<1>14. \A i, k \in 1..10, field \in Reads :
         i < k /\ q[i].do \in ChangeKinds /\ q[k].do = "publish" /\ (\E j \in 1..(i - 1) : q[j].do = field)
           => ReadAgain(q, field, i, k)
  <2>1. \A j \in 1..(3 - 1) : j = 1 \/ j = 2
    OBVIOUS
  <2>2. \A j \in 1..(3 - 1) : q[j].do \notin Reads
    BY <1>2, <1>5, <2>1
  <2> QED
    BY <1>6, <2>2
<1>15. u \in Names /\ 0 \in Nat /\ 10 \in Nat
  BY Words
<1>16. CallInv(New(kind, u, 0, q))
  <2>1. \A j \in 1..10 : q[j].do \in Reads => q[j].do \in {"active", "enabled"}
    BY <1>12 DEF Reads
  <2> QED
    BY <1>1, <1>5, <1>7, <1>8, <1>10, <1>11, <1>12, <1>13, <1>14, <1>15, <2>1, NewInv, Zenon
<1> QED
  BY <1>16 DEF q

\* A status changes nothing.
LEMMA NewStatus ==
  ASSUME NEW u \in Units
  PROVE  CallInv(New("status", u, 0, Status(u)))
<1> DEFINE q == Status(u)
<1>1. /\ Steps(q, 5) /\ q[1] = St("check", u, "PermissionDenied") /\ q[2] = St("connect", u, "Internal")
      /\ q[3] = St("load", u, "Internal") /\ q[4] = St("enabled", u, "Internal")
      /\ q[5] = St("active", u, "Internal")
  BY StatusScript
<1> HIDE DEF q
<1>2. \A k \in 1..5 : k = 1 \/ k = 2 \/ k = 3 \/ k = 4 \/ k = 5
  OBVIOUS
<1>3. /\ q[1].do = "check" /\ q[2].do = "connect" /\ q[3].do = "load" /\ q[4].do = "enabled"
      /\ q[5].do = "active"
  BY <1>1 DEF St
<1>4. \A do \in {"check", "connect", "load", "enabled", "active"} :
        do \notin ChangeKinds /\ do # "publish" /\ do \notin {"percent", "muted"}
  BY DEF ChangeKinds, Jobs, Files
<1>5. \A k \in 1..5 : q[k].do \notin ChangeKinds /\ q[k].do # "publish" /\ q[k].do \notin {"percent", "muted"}
  BY <1>2, <1>3, <1>4
<1>6. u \in Names /\ 5 \in Nat /\ "status" \in {"status", "list", "list_mixers", "get_volume"}
  BY Words
<1>7. CallInv(New("status", u, 0, q))
  BY <1>1, <1>5, <1>6, NewQuiet, Zenon
<1> QED
  BY <1>7 DEF q

\* set_discoverable changes the adapter.
LEMMA NewDiscoverable ==
  ASSUME NEW on \in BOOLEAN
  PROVE  CallInv(New(IF on THEN "on" ELSE "off", "adapter", 0, SetDiscoverable(on, "Internal")))
<1> DEFINE q == SetDiscoverable(on, "Internal")
           a == IF on THEN "on" ELSE "off"
<1>1. "Internal" \in (Statuses \ {"Ok"}) \cup Blocks
  BY Words
<1>2. Steps(q, 2) /\ q[1] = St("timeout", "adapter", "Internal") /\ q[2] = St(a, "adapter", "Internal")
  BY <1>1, DiscoverableScript
<1> HIDE DEF q
<1>3. a \in {"on", "off"}
  OBVIOUS
<1> HIDE DEF a
<1>4. /\ q[1].do = "timeout" /\ q[1].on = "adapter" /\ q[1].err = "Internal"
      /\ q[2].do = a /\ q[2].on = "adapter" /\ q[2].err = "Internal"
  BY <1>2 DEF St
<1>5. \A k \in 1..2 : k = 1 \/ k = 2
  OBVIOUS
<1>6. /\ a \in ChangeKinds /\ "timeout" \notin ChangeKinds /\ a # "none" /\ a # "publish"
      /\ a \notin {"a2dp_enable", "a2dp_disable", "status", "list", "list_mixers", "get_volume"}
      /\ a \notin Jobs \cup Files /\ "timeout" \notin Jobs \cup Files
      /\ a \notin {"percent", "muted"} /\ "Internal" \notin Refusals /\ "Internal" \in Statuses
  BY <1>3 DEF ChangeKinds, Jobs, Files, Refusals, Statuses
<1>7. Must(New(a, "adapter", 0, q)) = {<<a, "adapter">>} /\ May(New(a, "adapter", 0, q)) = {<<a, "adapter">>}
  BY <1>6 DEF Must, May, New
<1>8. \A k \in 1..2 : /\ q[k].do \notin Jobs \cup Files /\ q[k].err \notin Refusals
                      /\ q[k].do \notin {"percent", "muted"} /\ q[k].do # "publish"
                      /\ (q[k].do \in ChangeKinds => q[k].do = a /\ q[k].on = "adapter")
  BY <1>4, <1>5, <1>6
<1>9. \A k \in 1..2 : q[k].do \in ChangeKinds => <<q[k].do, q[k].on>> \in May(New(a, "adapter", 0, q))
  BY <1>7, <1>8
<1>10. \A x \in Must(New(a, "adapter", 0, q)) : \E k \in 1..2 :
         q[k].do \in ChangeKinds /\ q[k].err \in Statuses /\ x = <<q[k].do, q[k].on>>
  <2>1. 2 \in 1..2
    OBVIOUS
  <2> QED
    BY <1>4, <1>6, <1>7, <2>1
<1>11. "adapter" \in Names /\ 0 \in Nat /\ 2 \in Nat
  BY Words
<1>12. CallInv(New(a, "adapter", 0, q))
  BY <1>2, <1>6, <1>8, <1>9, <1>10, <1>11, NewInv, Zenon
<1> QED
  BY <1>12 DEF a, q

\* a2dp_enable: whatever may refuse it comes before the start.
LEMMA NewEnable == CallInv(New("a2dp_enable", A2dpUnit, 0, A2dpEnable))
<1> DEFINE q == A2dpEnable
           u == A2dpUnit
           r == New("a2dp_enable", u, 0, q)
<1>1. Steps(q, 17) /\ EnableSteps(q)
  BY EnableScript
<1>2. u \in Units /\ u \in Names /\ 0 \in Nat /\ 17 \in Nat /\ "a2dp_enable" # "none"
  BY HostAssumption, Words
<1>3. Must(r) = {<<"start", u>>, <<"on", "adapter">>} /\ May(r) = {<<"start", u>>, <<"on", "adapter">>}
  BY DEF Must, May, New
<1> HIDE DEF q
<1>4. /\ q[1].do = "require" /\ q[2].do = "check" /\ q[3].do = "connect" /\ q[4].do = "load"
      /\ q[5].do = "enabled" /\ q[6].do = "active"
      /\ q[5].on = u /\ q[6].on = u
      /\ q[16].do = "timeout" /\ q[16].err = "Internal"
      /\ q[17].do = "on" /\ q[17].on = "adapter" /\ q[17].err = "Internal"
  BY <1>1 DEF EnableSteps, St
<1>5. /\ q[7].do = "check" /\ q[7].on = u /\ q[7].err = "PermissionDenied"
      /\ q[8].do = "connect" /\ q[8].err = "Internal"
      /\ q[9].do = "start" /\ q[9].on = u /\ q[9].err = "Internal"
  BY <1>1 DEF EnableSteps, ChangeSteps, St
<1>6. /\ \A k \in 10..15 :
           /\ q[k].on = u /\ q[k].err = "event" /\ q[k].do \notin ChangeKinds
           /\ q[k].do \notin {"percent", "muted", "require"} /\ (q[k].do = "publish" => k = 15)
      /\ \A field \in {"active", "enabled"} : \E j \in 10..14 : q[j].do = field
  <2>1. PICK i \in Nat : i = 9
    OBVIOUS
  <2>2. EventSteps(q, i, u)
    BY <1>1, <2>1 DEF EnableSteps
  <2>3. /\ \A k \in (i + 1)..(i + 6) :
           /\ q[k].on = u /\ q[k].err = "event" /\ q[k].do \notin ChangeKinds
           /\ q[k].do \notin {"percent", "muted", "require"} /\ (q[k].do = "publish" => k = i + 6)
        /\ \A field \in {"active", "enabled"} : \E j \in (i + 1)..(i + 5) : q[j].do = field
    BY <2>2, EventShape
  <2> QED
    BY <2>1, <2>3
<1>7. \A k \in 1..17 : \/ k \in 1..6 \/ k \in {7, 8, 9} \/ k \in 10..15 \/ k = 16 \/ k = 17
  OBVIOUS
<1>8. \A k \in 1..6 : k = 1 \/ k = 2 \/ k = 3 \/ k = 4 \/ k = 5 \/ k = 6
  OBVIOUS
<1>9. /\ \A do \in {"require", "check", "connect", "load", "enabled", "active", "timeout"} :
           do \notin ChangeKinds /\ do # "publish" /\ do \notin {"percent", "muted"} /\ do \notin Jobs \cup Files
      /\ Jobs \cup Files \subseteq ChangeKinds /\ "on" \notin Jobs \cup Files
      /\ "start" \in ChangeKinds /\ "on" \in ChangeKinds
      /\ \A do \in {"require", "check", "connect", "load", "timeout", "start", "on"} : do \notin Reads
      /\ "event" \notin Refusals /\ "Internal" \notin Refusals
      /\ "Internal" \in Statuses /\ "PermissionDenied" \in Statuses
  BY DEF ChangeKinds, Jobs, Files, Refusals, Statuses, Reads
<1>10. \A k \in 1..17 : (q[k].do \in ChangeKinds => k \in {9, 17}) /\ (q[k].do = "publish" => k = 15)
  <2>1. \A k \in 1..6 : q[k].do \notin ChangeKinds /\ q[k].do # "publish"
    BY <1>4, <1>8, <1>9
  <2>2. \A k \in {7, 8} : q[k].do \notin ChangeKinds /\ q[k].do # "publish"
    BY <1>5, <1>9
  <2>3. q[16].do \notin ChangeKinds /\ q[16].do # "publish" /\ q[9].do # "publish" /\ q[17].do # "publish"
    BY <1>4, <1>5, <1>9
  <2> QED
    BY <1>6, <1>7, <2>1, <2>2, <2>3
<1>11. \A k \in 1..17 : q[k].do \in Jobs \cup Files =>
        \/ q[k].on \in Allow
        \/ \E j \in 1..(k - 1) : q[j].do = "check" /\ q[j].on = q[k].on /\ q[j].err \in Statuses
  <2>1. \A k \in 1..17 : q[k].do \in Jobs \cup Files => k = 9
    BY <1>4, <1>9, <1>10
  <2>2. 7 \in 1..(9 - 1)
    OBVIOUS
  <2>3. \E j \in 1..(9 - 1) : q[j].do = "check" /\ q[j].on = q[9].on /\ q[j].err \in Statuses
    BY <1>5, <1>9, <2>2
  <2> QED
    BY <2>1, <2>3
<1>12. \A k \in 1..17 : q[k].err \in Refusals => \A j \in 1..(k - 1) : q[j].do \notin ChangeKinds
  <2>1. \A k \in 1..17 : q[k].err \in Refusals => k \in 1..7
    BY <1>4, <1>5, <1>6, <1>7, <1>9
  <2>2. \A k \in 1..7 : \A j \in 1..(k - 1) : j \in 1..17 /\ j \notin {9, 17}
    OBVIOUS
  <2> QED
    BY <1>10, <2>1, <2>2
<1>13. \A k \in 1..17 : q[k].do \in ChangeKinds => <<q[k].do, q[k].on>> \in May(r)
  <2>1. <<q[9].do, q[9].on>> \in May(r) /\ <<q[17].do, q[17].on>> \in May(r)
    BY <1>3, <1>4, <1>5
  <2> QED
    BY <1>10, <2>1
<1>14. \A x \in Must(r) : \E k \in 1..17 :
         q[k].do \in ChangeKinds /\ q[k].err \in Statuses /\ x = <<q[k].do, q[k].on>>
  <2>1. 9 \in 1..17 /\ 17 \in 1..17
    OBVIOUS
  <2> QED
    BY <1>3, <1>4, <1>5, <1>9, <2>1
<1>15. \A k \in 1..17 : q[k].do \notin {"percent", "muted"}
  <2>1. \A k \in 1..6 : q[k].do \notin {"percent", "muted"}
    BY <1>4, <1>8, <1>9
  <2>2. \A k \in {7, 8, 9, 16, 17} : q[k].do \notin {"percent", "muted"}
    BY <1>4, <1>5
  <2> QED
    BY <1>6, <1>7, <2>1, <2>2
<1>16. \A j \in 1..17 : q[j].do \in Reads => q[j].on = u /\ q[j].do \in {"active", "enabled"}
  <2>1. \A j \in 1..6 : q[j].do \in Reads => q[j].on = u
    BY <1>4, <1>8, <1>9
  <2>2. \A j \in {7, 8, 9, 16, 17} : q[j].do \notin Reads
    BY <1>4, <1>5, <1>9
  <2>3. \A j \in 1..17 : q[j].do \in Reads => q[j].on = u
    BY <1>6, <1>7, <2>1, <2>2
  <2> QED
    BY <1>15, <2>3 DEF Reads
<1>17. ASSUME NEW i \in 1..17, NEW k \in 1..17, NEW field \in Reads,
              i < k, q[i].do \in ChangeKinds, q[k].do = "publish", \E j \in 1..(i - 1) : q[j].do = field
       PROVE  ReadAgain(q, field, i, k)
  <2>1. i = 9 /\ k = 15
    BY <1>10, <1>17
  <2>2. PICK j \in 1..17 : q[j].do = field
    BY <1>17
  <2>3. field \in {"active", "enabled"}
    BY <1>16, <2>2
  <2>4. PICK l \in 10..14 : q[l].do = field
    BY <1>6, <2>3
  <2>5. l \in (9 + 1)..(15 - 1)
    OBVIOUS
  <2>6. \A x \in l..15 : x \in 10..15
    OBVIOUS
  <2>7. 15 \in 10..15
    OBVIOUS
  <2>8. SameBlock(q, l, 15)
    BY <1>6, <2>6, <2>7 DEF SameBlock
  <2> QED
    BY <2>1, <2>4, <2>5, <2>8 DEF ReadAgain
<1> HIDE DEF r, u
<1>18. CallInv(New("a2dp_enable", u, 0, q))
  <2>1. \A k \in 1..17 : q[k].do \in ChangeKinds => <<q[k].do, q[k].on>> \in May(New("a2dp_enable", u, 0, q))
    BY <1>13 DEF r
  <2>2. \A x \in Must(New("a2dp_enable", u, 0, q)) : \E k \in 1..17 :
          q[k].do \in ChangeKinds /\ q[k].err \in Statuses /\ x = <<q[k].do, q[k].on>>
    BY <1>14 DEF r
  <2> QED
    BY <1>1, <1>2, <1>11, <1>12, <1>15, <1>16, <1>17, <2>1, <2>2, NewInv, Zenon
<1> QED
  BY <1>18 DEF q, u

\* a2dp_disable: the unit is stopped although the adapter may fail.
LEMMA NewDisable == CallInv(New("a2dp_disable", A2dpUnit, 0, A2dpDisable))
<1> DEFINE q == A2dpDisable
           u == A2dpUnit
           r == New("a2dp_disable", u, 0, q)
<1>1. Steps(q, 12) /\ DisableSteps(q)
  BY DisableScript
<1>2. u \in Units /\ u \in Names /\ 0 \in Nat /\ 12 \in Nat /\ "a2dp_disable" # "none"
  BY HostAssumption, Words
<1>3. Must(r) = {<<"stop", u>>} /\ May(r) = {<<"stop", u>>, <<"off", "adapter">>}
  BY DEF Must, May, New
<1> HIDE DEF q
<1>4. /\ q[1].do = "require" /\ q[1].err = "FailedPrecondition"
      /\ q[2].do = "timeout" /\ q[2].err = "logged"
      /\ q[3].do = "off" /\ q[3].on = "adapter" /\ q[3].err = "logged"
  BY <1>1 DEF DisableSteps, St
<1>5. /\ q[4].do = "check" /\ q[4].on = u /\ q[4].err = "PermissionDenied"
      /\ q[5].do = "connect" /\ q[5].err = "Internal"
      /\ q[6].do = "stop" /\ q[6].on = u /\ q[6].err = "Internal"
  BY <1>1 DEF DisableSteps, ChangeSteps, St
<1>6. \A k \in 7..12 :
        /\ q[k].on = u /\ q[k].err = "event" /\ q[k].do \notin ChangeKinds
        /\ q[k].do \notin {"percent", "muted", "require"} /\ (q[k].do = "publish" => k = 12)
  <2>1. PICK i \in Nat : i = 6
    OBVIOUS
  <2>2. EventSteps(q, i, u)
    BY <1>1, <2>1 DEF DisableSteps
  <2>3. \A k \in (i + 1)..(i + 6) :
           /\ q[k].on = u /\ q[k].err = "event" /\ q[k].do \notin ChangeKinds
           /\ q[k].do \notin {"percent", "muted", "require"} /\ (q[k].do = "publish" => k = i + 6)
    BY <2>2, EventShape
  <2> QED
    BY <2>1, <2>3
<1>7. \A k \in 1..12 : k \in {1, 2, 3, 4, 5, 6} \/ k \in 7..12
  OBVIOUS
<1>8. /\ \A do \in {"require", "check", "connect", "timeout"} : do \notin ChangeKinds /\ do # "publish"
      /\ Jobs \cup Files \subseteq ChangeKinds /\ "off" \notin Jobs \cup Files
      /\ "stop" \in ChangeKinds /\ "off" \in ChangeKinds
      /\ \A do \in {"require", "check", "connect", "timeout", "stop", "off"} : do \notin Reads
      /\ "event" \notin Refusals /\ "Internal" \notin Refusals /\ "logged" \notin Refusals
      /\ "Internal" \in Statuses /\ "PermissionDenied" \in Statuses /\ "FailedPrecondition" \in Statuses
  BY DEF ChangeKinds, Jobs, Files, Refusals, Statuses, Reads
<1>9. \A k \in 1..12 : (q[k].do \in ChangeKinds => k \in {3, 6}) /\ (q[k].do = "publish" => k = 12)
  <2>1. \A k \in {1, 2, 4, 5} : q[k].do \notin ChangeKinds
    BY <1>4, <1>5, <1>8
  <2>2. \A k \in {1, 2, 3, 4, 5, 6} : q[k].do # "publish"
    BY <1>4, <1>5
  <2> QED
    BY <1>6, <1>7, <2>1, <2>2
<1>10. \A k \in 1..12 : q[k].do \in Jobs \cup Files =>
        \/ q[k].on \in Allow
        \/ \E j \in 1..(k - 1) : q[j].do = "check" /\ q[j].on = q[k].on /\ q[j].err \in Statuses
  <2>1. \A k \in 1..12 : q[k].do \in Jobs \cup Files => k = 6
    BY <1>4, <1>8, <1>9
  <2>2. 4 \in 1..(6 - 1)
    OBVIOUS
  <2>3. \E j \in 1..(6 - 1) : q[j].do = "check" /\ q[j].on = q[6].on /\ q[j].err \in Statuses
    BY <1>5, <1>8, <2>2
  <2> QED
    BY <2>1, <2>3
<1>11. \A k \in 1..12 : q[k].err \in Refusals =>
         \/ \E j \in 1..(k - 1) : q[j].do = "require" /\ q[j].err \in Statuses /\ ~A2dpEnabled
         \/ q[k].do = "check" /\ q[k].on \in Allow
         \/ \A j \in 1..(k - 1) : q[j].do \notin ChangeKinds
  <2>1. \A k \in 1..12 : q[k].err \in Refusals => k = 1 \/ k = 4
    BY <1>4, <1>5, <1>6, <1>7, <1>8
  <2>2. \A j : j \notin 1..(1 - 1)
    OBVIOUS
  <2>3. A2dpEnabled => u \in Allow
    BY HostAssumption DEF SystemdAllowlist
  <2>4. 1 \in 1..(4 - 1)
    OBVIOUS
  <2>5. ~A2dpEnabled => \E j \in 1..(4 - 1) : q[j].do = "require" /\ q[j].err \in Statuses /\ ~A2dpEnabled
    BY <1>4, <1>8, <2>4
  <2>6. q[4].do = "check" /\ q[4].on = u
    BY <1>5
  <2> HIDE DEF u
  <2> QED
    BY <2>1, <2>2, <2>3, <2>5, <2>6
<1>12. \A k \in 1..12 : q[k].do \in ChangeKinds => <<q[k].do, q[k].on>> \in May(r)
  <2>1. <<q[3].do, q[3].on>> \in May(r) /\ <<q[6].do, q[6].on>> \in May(r)
    BY <1>3, <1>4, <1>5
  <2> QED
    BY <1>9, <2>1
<1>13. \A x \in Must(r) : \E k \in 1..12 :
         q[k].do \in ChangeKinds /\ q[k].err \in Statuses /\ x = <<q[k].do, q[k].on>>
  <2>1. 6 \in 1..12
    OBVIOUS
  <2> QED
    BY <1>3, <1>5, <1>8, <2>1
<1>14. \A k \in 1..12 : q[k].do \notin {"percent", "muted"}
  <2>1. \A k \in {1, 2, 3, 4, 5, 6} : q[k].do \notin {"percent", "muted"}
    BY <1>4, <1>5
  <2> QED
    BY <1>6, <1>7, <2>1
<1>15. \A k \in {1, 2, 3, 4, 5, 6} : q[k].do \notin Reads
  BY <1>4, <1>5, <1>8
<1>16. \A j \in 1..12 : q[j].do \in Reads => q[j].on = u /\ q[j].do \in {"active", "enabled"}
  <2>1. \A j \in 1..12 : q[j].do \in Reads => q[j].on = u
    BY <1>6, <1>7, <1>15
  <2> QED
    BY <1>14, <2>1 DEF Reads
<1>17. ASSUME NEW i \in 1..12, NEW k \in 1..12, NEW field \in Reads,
              i < k, q[i].do \in ChangeKinds, q[k].do = "publish", \E j \in 1..(i - 1) : q[j].do = field
       PROVE  ReadAgain(q, field, i, k)
  <2>1. i \in {3, 6}
    BY <1>9, <1>17
  <2>2. PICK j \in 1..(i - 1) : q[j].do = field
    BY <1>17
  <2>3. j \in {1, 2, 3, 4, 5, 6}
    BY <2>1
  <2> QED
    BY <1>15, <2>2, <2>3
<1> HIDE DEF r, u
<1>18. CallInv(New("a2dp_disable", u, 0, q))
  <2>1. \A k \in 1..12 : q[k].do \in ChangeKinds => <<q[k].do, q[k].on>> \in May(New("a2dp_disable", u, 0, q))
    BY <1>12 DEF r
  <2>2. \A x \in Must(New("a2dp_disable", u, 0, q)) : \E k \in 1..12 :
          q[k].do \in ChangeKinds /\ q[k].err \in Statuses /\ x = <<q[k].do, q[k].on>>
    BY <1>13 DEF r
  <2> QED
    BY <1>1, <1>2, <1>10, <1>11, <1>14, <1>16, <1>17, <2>1, <2>2, NewInv, Zenon
<1> QED
  BY <1>18 DEF q, u

\* list_mixers.
LEMMA NewMixers == CallInv(New("list_mixers", "none", 0, ListMixers))
<1> DEFINE q == ListMixers
<1>1. Steps(q, 1) /\ q[1].do = "card"
  BY MixersScript DEF St
<1> HIDE DEF q
<1>2. \A k \in 1..1 : k = 1
  OBVIOUS
<1>3. "card" \notin ChangeKinds
  BY DEF ChangeKinds, Jobs, Files
<1>4. \A k \in 1..1 : q[k].do \notin ChangeKinds /\ q[k].do # "publish" /\ q[k].do \notin {"percent", "muted"}
  BY <1>1, <1>2, <1>3
<1>5. "none" \in Names /\ 1 \in Nat /\ "list_mixers" \in {"status", "list", "list_mixers", "get_volume"}
  BY Words
<1>6. CallInv(New("list_mixers", "none", 0, q))
  BY <1>1, <1>4, <1>5, NewQuiet, Zenon
<1> QED
  BY <1>6 DEF q

\* get_volume opens the element that it reads.
LEMMA NewVolume ==
  ASSUME NEW sel \in {"Master", "PCM"}
  PROVE  CallInv(New("get_volume", sel, 0, GetVolume(sel)))
<1> DEFINE q == GetVolume(sel)
<1>1. /\ Steps(q, 3) /\ q[1] = St("open", sel, "Internal") /\ q[2] = St("percent", sel, "Internal")
      /\ q[3] = St("muted", sel, "Internal")
  BY VolumeScript
<1> HIDE DEF q
<1>2. \A k \in 1..3 : k = 1 \/ k = 2 \/ k = 3
  OBVIOUS
<1>3. /\ q[1].do = "open" /\ q[2].do = "percent" /\ q[3].do = "muted"
      /\ \A k \in 1..3 : q[k].on = sel /\ q[k].err = "Internal"
  BY <1>1, <1>2 DEF St
<1>4. \A do \in {"open", "percent", "muted"} : do \notin ChangeKinds /\ do # "publish"
  BY DEF ChangeKinds, Jobs, Files
<1>5. \A k \in 1..3 : q[k].do \notin ChangeKinds /\ q[k].do # "publish"
  BY <1>2, <1>3, <1>4
<1>6. ASSUME NEW k \in 1..3, q[k].do \in {"percent", "muted"}
      PROVE  \E j \in 1..(k - 1) : q[j].do = "open" /\ q[j].on = q[k].on /\ SameBlock(q, j, k)
  <2>1. k # 1
    BY <1>3, <1>6
  <2>2. 1 \in 1..(k - 1) /\ \A i \in 1..k : i \in 1..3
    BY <2>1
  <2>3. SameBlock(q, 1, k)
    BY <1>3, <2>2 DEF SameBlock
  <2>4. 1 \in 1..3
    OBVIOUS
  <2> QED
    BY <1>3, <2>2, <2>3, <2>4
<1>7. sel \in Names /\ 3 \in Nat /\ "get_volume" \in {"status", "list", "list_mixers", "get_volume"}
  BY Words
<1>8. CallInv(New("get_volume", sel, 0, q))
  BY <1>1, <1>5, <1>6, <1>7, NewQuiet, Zenon
<1> QED
  BY <1>8 DEF q

\* The stream volume: the event says what was stored.
LEMMA NewStream ==
  ASSUME NEW pct \in Nat
  PROVE  CallInv(New("gain", "stream", pct, SetStreamVolume))
<1> DEFINE q == SetStreamVolume
<1>1. /\ Steps(q, 2) /\ q[1] = St("gain", "stream", "Internal") /\ q[2] = St("publish", "stream", "Internal")
  BY StreamScript
<1> HIDE DEF q
<1>2. /\ q[1].do = "gain" /\ q[1].on = "stream" /\ q[1].err = "Internal"
      /\ q[2].do = "publish" /\ q[2].on = "stream" /\ q[2].err = "Internal"
  BY <1>1 DEF St
<1>3. \A k \in 1..2 : k = 1 \/ k = 2
  OBVIOUS
<1>4. /\ "gain" \in ChangeKinds /\ "publish" \notin ChangeKinds /\ "gain" # "none"
      /\ "gain" \notin Jobs \cup Files /\ "publish" \notin Jobs \cup Files
      /\ "gain" \notin Reads /\ "publish" \notin Reads
      /\ "Internal" \notin Refusals /\ "Internal" \in Statuses
  BY DEF ChangeKinds, Jobs, Files, Refusals, Statuses, Reads
<1>5. /\ Must(New("gain", "stream", pct, q)) = {<<"gain", "stream">>}
      /\ May(New("gain", "stream", pct, q)) = {<<"gain", "stream">>}
  BY DEF Must, May, New
<1>6. \A k \in 1..2 : /\ q[k].do \notin Jobs \cup Files /\ q[k].err \notin Refusals /\ q[k].do \notin Reads
                      /\ q[k].do \notin {"percent", "muted"}
                      /\ (q[k].do \in ChangeKinds => q[k].do = "gain" /\ q[k].on = "stream")
  BY <1>2, <1>3, <1>4
<1>7. \A k \in 1..2 : q[k].do \in ChangeKinds => <<q[k].do, q[k].on>> \in May(New("gain", "stream", pct, q))
  BY <1>5, <1>6
<1>8. \A x \in Must(New("gain", "stream", pct, q)) : \E k \in 1..2 :
        q[k].do \in ChangeKinds /\ q[k].err \in Statuses /\ x = <<q[k].do, q[k].on>>
  <2>1. 1 \in 1..2
    OBVIOUS
  <2> QED
    BY <1>2, <1>4, <1>5, <2>1
<1>9. \A i \in 1..2 : \A j \in 1..(i - 1) : j \in 1..2
  OBVIOUS
<1>10. "stream" \in Names /\ 2 \in Nat
  BY Words
<1>11. CallInv(New("gain", "stream", pct, q))
  BY <1>1, <1>4, <1>6, <1>7, <1>8, <1>9, <1>10, NewInv, Zenon
<1> QED
  BY <1>11 DEF q

\* set_volume, set_mute: the element is opened again and read after the change.
LEMMA NewLevel ==
  ASSUME NEW sel \in {"Master", "PCM"}, NEW kind \in {"set_volume", "set_mute"}, NEW arg \in Nat
  PROVE  CallInv(New(kind, sel, arg, SetLevel(kind, sel)))
<1> DEFINE q == SetLevel(kind, sel)
<1>1. Steps(q, 6) /\ LevelSteps(q, kind, sel)
  BY LevelScript
<1> HIDE DEF q
<1>2. \A k \in 1..6 : k = 1 \/ k = 2 \/ k = 3 \/ k = 4 \/ k = 5 \/ k = 6
  OBVIOUS
<1>3. /\ q[1].do = "open" /\ q[2].do = kind /\ q[3].do = "open" /\ q[4].do = "percent"
      /\ q[5].do = "muted" /\ q[6].do = "publish"
      /\ q[1].on = sel /\ q[2].on = sel /\ q[3].on = sel /\ q[4].on = sel /\ q[5].on = sel /\ q[6].on = sel
      /\ q[1].err = "Internal" /\ q[2].err = "Internal" /\ q[3].err = "event" /\ q[4].err = "event"
      /\ q[5].err = "event" /\ q[6].err = "event"
  BY <1>1 DEF LevelSteps, St
<1>4. /\ kind \in ChangeKinds /\ kind # "none" /\ kind # "publish" /\ kind \notin Reads
      /\ kind \notin Jobs \cup Files /\ Jobs \cup Files \subseteq ChangeKinds
      /\ kind \notin {"a2dp_enable", "a2dp_disable", "status", "list", "list_mixers", "get_volume"}
      /\ \A do \in {"open", "percent", "muted", "publish"} : do \notin ChangeKinds
      /\ "open" \notin Reads /\ "publish" \notin Reads
      /\ "event" \notin Refusals /\ "Internal" \notin Refusals /\ "Internal" \in Statuses
  BY DEF ChangeKinds, Jobs, Files, Refusals, Statuses, Reads
<1>5. /\ Must(New(kind, sel, arg, q)) = {<<kind, sel>>} /\ May(New(kind, sel, arg, q)) = {<<kind, sel>>}
  BY <1>4 DEF Must, May, New
<1>6. \A k \in 1..6 : (q[k].do \in ChangeKinds => k = 2) /\ q[k].on = sel /\ q[k].err \notin Refusals
  BY <1>2, <1>3, <1>4
<1>7. \A k \in 1..6 : q[k].do \notin Jobs \cup Files
  BY <1>3, <1>4, <1>6
<1>8. \A k \in 1..6 : q[k].do \in ChangeKinds => <<q[k].do, q[k].on>> \in May(New(kind, sel, arg, q))
  BY <1>3, <1>5, <1>6
<1>9. \A x \in Must(New(kind, sel, arg, q)) : \E k \in 1..6 :
        q[k].do \in ChangeKinds /\ q[k].err \in Statuses /\ x = <<q[k].do, q[k].on>>
  <2>1. 2 \in 1..6
    OBVIOUS
  <2> QED
    BY <1>3, <1>4, <1>5, <2>1
<1>10. \A k \in 1..6 : (q[k].do \in Reads => k = 4 \/ k = 5) /\ (q[k].do \in {"percent", "muted"} => k = 4 \/ k = 5)
  <2>1. kind \notin {"percent", "muted"}
    OBVIOUS
  <2> QED
    BY <1>2, <1>3, <1>4, <2>1
<1>11. ASSUME NEW k \in 1..6, q[k].do \in {"percent", "muted"}
       PROVE  \E j \in 1..(k - 1) : q[j].do = "open" /\ q[j].on = q[k].on /\ SameBlock(q, j, k)
  <2>1. k = 4 \/ k = 5
    BY <1>10, <1>11
  <2>2. 3 \in 1..(k - 1) /\ \A i \in 3..k : i = 3 \/ i = 4 \/ i = 5
    BY <2>1
  <2>3. SameBlock(q, 3, k)
    BY <1>3, <2>1, <2>2 DEF SameBlock
  <2>4. 3 \in 1..6
    OBVIOUS
  <2> QED
    BY <1>3, <1>6, <2>2, <2>3, <2>4
<1>12. \A j \in 1..6 : q[j].do \in Reads => q[j].do \notin {"active", "enabled"}
  BY <1>3, <1>10
<1>13. \A i \in 1..6 : q[i].do \in ChangeKinds => \A j \in 1..(i - 1) : q[j].do \notin Reads
  <2>1. \A j \in 1..(2 - 1) : j = 1
    OBVIOUS
  <2> QED
    BY <1>3, <1>4, <1>6, <2>1
<1>14. sel \in Names /\ 6 \in Nat
  BY Words
<1>15. \A j, k \in 1..6 : j < k /\ q[j].do \in Reads /\ q[k].do = "publish" =>
         /\ q[j].on = sel
         /\ IF q[j].do \in {"active", "enabled"} THEN sel \in Units ELSE sel \in {"Master", "PCM"}
  BY <1>6, <1>12
<1>16. \A i, k \in 1..6, field \in Reads :
         i < k /\ q[i].do \in ChangeKinds /\ q[k].do = "publish" /\ (\E j \in 1..(i - 1) : q[j].do = field)
           => ReadAgain(q, field, i, k)
  BY <1>13
<1>17. \A k \in 1..6 : q[k].do \in {"percent", "muted"} =>
         \/ Find(q[k].on) # "none"
         \/ \E j \in 1..(k - 1) : q[j].do = "open" /\ q[j].on = q[k].on /\ SameBlock(q, j, k)
  BY <1>11
<1>18. CallInv(New(kind, sel, arg, q))
  BY <1>1, <1>4, <1>6, <1>7, <1>8, <1>9, <1>14, <1>15, <1>16, <1>17, NewInv, Zenon
<1> QED
  BY <1>18 DEF q

\* list: the checks and the status of every unit, one after the other; none with none.
LEMMA Listed ==
  /\ Cardinality(Allow) \in Nat
  /\ \A i \in 1..Cardinality(Allow) : SetToSeq(Allow)[i] \in Units
<1> DEFINE m == Cardinality(Allow)
<1>1. m \in Nat /\ ExistsBijection(1..m, Allow)
  BY HostAssumption, FS_CardinalityType
<1>2. PICK f \in Bijection(1..m, Allow) : TRUE
  BY <1>1 DEF ExistsBijection
<1>3. f \in [1..m -> Allow] /\ IsInjective(f)
  BY <1>2 DEF Bijection, Injection
<1>4. SetToSeq(Allow) \in [1..m -> Allow]
  <2>1. \E g \in [1..m -> Allow] : IsInjective(g)
    BY <1>3
  <2> QED
    BY <2>1 DEF SetToSeq
<1> HIDE DEF m
<1>5. \A i \in 1..m : SetToSeq(Allow)[i] \in Units
  BY <1>4, UnitsAssumption
<1> QED
  BY <1>1, <1>5 DEF m

\* list: only steps that read.
LEMMA ListScript ==
  LET n == 5 * Cardinality(Allow) IN
  /\ n \in Nat /\ List \in Seq(Item) /\ Len(List) = n /\ DOMAIN List = 1..n
  /\ \A k \in 1..n : List[k].do \in {"check", "connect", "load", "enabled", "active"}
<1> DEFINE m == Cardinality(Allow)
           n == 5 * m
           s == SetToSeq(Allow)
           steps == <<"check">> \o <<"connect", "load", "enabled", "active">>
           five == {"check", "connect", "load", "enabled", "active"}
<1>1. m \in Nat /\ \A i \in 1..m : s[i] \in Units
  BY Listed
<1>2. steps \in Seq(five) /\ Len(steps) = 5
  BY FiveItems
<1>3. <<"check">> \o StatusSteps = steps
  BY DEF StatusSteps
<1>4. five \subseteq Kinds
  BY DEF Kinds, Reads
<1>5. List = [k \in 1..n |-> [do |-> steps[((k - 1) % 5) + 1], on |-> s[(k - 1) \div 5 + 1],
                             err |-> s[(k - 1) \div 5 + 1]]]
  BY <1>3 DEF List
<1> HIDE DEF m, s, steps, five
<1>6. n \in Nat
  BY <1>1
<1>7. ASSUME NEW k \in 1..n
      PROVE  ((k - 1) % 5) + 1 \in 1..5 /\ (k - 1) \div 5 + 1 \in 1..m
  BY <1>1
<1>8. \A k \in 1..n : steps[((k - 1) % 5) + 1] \in five /\ s[(k - 1) \div 5 + 1] \in Units
  BY <1>1, <1>2, <1>7
<1> HIDE DEF n
<1>9. \A u \in Units : u \in Names /\ u \in (Statuses \ {"Ok"}) \cup Blocks
  BY Words
<1>10. \A k \in 1..n : List[k].do \in five /\ List[k] \in Item
  BY <1>4, <1>5, <1>8, <1>9 DEF Item
<1>11. List \in [1..n -> Item]
  BY <1>5, <1>10
<1>12. List \in Seq(Item) /\ Len(List) = n /\ DOMAIN List = 1..n
  BY <1>6, <1>11
<1> QED
  BY <1>6, <1>10, <1>12 DEF n, m, five

\* list changes nothing.
LEMMA NewList ==
  CallInv(Left([NoCall EXCEPT !.op = "list", !.on = "none", !.arg = 0], List))
<1> DEFINE n == 5 * Cardinality(Allow)
<1>1. /\ n \in Nat /\ List \in Seq(Item) /\ Len(List) = n /\ DOMAIN List = 1..n
      /\ \A k \in 1..n : List[k].do \in {"check", "connect", "load", "enabled", "active"}
  BY ListScript
<1> HIDE DEF n
<1>2. "none" \in Names /\ "list" \in {"status", "list", "list_mixers", "get_volume"}
  BY Words
<1>3. CASE List = <<>>
  <2> DEFINE r == [op |-> "list", on |-> "none", arg |-> 0, todo |-> <<>>, saw |-> {}, did |-> {}, reply |-> "Ok"]
  <2>1. Left([NoCall EXCEPT !.op = "list", !.on = "none", !.arg = 0], List) = r
    BY <1>3 DEF Left, Ended, NoCall
  <2>2. DOMAIN r.todo = {} /\ r.todo \in Seq(Item) /\ r.reply \in Statuses /\ r.reply \notin Refusals
    BY DEF Statuses, Refusals
  <2>3. Must(r) = {}
    BY DEF Must
  <2>4. CallTyped(r)
    BY <1>2, <2>2 DEF CallTyped
  <2>5. Checked(r) /\ Early(r)
    BY <2>2 DEF Checked, Early
  <2>6. Settled(r)
    BY <2>2, <2>3 DEF Settled
  <2>7. Opened(r) /\ OnSubject(r) /\ Reread(r)
    BY <2>2 DEF Opened, OnSubject, Reread
  <2> QED
    BY <2>1, <2>4, <2>5, <2>6, <2>7 DEF CallInv
<1>4. CASE List # <<>>
  <2>1. Left([NoCall EXCEPT !.op = "list", !.on = "none", !.arg = 0], List) = New("list", "none", 0, List)
    BY <1>4 DEF Left, NoCall, New
  <2>2. Steps(List, n)
    BY <1>1, <1>4 DEF Steps
  <2>3. \A do \in {"check", "connect", "load", "enabled", "active"} :
          do \notin ChangeKinds /\ do # "publish" /\ do \notin {"percent", "muted"}
    BY DEF ChangeKinds, Jobs, Files
  <2>4. \A k \in 1..n : /\ List[k].do \notin ChangeKinds /\ List[k].do # "publish"
                        /\ List[k].do \notin {"percent", "muted"}
    BY <1>1, <2>3
  <2>5. CallInv(New("list", "none", 0, List))
    BY <1>1, <1>2, <2>2, <2>4, NewQuiet, Zenon
  <2> QED
    BY <2>1, <2>5
<1> QED
  BY <1>3, <1>4

-----------------------------------------------------------------------------
(* The operators by which a call is changed. *)

\* A call with other fields read or other changes made.
LEMMA Same ==
  ASSUME NEW r, CallTyped(r)
  PROVE  /\ r = With(r, r.saw, r.did)
         /\ \A saw : [r EXCEPT !.saw = saw] = With(r, saw, r.did)
         /\ \A did : [r EXCEPT !.did = did] = With(r, r.saw, did)
<1>1. r = [op |-> r.op, on |-> r.on, arg |-> r.arg, todo |-> r.todo, saw |-> r.saw, did |-> r.did,
           reply |-> r.reply]
  BY DEF CallTyped
<1>2. r = With(r, r.saw, r.did)
  BY <1>1 DEF With
<1>3. ASSUME NEW saw PROVE [r EXCEPT !.saw = saw] = With(r, saw, r.did)
  BY <1>1 DEF With
<1>4. ASSUME NEW did PROVE [r EXCEPT !.did = did] = With(r, r.saw, did)
  BY <1>1 DEF With
<1> QED
  BY <1>2, <1>3, <1>4

\* A call that ends, as a record of its fields.
LEMMA EndedShape ==
  ASSUME NEW r, CallTyped(r), NEW reply
  PROVE  Ended(r, reply) = [op |-> r.op, on |-> r.on, arg |-> r.arg, todo |-> <<>>, saw |-> {},
                            did |-> r.did, reply |-> reply]
<1> DEFINE r1 == [op |-> r.op, on |-> r.on, arg |-> r.arg, todo |-> r.todo, saw |-> r.saw, did |-> r.did,
                  reply |-> r.reply]
<1>1. r = r1
  BY DEF CallTyped
<1>2. Ended(r1, reply) = [op |-> r.op, on |-> r.on, arg |-> r.arg, todo |-> <<>>, saw |-> {},
                          did |-> r.did, reply |-> reply]
  BY EndedRecord DEF r1
<1> HIDE DEF r1
<1> QED
  BY <1>1, <1>2, Zenon

\* The first step is done, and left with it what was read and changed.
LEMMA LeftGoes ==
  ASSUME NEW r, CallTyped(r), r.todo # <<>>, NEW saw, NEW did
  PROVE  LET r2 == Left(With(r, saw, did), Tail(r.todo)) IN
         Goes(r, r2, 1) /\ r2.did = did /\ r2.saw \in {saw, {}}
<1> DEFINE q == Tail(r.todo)
           r2 == Left(With(r, saw, did), q)
<1>1. r.todo \in Seq(Item)
  BY DEF CallTyped
<1>2. q \in Seq(Item) /\ Rest(r.todo, q, 1)
  BY <1>1, TailRest
<1> HIDE DEF q
<1>3. r2 = [op |-> r.op, on |-> r.on, arg |-> r.arg, todo |-> q,
            saw |-> IF q = <<>> THEN {} ELSE saw, did |-> did,
            reply |-> IF q = <<>> THEN "Ok" ELSE r.reply]
  BY LeftShape
<1> HIDE DEF r2
<1>4. r2.todo = q /\ r2.saw = (IF q = <<>> THEN {} ELSE saw) /\ r2.did = did
      /\ r2.reply = (IF q = <<>> THEN "Ok" ELSE r.reply)
  BY <1>3
<1>5. Goes(r, r2, 1)
  BY <1>2, <1>3, <1>4 DEF Goes
<1> QED
  BY <1>4, <1>5 DEF r2, q

\* Head of a script.
LEMMA HeadFirst == ASSUME NEW r, CallTyped(r), r.todo # <<>> PROVE Head(r.todo) = r.todo[1]
<1>1. r.todo \in Seq(Item)
  BY DEF CallTyped
<1> QED
  BY <1>1

\* A step that passes.
LEMMA PassMoves ==
  ASSUME NEW r, CallTyped(r), r.todo # <<>>, r.todo[1].do \notin ChangeKinds \cup Reads,
         r.todo[1].do = "check" => r.todo[1].on \in Allow,
         r.todo[1].do = "require" => A2dpEnabled,
         r.todo[1].do = "open" => Find(r.todo[1].on) # "none",
         NEW facts
  PROVE  Moves(r, Left(r, Tail(r.todo)), facts)
<1> DEFINE w == With(r, r.saw, r.did)
           r2 == Left(r, Tail(r.todo))
           r3 == Left(w, Tail(r.todo))
<1>a. Goes(r, r3, 1) /\ r3.did = r.did /\ r3.saw \in {r.saw, {}}
  BY LeftGoes
<1>b. r = w
  BY Same
<1> HIDE DEF w
<1>c. r2 = r3
  BY <1>b, Zenon
<1> HIDE DEF r2, r3
<1>1. Goes(r, r2, 1) /\ r2.did = r.did /\ r2.saw \in {r.saw, {}}
  BY <1>a, <1>c
<1>2. Passes(r, r2)
  BY <1>1 DEF Passes
<1> QED
  BY <1>2 DEF Moves, r2

\* A step that has read.
LEMMA SeeMoves ==
  ASSUME NEW r, CallTyped(r), r.todo # <<>>, NEW field, r.todo[1].do = field, field \in Reads,
         NEW facts, NEW values, \A v \in values : <<field, v>> \in facts, \A v, w \in values : v = w
  PROVE  Moves(r, Left([r EXCEPT !.saw = {f \in r.saw : f[1] # field} \cup ({field} \X values)], Tail(r.todo)),
               facts)
<1> DEFINE saw == {f \in r.saw : f[1] # field} \cup ({field} \X values)
           r2 == Left([r EXCEPT !.saw = saw], Tail(r.todo))
<1>1. \A f \in saw : \/ f \in r.saw /\ f[1] # field
                     \/ f[1] = field /\ f \in facts
  OBVIOUS
<1>2. \A f, g \in saw : f[1] = field /\ g[1] = field => f = g
  OBVIOUS
<1> HIDE DEF saw
<1> DEFINE w == With(r, saw, r.did)
           r3 == Left(w, Tail(r.todo))
<1>a. Goes(r, r3, 1) /\ r3.did = r.did /\ r3.saw \in {saw, {}}
  BY LeftGoes
<1>b. [r EXCEPT !.saw = saw] = w
  BY Same
<1> HIDE DEF w
<1>c. r2 = r3
  BY <1>b, Zenon
<1> HIDE DEF r2, r3
<1>3. Goes(r, r2, 1) /\ r2.did = r.did /\ r2.saw \in {saw, {}}
  BY <1>a, <1>c
<1>4. Sees(r, r2, facts)
  BY <1>1, <1>2, <1>3 DEF Sees
<1> QED
  BY <1>4 DEF Moves, r2, saw

\* A step that has changed its subject.
LEMMA DoMoves ==
  ASSUME NEW r, CallTyped(r), r.todo # <<>>, r.todo[1].do \in ChangeKinds, NEW facts
  PROVE  Moves(r, Left([r EXCEPT !.did = r.did \cup {<<r.todo[1].do, r.todo[1].on>>}], Tail(r.todo)), facts)
<1> DEFINE did == r.did \cup {<<r.todo[1].do, r.todo[1].on>>}
           r2 == Left([r EXCEPT !.did = did], Tail(r.todo))
<1> HIDE DEF did
<1> DEFINE w == With(r, r.saw, did)
           r3 == Left(w, Tail(r.todo))
<1>a. Goes(r, r3, 1) /\ r3.did = did /\ r3.saw \in {r.saw, {}}
  BY LeftGoes
<1>b. [r EXCEPT !.did = did] = w
  BY Same
<1> HIDE DEF w
<1>c. r2 = r3
  BY <1>b, Zenon
<1> HIDE DEF r2, r3
<1>1. Goes(r, r2, 1) /\ r2.did = did /\ r2.saw \in {r.saw, {}}
  BY <1>a, <1>c
<1>2. Does(r, r2)
  BY <1>1 DEF Does, did
<1> QED
  BY <1>2 DEF Moves, r2, did

\* A step that fails.
LEMMA MissMoves ==
  ASSUME NEW r, CallTyped(r), r.todo # <<>>,
         ~(r.todo[1].do = "check" /\ r.todo[1].on \in Allow), ~(r.todo[1].do = "require" /\ A2dpEnabled),
         NEW facts
  PROVE  Moves(r, IF r.todo[1].err \in Statuses THEN Ended(r, r.todo[1].err) ELSE Left(r, Behind(r.todo)), facts)
<1>1. CASE r.todo[1].err \in Statuses
  <2>1. Ended(r, r.todo[1].err) = [op |-> r.op, on |-> r.on, arg |-> r.arg, todo |-> <<>>, saw |-> {},
                                   did |-> r.did, reply |-> r.todo[1].err]
    BY EndedShape
  <2> DEFINE r2 == Ended(r, r.todo[1].err)
  <2> HIDE DEF r2
  <2>2. r2 = [op |-> r.op, on |-> r.on, arg |-> r.arg, todo |-> <<>>, saw |-> {},
                                   did |-> r.did, reply |-> r.todo[1].err]
    BY <2>1 DEF r2
  <2>3. Refuses(r, r2)
    BY <1>1, <2>2 DEF Refuses
  <2> QED
    BY <1>1, <2>3 DEF Moves, r2
<1>2. CASE r.todo[1].err \notin Statuses
  <2> DEFINE q == Behind(r.todo)
             r2 == Left(r, q)
  <2>1. r.todo \in Seq(Item)
    BY DEF CallTyped
  <2>2. /\ q \in Seq(Item)
        /\ \E n \in 1..Len(r.todo) :
             /\ Rest(r.todo, q, n) /\ \A k \in 1..n : r.todo[k].err = r.todo[1].err
             /\ n < Len(r.todo) => r.todo[n + 1].err # r.todo[1].err
    BY <2>1, BehindRest
  <2> HIDE DEF q
  <2>3. r2 = [op |-> r.op, on |-> r.on, arg |-> r.arg, todo |-> q,
              saw |-> IF q = <<>> THEN {} ELSE r.saw, did |-> r.did,
              reply |-> IF q = <<>> THEN "Ok" ELSE r.reply]
    BY Same, LeftShape
  <2> HIDE DEF r2
  <2>4. r2.todo = q /\ r2.saw \subseteq r.saw /\ r2.did = r.did
    BY <2>3
  <2>5. \E n \in 1..Len(r.todo) : GivesUp(r, r2, n)
    BY <1>2, <2>2, <2>3, <2>4 DEF GivesUp, Goes
  <2> QED
    BY <1>2, <2>5 DEF Moves, r2, q
<1> QED
  BY <1>1, <1>2

-----------------------------------------------------------------------------
(* The steps of the system, as steps of one call. *)

\* What the first step of a call can read.
FactsOf(r) == IF r.todo[1].do \in {"active", "enabled"} THEN UnitFacts(r.todo[1].on)
              ELSE MixerFacts(r.todo[1].on)

\* One call makes a step.
Step(c) == /\ call' = [call EXCEPT ![c] = call'[c]]
           /\ Moves(call[c], call'[c], FactsOf(call[c]))

\* What holds of a call that has a step to do.
LEMMA First ==
  ASSUME NEW c \in Callers, CallsInv, NEW step, Due(c, step)
  PROVE  /\ CallTyped(call[c]) /\ call[c].todo # <<>> /\ call[c].todo[1].do = step
         /\ Now(c) = call[c].todo[1]
<1>1. CallTyped(call[c]) /\ call[c].todo # <<>>
  BY DEF CallsInv, CallInv, Due, Busy
<1>2. Now(c) = call[c].todo[1]
  BY <1>1, HeadFirst DEF Now
<1> QED
  BY <1>1, <1>2 DEF Due

\* Only the field c of call changes.
LEMMA OneChanges ==
  ASSUME NEW c \in Callers, CallsInv, NEW x, call' = [call EXCEPT ![c] = x]
  PROVE  call'[c] = x /\ call' = [call EXCEPT ![c] = call'[c]]
<1>1. call = [b \in Callers |-> call[b]]
  BY DEF CallsInv
<1>2. call'[c] = x
  BY <1>1
<1> QED
  BY <1>2

\* The same of the system: a call passes a step.
LEMMA PassStep ==
  ASSUME NEW c \in Callers, CallsInv, NEW step, Due(c, step), Pass(c), step \notin ChangeKinds \cup Reads,
         step = "check" => Now(c).on \in Allow, step = "require" => A2dpEnabled,
         step = "open" => Find(Now(c).on) # "none"
  PROVE  Step(c)
<1> DEFINE r == call[c]
           x == Left(r, Tail(r.todo))
<1>1. CallTyped(r) /\ r.todo # <<>> /\ r.todo[1].do = step /\ Now(c) = r.todo[1]
  BY First
<1>2. call' = [call EXCEPT ![c] = x]
  BY DEF Pass
<1> HIDE DEF r
<1>3. Moves(r, x, FactsOf(r))
  BY <1>1, PassMoves
<1> HIDE DEF x
<1>4. call'[c] = x /\ call' = [call EXCEPT ![c] = call'[c]]
  BY <1>2, OneChanges
<1> QED
  BY <1>3, <1>4 DEF Step, r

\* A step of a call fails.
LEMMA MissStep ==
  ASSUME NEW c \in Callers, CallsInv, NEW step, Due(c, step), Miss(c),
         ~(step = "check" /\ Now(c).on \in Allow), ~(step = "require" /\ A2dpEnabled)
  PROVE  Step(c)
<1> DEFINE r == call[c]
           x == IF r.todo[1].err \in Statuses THEN Ended(r, r.todo[1].err) ELSE Left(r, Behind(r.todo))
<1>1. CallTyped(r) /\ r.todo # <<>> /\ r.todo[1].do = step /\ Now(c) = r.todo[1]
  BY First
<1>2. call' = [call EXCEPT ![c] = x]
  BY <1>1 DEF Miss
<1> HIDE DEF r
<1>3. Moves(r, x, FactsOf(r))
  BY <1>1, MissMoves
<1> HIDE DEF x
<1>4. call'[c] = x /\ call' = [call EXCEPT ![c] = call'[c]]
  BY <1>2, OneChanges
<1> QED
  BY <1>3, <1>4 DEF Step, r

\* A call changes its subject.
LEMMA DoStep ==
  ASSUME NEW c \in Callers, CallsInv, NEW step, Due(c, step), Do(c), step \in ChangeKinds
  PROVE  Step(c) /\ call'[c].did = call[c].did \cup {<<step, Now(c).on>>} /\ Now(c) = call[c].todo[1]
<1> DEFINE r == call[c]
           x == Left([r EXCEPT !.did = r.did \cup {<<r.todo[1].do, r.todo[1].on>>}], Tail(r.todo))
<1>1. CallTyped(r) /\ r.todo # <<>> /\ r.todo[1].do = step /\ Now(c) = r.todo[1]
  BY First
<1>2. call' = [call EXCEPT ![c] = x]
  BY <1>1, Zenon DEF Do
<1> HIDE DEF r
<1>3. Moves(r, x, FactsOf(r))
  BY <1>1, DoMoves
<1> HIDE DEF x
<1>4. call'[c] = x /\ call' = [call EXCEPT ![c] = call'[c]]
  BY <1>2, OneChanges
<1>5. x.did = r.did \cup {<<r.todo[1].do, r.todo[1].on>>}
  <2>1. r = [op |-> r.op, on |-> r.on, arg |-> r.arg, todo |-> r.todo, saw |-> r.saw, did |-> r.did,
             reply |-> r.reply]
    BY <1>1 DEF CallTyped
  <2> DEFINE d == r.did \cup {<<r.todo[1].do, r.todo[1].on>>}
             y == Left(With(r, r.saw, d), Tail(r.todo))
  <2> HIDE DEF d
  <2>2. [r EXCEPT !.did = d] = With(r, r.saw, d)
    BY <1>1, Same
  <2>3. y.did = d
    BY <1>1, LeftGoes
  <2>4. x = y
    BY <2>2, Zenon DEF x, d
  <2> QED
    BY <2>3, <2>4 DEF d
<1> QED
  BY <1>1, <1>3, <1>4, <1>5 DEF Step, r

\* A call reads.
LEMMA SeeStep ==
  ASSUME NEW c \in Callers, CallsInv, NEW step \in Reads, Due(c, step), NEW values, See(c, step, values),
         \A v \in values : <<step, v>> \in FactsOf(call[c]), \A v, w \in values : v = w
  PROVE  Step(c)
<1> DEFINE r == call[c]
           x == Left([r EXCEPT !.saw = {f \in r.saw : f[1] # step} \cup ({step} \X values)], Tail(r.todo))
<1>1. CallTyped(r) /\ r.todo # <<>> /\ r.todo[1].do = step
  BY First
<1>2. call' = [call EXCEPT ![c] = x]
  BY Zenon DEF See
<1>3. \A v \in values : <<step, v>> \in FactsOf(r)
  OBVIOUS
<1> HIDE DEF r
<1>4. Moves(r, x, FactsOf(r))
  BY ZenonT(30), <1>1, <1>3, SeeMoves
<1> HIDE DEF x
<1>5. call'[c] = x /\ call' = [call EXCEPT ![c] = call'[c]]
  BY <1>2, OneChanges
<1> QED
  BY <1>4, <1>5 DEF Step, r

\* Every step of a script is a step of its call; what it reads, it leaves.
LEMMA UnitSteps ==
  ASSUME NEW c \in Callers, CallsInv, UnitStep(c)
  PROVE  Step(c) /\ (call[c].todo[1].do \in Reads => UNCHANGED unit)
<1>1. CASE CheckStep(c)
  <2>1. Due(c, "check") /\ (IF Now(c).on \in Allow THEN Pass(c) ELSE Miss(c)) /\ UNCHANGED unit
    BY <1>1 DEF CheckStep
  <2>2. "check" \notin ChangeKinds \cup Reads /\ "check" # "require" /\ "check" # "open"
    BY StepKinds
  <2>3. CASE Now(c).on \in Allow
    BY <2>1, <2>2, <2>3, PassStep
  <2>4. CASE Now(c).on \notin Allow
    BY <2>1, <2>2, <2>4, MissStep
  <2> QED
    BY <2>1, <2>3, <2>4
<1>2. CASE BusStep(c)
  <2>1. PICK step \in {"connect", "load", "daemon_reload"} : Due(c, step)
    BY <1>2 DEF BusStep
  <2>2. (Pass(c) \/ Miss(c)) /\ UNCHANGED unit
    BY <1>2 DEF BusStep, Ask
  <2>3. step \notin ChangeKinds \cup Reads /\ step # "check" /\ step # "require" /\ step # "open"
    BY DEF ChangeKinds, Reads, Jobs, Files
  <2>4. CASE Pass(c)
    BY <2>1, <2>2, <2>3, <2>4, PassStep
  <2>5. CASE Miss(c)
    BY <2>1, <2>2, <2>3, <2>5, MissStep
  <2> QED
    BY <2>2, <2>4, <2>5
<1>3. CASE ReadStep(c)
  <2> DEFINE u == Now(c).on
  <2>1. UNCHANGED unit
    BY <1>3 DEF ReadStep
  <2>2. \/ Due(c, "active") /\ \E read \in {{}, {unit[u].active}} : See(c, "active", read)
        \/ Due(c, "enabled") /\ \E read \in {{}, {unit[u].enabled}} : See(c, "enabled", read)
    BY <1>3 DEF ReadStep
  <2>3. \A step \in {"active", "enabled"} : Due(c, step) => FactsOf(call[c]) = UnitFacts(u)
    BY First DEF FactsOf
  <2>4. <<"active", unit[u].active>> \in UnitFacts(u) /\ <<"enabled", unit[u].enabled>> \in UnitFacts(u)
    BY DEF UnitFacts
  <2> HIDE DEF u
  <2>5. "active" \in Reads /\ "enabled" \in Reads
    BY DEF Reads
  <2>6. CASE Due(c, "active") /\ \E read \in {{}, {unit[u].active}} : See(c, "active", read)
    <3>1. PICK read \in {{}, {unit[u].active}} : See(c, "active", read)
      BY <2>6
    <3>2. /\ \A v \in read : <<"active", v>> \in FactsOf(call[c])
          /\ \A v, w \in read : v = w
      BY <2>3, <2>4, <2>6
    <3> QED
      BY <2>1, <2>5, <2>6, <3>1, <3>2, SeeStep
  <2>7. CASE Due(c, "enabled") /\ \E read \in {{}, {unit[u].enabled}} : See(c, "enabled", read)
    <3>1. PICK read \in {{}, {unit[u].enabled}} : See(c, "enabled", read)
      BY <2>7
    <3>2. /\ \A v \in read : <<"enabled", v>> \in FactsOf(call[c])
          /\ \A v, w \in read : v = w
      BY <2>3, <2>4, <2>7
    <3> QED
      BY <2>1, <2>5, <2>7, <3>1, <3>2, SeeStep
  <2> QED
    BY <2>2, <2>6, <2>7
<1>4. CASE ChangeStep(c)
  <2>1. PICK kind \in Jobs \cup Files : Due(c, kind) /\ (Do(c) \/ Miss(c))
    BY <1>4, Zenon DEF ChangeStep
  <2>2. kind \in ChangeKinds /\ kind # "check" /\ kind # "require"
    BY DEF ChangeKinds, Jobs, Files
  <2>3. Step(c)
    <3>1. CASE Do(c)
      BY <2>1, <2>2, <3>1, DoStep
    <3>2. CASE Miss(c)
      BY <2>1, <2>2, <3>2, MissStep
    <3> QED
      BY <2>1, <3>1, <3>2
  <2>4. call[c].todo[1].do \notin Reads
    BY <2>1, <2>2, First, StepKinds
  <2> QED
    BY <2>3, <2>4
<1> QED
  BY <1>1, <1>2, <1>3, <1>4 DEF UnitStep

\* The steps on the mixer are steps of their calls.
LEMMA MixerSteps ==
  ASSUME NEW c \in Callers, CallsInv, MixerStep(c)
  PROVE  Step(c) /\ (call[c].todo[1].do \in Reads => UNCHANGED mixerVars)
<1>1. CASE OpenStep(c)
  <2>1. UNCHANGED mixerVars
    BY <1>1 DEF OpenStep
  <2>2. /\ "open" \notin ChangeKinds \cup Reads /\ "open" # "require" /\ "open" # "check"
        /\ "card" \notin ChangeKinds \cup Reads /\ "card" # "require" /\ "card" # "check" /\ "card" # "open"
    BY DEF ChangeKinds, Reads, Jobs, Files
  <2>3. CASE Due(c, "open") /\ Find(Now(c).on) # "none" /\ Pass(c)
    BY <2>1, <2>2, <2>3, PassStep
  <2>4. CASE Due(c, "open") /\ Miss(c)
    BY <2>1, <2>2, <2>4, MissStep
  <2>5. CASE Due(c, "card") /\ Pass(c)
    BY <2>1, <2>2, <2>5, PassStep
  <2>6. CASE Due(c, "card") /\ Miss(c)
    BY <2>1, <2>2, <2>6, MissStep
  <2> QED
    BY <1>1, <2>3, <2>4, <2>5, <2>6 DEF OpenStep, Ask
<1>2. ASSUME NEW kind \in {"set_volume", "set_mute", "gain"}, Due(c, kind), Do(c) \/ Miss(c)
      PROVE  Step(c) /\ call[c].todo[1].do \notin Reads
  <2>1. kind \in ChangeKinds /\ kind # "check" /\ kind # "require"
    BY DEF ChangeKinds
  <2>2. CASE Do(c)
    BY <1>2, <2>1, <2>2, DoStep, First, StepKinds
  <2>3. CASE Miss(c)
    BY <1>2, <2>1, <2>3, MissStep, First, StepKinds
  <2> QED
    BY <1>2, <2>2, <2>3
<1>3. CASE LevelStep(c)
  <2>1. Due(c, "set_volume") /\ (Do(c) \/ Miss(c))
    BY <1>3 DEF LevelStep
  <2> QED
    BY <1>2, <2>1
<1>4. CASE SwitchStep(c)
  <2>1. Due(c, "set_mute") /\ (Do(c) \/ Miss(c))
    BY <1>4 DEF SwitchStep
  <2> QED
    BY <1>2, <2>1
<1>5. CASE GainStep(c)
  <2>1. Due(c, "gain") /\ Do(c)
    BY <1>5 DEF GainStep
  <2> QED
    BY <1>2, <2>1
<1>6. CASE ReadVolumeStep(c)
  <2> DEFINE m == Find(Now(c).on)
  <2>1. UNCHANGED mixerVars
    BY <1>6 DEF ReadVolumeStep
  <2>2. \/ Due(c, "percent") /\ See(c, "percent", {ReadPercent(m)})
        \/ Due(c, "muted") /\ See(c, "muted", {ReadMuted(m)})
        \/ (Due(c, "percent") \/ Due(c, "muted")) /\ Miss(c)
    BY <1>6 DEF ReadVolumeStep
  <2>3. "percent" \in Reads /\ "muted" \in Reads
    BY DEF Reads
  <2>4. ASSUME NEW step \in {"percent", "muted"}, Due(c, step)
        PROVE  /\ <<"percent", ReadPercent(m)>> \in FactsOf(call[c])
               /\ <<"muted", ReadMuted(m)>> \in FactsOf(call[c])
    <3>1. CallTyped(call[c]) /\ call[c].todo # <<>> /\ call[c].todo[1].do = step /\ Now(c) = call[c].todo[1]
      BY <2>4, First
    <3>2. Opened(call[c]) /\ 1 \in DOMAIN call[c].todo
      BY <3>1, Items DEF CallsInv, CallInv
    <3>3. \A j : j \notin 1..(1 - 1)
      OBVIOUS
    <3>4. m # "none"
      BY <3>1, <3>2, <3>3 DEF Opened
    <3>5. FactsOf(call[c]) = MixerFacts(Now(c).on)
      BY <3>1 DEF FactsOf
    <3> QED
      BY <3>4, <3>5 DEF MixerFacts
  <2> HIDE DEF m
  <2>5. CASE Due(c, "percent") /\ See(c, "percent", {ReadPercent(m)})
    <3>1. \A v \in {ReadPercent(m)} : <<"percent", v>> \in FactsOf(call[c])
      BY <2>4, <2>5
    <3>2. \A v, w \in {ReadPercent(m)} : v = w
      OBVIOUS
    <3> QED
      BY <2>1, <2>3, <2>5, <3>1, <3>2, SeeStep
  <2>6. CASE Due(c, "muted") /\ See(c, "muted", {ReadMuted(m)})
    <3>1. \A v \in {ReadMuted(m)} : <<"muted", v>> \in FactsOf(call[c])
      BY <2>4, <2>6
    <3>2. \A v, w \in {ReadMuted(m)} : v = w
      OBVIOUS
    <3> QED
      BY <2>1, <2>3, <2>6, <3>1, <3>2, SeeStep
  <2>7. CASE (Due(c, "percent") \/ Due(c, "muted")) /\ Miss(c)
    <3>1. PICK step \in {"percent", "muted"} : Due(c, step)
      BY <2>7
    <3>2. step # "check" /\ step # "require"
      OBVIOUS
    <3> QED
      BY <2>1, <2>7, <3>1, <3>2, MissStep
  <2> QED
    BY <2>2, <2>5, <2>6, <2>7
<1> QED
  BY <1>1, <1>3, <1>4, <1>5, <1>6 DEF MixerStep

\* The steps on the adapter, of a precondition and of an event, too.
LEMMA OtherSteps ==
  ASSUME NEW c \in Callers, CallsInv, RequireStep(c) \/ AdapterStep(c) \/ PublishStep(c)
  PROVE  Step(c) /\ call[c].todo[1].do \notin Reads
<1>1. CASE RequireStep(c)
  <2>1. Due(c, "require") /\ IF A2dpEnabled THEN Pass(c) ELSE Miss(c)
    BY <1>1 DEF RequireStep
  <2>2. "require" \notin ChangeKinds \cup Reads /\ "require" # "check" /\ "require" # "open"
    BY StepKinds
  <2>3. CASE A2dpEnabled
    BY <2>1, <2>2, <2>3, PassStep, First
  <2>4. CASE ~A2dpEnabled
    BY <2>1, <2>2, <2>4, MissStep, First
  <2> QED
    BY <2>3, <2>4
<1>2. CASE PublishStep(c)
  <2>1. Due(c, "publish") /\ Pass(c)
    BY <1>2 DEF PublishStep
  <2>2. /\ "publish" \notin ChangeKinds \cup Reads /\ "publish" # "check" /\ "publish" # "open"
        /\ "publish" # "require"
    BY StepKinds
  <2> QED
    BY <2>1, <2>2, PassStep, First
<1>3. CASE AdapterStep(c)
  <2>1. CASE Due(c, "timeout") /\ Ask(c)
    <3>1. /\ "timeout" \notin ChangeKinds \cup Reads /\ "timeout" # "check" /\ "timeout" # "open"
          /\ "timeout" # "require"
      BY DEF ChangeKinds, Reads, Jobs, Files
    <3>2. CASE Pass(c)
      BY <2>1, <3>1, <3>2, PassStep, First
    <3>3. CASE Miss(c)
      BY <2>1, <3>1, <3>3, MissStep, First
    <3> QED
      BY <2>1, <3>2, <3>3 DEF Ask
  <2>2. CASE \E on \in BOOLEAN : Due(c, IF on THEN "on" ELSE "off") /\ (Do(c) \/ Miss(c))
    <3>1. PICK kind \in {"on", "off"} : Due(c, kind) /\ (Do(c) \/ Miss(c))
      BY <2>2
    <3>2. kind \in ChangeKinds /\ kind \notin Reads /\ kind # "check" /\ kind # "require"
      BY DEF ChangeKinds, Reads
    <3>3. CASE Do(c)
      BY <3>1, <3>2, <3>3, DoStep, First
    <3>4. CASE Miss(c)
      BY <3>1, <3>2, <3>4, MissStep, First
    <3> QED
      BY <3>1, <3>3, <3>4
  <2> QED
    BY <1>3, <2>1, <2>2 DEF AdapterStep
<1> QED
  BY <1>1, <1>2, <1>3

-----------------------------------------------------------------------------
(* Requests. *)

Begins(c) == /\ call[c] = NoCall /\ call' = [call EXCEPT ![c] = call'[c]]
             /\ CallInv(call'[c]) /\ call'[c].saw = {} /\ call'[c].did = {}

\* A call with a script that has something to do begins.
LEMMA NewBegins ==
  ASSUME NEW c \in Callers, CallsInv, NEW op, NEW on, NEW arg, NEW q, q # <<>>, Begin(c, op, on, arg, q),
         CallInv(New(op, on, arg, q))
  PROVE  Begins(c)
<1> DEFINE r == New(op, on, arg, q)
<1>1. r.saw = {} /\ r.did = {}
  BY DEF New
<1> HIDE DEF r
<1>2. call[c] = NoCall /\ call' = [call EXCEPT ![c] = r]
  BY BeginShape, Zenon DEF Begin, r
<1>3. call'[c] = r /\ call' = [call EXCEPT ![c] = call'[c]]
  BY <1>2, OneChanges
<1> QED
  BY <1>1, <1>2, <1>3, Zenon DEF Begins, r

\* A job is asked for.
LEMMA JobBegins ==
  ASSUME NEW c \in Callers, CallsInv, NEW u \in Units, NEW kind \in Jobs, Begin(c, kind, u, 0, Job(kind, u))
  PROVE  Begins(c)
  BY JobScript, NewJob, NewBegins DEF Steps

\* SystemdService is asked to act on a unit.
LEMMA UnitBegins ==
  ASSUME NEW c \in Callers, CallsInv, RequestUnit(c)
  PROVE  Begins(c)
<1>1. PICK u \in Units, kind \in Jobs \cup Files \cup {"status"} :
        Begin(c, kind, u, 0, IF kind = "status" THEN Status(u)
                               ELSE IF kind \in Jobs THEN Job(kind, u) ELSE File(kind, u))
  BY Zenon DEF RequestUnit
<1>2. "status" \notin Jobs \cup Files /\ Jobs \cap Files = {}
  BY DEF Jobs, Files
<1>3. CASE kind = "status"
  <2>1. Begin(c, kind, u, 0, Status(u))
    BY <1>1, <1>3, Zenon
  <2>2. Status(u) # <<>> /\ CallInv(New(kind, u, 0, Status(u)))
    BY <1>3, StatusScript, NewStatus DEF Steps
  <2> QED
    BY <2>1, <2>2, NewBegins
<1>4. CASE kind \in Jobs
  <2>1. Begin(c, kind, u, 0, Job(kind, u))
    BY <1>1, <1>2, <1>4, Zenon
  <2> QED
    BY <1>4, <2>1, JobBegins
<1>5. CASE kind \in Files
  <2>1. kind # "status" /\ kind \notin Jobs
    BY <1>2, <1>5
  <2>2. Begin(c, kind, u, 0, File(kind, u))
    BY <1>1, <2>1, Zenon
  <2>3. File(kind, u) # <<>> /\ CallInv(New(kind, u, 0, File(kind, u)))
    BY <1>5, FileScript, NewFile DEF Steps
  <2> QED
    BY <2>2, <2>3, NewBegins
<1> QED
  BY <1>1, <1>3, <1>4, <1>5

\* SystemdService is asked for a list.
LEMMA ListBegins ==
  ASSUME NEW c \in Callers, CallsInv, RequestList(c)
  PROVE  Begins(c)
<1> DEFINE r == Left([NoCall EXCEPT !.op = "list", !.on = "none", !.arg = 0], List)
<1>1. CallInv(r)
  BY NewList
<1>2. r.saw = {} /\ r.did = {}
  <2>1. CASE List = <<>>
    BY <2>1 DEF Left, Ended, NoCall
  <2>2. CASE List # <<>>
    <3>1. r = New("list", "none", 0, List)
      BY <2>2, BeginShape
    <3> HIDE DEF r
    <3> QED
      BY <3>1 DEF New
  <2> QED
    BY <2>1, <2>2
<1>3. call[c] = NoCall /\ call' = [call EXCEPT ![c] = r]
  BY Zenon DEF RequestList, Begin
<1> HIDE DEF r
<1>4. call'[c] = r /\ call' = [call EXCEPT ![c] = call'[c]]
  BY <1>3, OneChanges
<1> QED
  BY <1>1, <1>2, <1>3, <1>4, Zenon DEF Begins

\* BluetoothService is asked.
LEMMA A2dpBegins ==
  ASSUME NEW c \in Callers, CallsInv, RequestA2dp(c)
  PROVE  Begins(c)
<1>1. CASE Begin(c, "a2dp_enable", A2dpUnit, 0, A2dpEnable)
  <2>1. A2dpEnable # <<>>
    BY EnableScript DEF Steps
  <2> QED
    BY <1>1, <2>1, NewEnable, NewBegins
<1>2. CASE Begin(c, "a2dp_disable", A2dpUnit, 0, A2dpDisable)
  <2>1. A2dpDisable # <<>>
    BY DisableScript DEF Steps
  <2> QED
    BY <1>2, <2>1, NewDisable, NewBegins
<1>3. ASSUME NEW on \in BOOLEAN,
             Begin(c, IF on THEN "on" ELSE "off", "adapter", 0, SetDiscoverable(on, "Internal"))
      PROVE  Begins(c)
  <2> DEFINE a == IF on THEN "on" ELSE "off"
             q == SetDiscoverable(on, "Internal")
  <2>1. "Internal" \in (Statuses \ {"Ok"}) \cup Blocks
    BY Words
  <2>2. q # <<>>
    BY <2>1, DiscoverableScript DEF Steps
  <2>3. CallInv(New(a, "adapter", 0, q)) /\ Begin(c, a, "adapter", 0, q)
    BY <1>3, NewDiscoverable
  <2> HIDE DEF a, q
  <2> QED
    BY <2>2, <2>3, NewBegins
<1> QED
  BY <1>1, <1>2, <1>3, Zenon DEF RequestA2dp

\* VolumeService is asked.
LEMMA VolumeBegins ==
  ASSUME NEW c \in Callers, CallsInv, RequestVolume(c)
  PROVE  Begins(c)
<1>1. CASE Begin(c, "list_mixers", "none", 0, ListMixers)
  <2>1. ListMixers # <<>>
    BY MixersScript DEF Steps
  <2> QED
    BY <1>1, <2>1, NewMixers, NewBegins
<1>2. ASSUME NEW pct \in Percents, Begin(c, "gain", "stream", pct, SetStreamVolume)
      PROVE  Begins(c)
  <2>1. SetStreamVolume # <<>>
    BY StreamScript DEF Steps
  <2>2. pct \in Nat
    BY HostAssumption
  <2> QED
    BY <1>2, <2>1, <2>2, NewStream, NewBegins
<1>3. ASSUME NEW sel \in {"Master", "PCM"}, Begin(c, "get_volume", sel, 0, GetVolume(sel))
      PROVE  Begins(c)
  <2>1. GetVolume(sel) # <<>>
    BY VolumeScript DEF Steps
  <2> QED
    BY <1>3, <2>1, NewVolume, NewBegins
<1>4. ASSUME NEW sel \in {"Master", "PCM"}, NEW kind \in {"set_volume", "set_mute"}, NEW arg \in Nat,
             Begin(c, kind, sel, arg, SetLevel(kind, sel))
      PROVE  Begins(c)
  <2>1. SetLevel(kind, sel) # <<>>
    BY LevelScript DEF Steps
  <2> QED
    BY <1>4, <2>1, NewLevel, NewBegins
<1>5. \A pct \in Percents : pct \in Nat
  BY HostAssumption
<1>6. \A mute \in {0, 1} : mute \in Nat
  OBVIOUS
<1>7. "set_volume" \in {"set_volume", "set_mute"} /\ "set_mute" \in {"set_volume", "set_mute"}
  OBVIOUS
<1> QED
  BY <1>1, <1>2, <1>3, <1>4, <1>5, <1>6, <1>7, Zenon DEF RequestVolume

-----------------------------------------------------------------------------
(* Every step of the system. *)

Changing == \/ call' = call
            \/ \E c \in Callers : Begins(c)
            \/ \E c \in Callers : Step(c) /\ (call[c].todo[1].do \in Reads => UNCHANGED <<unit, mixerVars>>)
            \/ \E over : Forget(over)

\* ConfigService: its steps change at most one call.
LEMMA PutChanging ==
  ASSUME CallsInv, PutNext, UNCHANGED mixerVars
  PROVE  Changing
<1>1. \A w \in Puts : w \in Callers
  BY PutConfigAssumption
<1>2. ASSUME NEW w \in Puts, PutStep(w) /\ UNCHANGED <<call, unit, loaded>>
      PROVE  Changing
  BY <1>2, Zenon DEF Changing
<1>3. ASSUME NEW w \in Puts, Act(w)
      PROVE  Changing
  <2>1. CASE UNCHANGED call
    BY <2>1, Zenon DEF Changing
  <2>2. ASSUME NEW kind \in {"reload", "restart"}, Begin(w, kind, BoundUnit, 0, Job(kind, BoundUnit))
        PROVE  Changing
    <3>1. kind \in Jobs /\ BoundUnit \in Units
      BY PutConfigAssumption DEF Jobs
    <3>2. Begins(w)
      BY <1>1, <2>2, <3>1, JobBegins
    <3> QED
      BY <1>1, <3>2 DEF Changing
  <2> QED
    BY <1>3, <2>1, <2>2, Zenon DEF Act
<1>4. ASSUME NEW w \in Puts, Acted(w) \/ ActOver(w)
      PROVE  Changing
  BY <1>4, Zenon DEF Acted, ActOver, Changing
<1>5. ASSUME NEW w \in Puts, UnitStep(w)
      PROVE  Changing
  BY <1>1, <1>5, UnitSteps DEF Changing
<1>6. ASSUME NEW w \in Puts, PublishStep(w)
      PROVE  Changing
  BY <1>1, <1>6, OtherSteps DEF Changing
<1>7. CASE Read /\ UNCHANGED <<call, unit, loaded>>
  BY <1>7, Zenon DEF Changing
<1>8. CASE Restart /\ Forget(Puts) /\ UNCHANGED <<unit, loaded>>
  BY <1>8, Zenon DEF Changing
<1>9. CASE Load
  BY <1>9, Zenon DEF Load, Changing
<1> QED
  BY <1>2, <1>3, <1>4, <1>5, <1>6, <1>7, <1>8, <1>9, Zenon DEF PutNext

\* Every step of the system changes at most one call, and since follows it.
LEMMA HostChanging ==
  ASSUME CallsInv, HostNext
  PROVE  Changing /\ Follow(Facts')
<1>1. \A c \in Clients : c \in Callers
  BY HostAssumption
<1>2. ASSUME NEW c \in Clients, OnUnits, UNCHANGED <<unit, discoverable>>,
             RequestUnit(c) \/ RequestList(c) \/ RequestA2dp(c) \/ RequireStep(c) \/ PublishStep(c)
      PROVE  Changing
  <2>1. CASE RequestUnit(c) \/ RequestList(c) \/ RequestA2dp(c)
    <3>1. Begins(c)
      BY <1>1, <2>1, UnitBegins, ListBegins, A2dpBegins
    <3> QED
      BY <1>1, <3>1 DEF Changing
  <2>2. CASE RequireStep(c) \/ PublishStep(c)
    BY <1>1, <2>2, OtherSteps DEF Changing
  <2> QED
    BY <1>2, <2>1, <2>2
<1>3. ASSUME NEW c \in Clients, OnUnits, UnitStep(c)
      PROVE  Changing
  <2>1. UNCHANGED mixerVars
    BY <1>3 DEF OnUnits
  <2> QED
    BY <1>1, <1>3, <2>1, UnitSteps DEF Changing
<1>4. ASSUME NEW c \in Clients, AdapterStep(c)
      PROVE  Changing
  BY <1>1, <1>4, OtherSteps DEF Changing
<1>5. ASSUME NEW c \in Clients, RequestVolume(c) \/ PublishStep(c)
      PROVE  Changing
  <2>1. CASE RequestVolume(c)
    <3>1. Begins(c)
      BY <1>1, <2>1, VolumeBegins
    <3> QED
      BY <1>1, <3>1 DEF Changing
  <2>2. CASE PublishStep(c)
    BY <1>1, <2>2, OtherSteps DEF Changing
  <2> QED
    BY <1>5, <2>1, <2>2
<1>6. ASSUME NEW c \in Clients, OnMixer, MixerStep(c)
      PROVE  Changing
  <2>1. UNCHANGED unit
    BY <1>6 DEF OnMixer
  <2> QED
    BY <1>1, <1>6, <2>1, MixerSteps DEF Changing
<1>7. ASSUME UNCHANGED call
      PROVE  Changing
  <2>1. call' = call
    BY <1>7
  <2> QED
    BY <2>1 DEF Changing
<1>8. ASSUME OnConfig, PutNext
      PROVE  Changing
  <2>1. PutNext
    BY <1>8, Zenon
  <2>2. UNCHANGED mixerVars
    BY <1>8, Zenon DEF OnConfig
  <2> QED
    BY <2>1, <2>2, PutChanging
<1>9. Changing
  BY <1>2, <1>3, <1>4, <1>5, <1>6, <1>7, <1>8, Zenon DEF HostNext
<1> QED
  BY <1>9, Zenon DEF HostNext

\* No call at all.
LEMMA NoneInv == CallInv(NoCall) /\ \A s : Fresh(NoCall, s)
<1> DEFINE r == NoCall
<1>1. /\ r.op = "none" /\ r.on = "none" /\ r.arg = 0 /\ r.todo = <<>> /\ r.saw = {} /\ r.did = {}
      /\ r.reply = "none" /\ DOMAIN r.todo = {} /\ r.todo \in Seq(Item)
  BY DEF NoCall
<1>2. r = [op |-> r.op, on |-> r.on, arg |-> r.arg, todo |-> r.todo, saw |-> r.saw, did |-> r.did,
           reply |-> r.reply]
  BY DEF NoCall
<1> HIDE DEF r
<1>3. "none" \in Names /\ 0 \in Nat /\ "none" \notin Refusals
  BY Words DEF Refusals
<1>4. CallTyped(r)
  BY <1>1, <1>2, <1>3 DEF CallTyped
<1>5. Checked(r)
  BY <1>1 DEF Checked
<1>6. Early(r)
  BY <1>1, <1>3 DEF Early
<1>7. Settled(r)
  BY <1>1 DEF Settled
<1>8. Opened(r) /\ OnSubject(r) /\ Reread(r)
  BY <1>1 DEF Opened, OnSubject, Reread
<1>9. \A s : Fresh(r, s)
  BY <1>1 DEF Fresh
<1> QED
  BY <1>4, <1>5, <1>6, <1>7, <1>8, <1>9 DEF CallInv, r

\* A step that reads for an event reads what is so of its subject.
LEMMA ReadsFacts ==
  ASSUME NEW c \in Callers, CallsInv, Step(c), UNCHANGED <<unit, mixerVars>>,
         call[c].todo[1].do \in Reads, NEW k \in DOMAIN call'[c].todo, call'[c].todo[k].do = "publish"
  PROVE  FactsOf(call[c]) \subseteq Facts'[call'[c].on]
<1> DEFINE r == call[c]
           r2 == call'[c]
           on == r.todo[1].on
<1>1. /\ CallTyped(r) /\ OnSubject(r) /\ Moves(r, r2, FactsOf(r)) /\ r.todo[1].do \in Reads
      /\ k \in DOMAIN r2.todo /\ r2.todo[k].do = "publish"
  BY DEF CallsInv, CallInv, Step
<1>2. FactsOf(r) = IF r.todo[1].do \in {"active", "enabled"} THEN UnitFacts(on) ELSE MixerFacts(on)
  BY DEF FactsOf
<1>3. \A u : UnitFacts(u)' = UnitFacts(u) /\ MixerFacts(u)' = MixerFacts(u)
  BY DEF UnitFacts, MixerFacts, mixerVars, ReadPercent, ReadMuted
<1>4. \A u \in {"Master", "PCM"} : u \notin Units
  BY HostAssumption
<1>5. \A u \in Units \cup {"Master", "PCM"} : Facts'[u] = IF u \in Units THEN UnitFacts(u)' ELSE MixerFacts(u)'
  BY DEF Facts
<1> HIDE DEF r, r2
<1>6. r2.on = r.on
  BY <1>1, Moved
<1>7. r2.todo # <<>>
  BY <1>1
<1>8. PICK n \in 1..Len(r.todo) : k + n \in DOMAIN r.todo /\ r2.todo[k] = r.todo[k + n] /\ Rest(r.todo, r2.todo, n)
  BY <1>1, <1>7, RestOf
<1>9. 1 \in DOMAIN r.todo /\ k \in Nat /\ k > 0 /\ n \in Nat /\ n > 0
  BY <1>1, <1>8 DEF Rest
<1>10. 1 < k + n
  BY <1>9
<1>11. r.todo[k + n].do = "publish"
  BY <1>1, <1>8
<1>12. /\ on = r.on
       /\ IF r.todo[1].do \in {"active", "enabled"} THEN r.on \in Units ELSE r.on \in {"Master", "PCM"}
  BY <1>1, <1>8, <1>9, <1>10, <1>11 DEF OnSubject
<1>13. FactsOf(r) \subseteq Facts'[r2.on]
  BY <1>2, <1>3, <1>4, <1>5, <1>6, <1>12
<1> QED
  BY <1>13 DEF r, r2

\* The invariant of the calls is inductive.
LEMMA CallsKept ==
  ASSUME CallsInv, Changing, Follow(Facts')
  PROVE  CallsInv'
<1>1. since' = [c \in Callers |-> IF ~Publishes(call'[c]) THEN {}
                ELSE (IF call'[c].did # call[c].did THEN {} ELSE since[c]) \cup Facts'[call'[c].on]]
  BY DEF Follow
<1>2. since' = [c \in Callers |-> since'[c]]
  BY <1>1
<1>3. ASSUME NEW c \in Callers, Publishes(call'[c])
      PROVE  /\ call'[c].did = call[c].did => since[c] \subseteq since'[c]
             /\ Facts'[call'[c].on] \subseteq since'[c]
  BY <1>1, <1>3
<1>4. /\ call = [c \in Callers |-> call[c]]
      /\ \A c \in Callers : CallInv(call[c]) /\ Fresh(call[c], since[c])
  BY DEF CallsInv
<1>5. call' = [c \in Callers |-> call'[c]]
  <2>1. ASSUME NEW c \in Callers, call' = [call EXCEPT ![c] = call'[c]]
        PROVE  call' = [b \in Callers |-> call'[b]]
    BY <1>4, <2>1
  <2>2. ASSUME NEW over, Forget(over)
        PROVE  call' = [b \in Callers |-> call'[b]]
    BY <2>2 DEF Forget
  <2> QED
    BY <1>4, <2>1, <2>2 DEF Changing, Begins, Step
<1>6. ASSUME NEW c \in Callers, call'[c] = call[c]
      PROVE  CallInv(call'[c]) /\ Fresh(call'[c], since'[c])
  <2>1. Publishes(call'[c]) => since[c] \subseteq since'[c]
    BY <1>3, <1>6
  <2> QED
    BY <1>4, <1>6, <2>1 DEF Fresh, Publishes
<1>7. ASSUME NEW c \in Callers, call'[c] = NoCall
      PROVE  CallInv(call'[c]) /\ Fresh(call'[c], since'[c])
  BY <1>7, NoneInv
<1>8. ASSUME NEW c \in Callers, Begins(c)
      PROVE  CallInv(call'[c]) /\ Fresh(call'[c], since'[c])
  BY <1>8 DEF Begins, Fresh
<1>9. ASSUME NEW c \in Callers, Step(c), call[c].todo[1].do \in Reads => UNCHANGED <<unit, mixerVars>>
      PROVE  CallInv(call'[c]) /\ Fresh(call'[c], since'[c])
  <2>1. Moves(call[c], call'[c], FactsOf(call[c]))
    BY <1>9 DEF Step
  <2>2. CallInv(call'[c])
    BY <1>4, <2>1, MovesKeep
  <2>3. ASSUME NEW k \in DOMAIN call'[c].todo, call'[c].todo[k].do = "publish"
        PROVE  /\ call'[c].did = call[c].did => since[c] \subseteq since'[c]
               /\ call[c].todo[1].do \in Reads => FactsOf(call[c]) \subseteq since'[c]
    <3>1. Publishes(call'[c])
      BY <2>3 DEF Publishes
    <3>2. call[c].todo[1].do \in Reads => FactsOf(call[c]) \subseteq Facts'[call'[c].on]
      BY <1>9, <2>3, ReadsFacts
    <3> QED
      BY <1>3, <3>1, <3>2
  <2>4. Fresh(call'[c], since'[c])
    BY <1>4, <2>1, <2>3, MovesFresh
  <2> QED
    BY <2>2, <2>4
<1>10. ASSUME NEW c \in Callers
       PROVE  CallInv(call'[c]) /\ Fresh(call'[c], since'[c])
  <2>1. CASE call' = call
    BY <1>6, <2>1
  <2>2. ASSUME NEW b \in Callers, Begins(b)
        PROVE  CallInv(call'[c]) /\ Fresh(call'[c], since'[c])
    <3>1. b # c => call'[c] = call[c]
      BY <1>4, <2>2 DEF Begins
    <3> QED
      BY <1>6, <1>8, <2>2, <3>1
  <2>3. ASSUME NEW b \in Callers, Step(b), call[b].todo[1].do \in Reads => UNCHANGED <<unit, mixerVars>>
        PROVE  CallInv(call'[c]) /\ Fresh(call'[c], since'[c])
    <3>1. b # c => call'[c] = call[c]
      BY <1>4, <2>3 DEF Step
    <3> QED
      BY <1>6, <1>9, <2>3, <3>1
  <2>4. ASSUME NEW over, Forget(over)
        PROVE  CallInv(call'[c]) /\ Fresh(call'[c], since'[c])
    <3>1. call'[c] = NoCall \/ call'[c] = call[c]
      BY <2>4 DEF Forget
    <3> QED
      BY <1>6, <1>7, <3>1
  <2> QED
    BY <2>1, <2>2, <2>3, <2>4 DEF Changing
<1> QED
  BY <1>2, <1>5, <1>10 DEF CallsInv

-----------------------------------------------------------------------------
(* What follows of the calls.                                              *)

\* Before the first call.
LEMMA CallsStart == HostInit => CallsInv
<1> SUFFICES ASSUME HostInit
             PROVE  CallsInv
  OBVIOUS
<1>1. call = [c \in Callers |-> NoCall] /\ since = [c \in Callers |-> {}]
  BY DEF HostInit, PutInit, CallsInit
<1>2. \A c \in Callers : call[c] = NoCall /\ since[c] = {}
  BY <1>1
<1>3. call = [c \in Callers |-> call[c]] /\ since = [c \in Callers |-> since[c]]
  BY <1>1
<1> QED
  BY <1>2, <1>3, NoneInv DEF CallsInv

\* What is true of each call stays so: CallsInv is inductive.
THEOREM CallsAlways == HostSpec => []CallsInv
<1>1. HostInit => CallsInv
  BY CallsStart
<1>2. CallsInv /\ [HostNext]_hostVars => CallsInv'
  <2> SUFFICES ASSUME CallsInv, [HostNext]_hostVars
               PROVE  CallsInv'
    OBVIOUS
  <2>1. CASE HostNext
    BY <2>1, HostChanging, CallsKept
  <2>2. CASE UNCHANGED hostVars
    <3>1. call' = call /\ since' = since
      BY <2>2 DEF hostVars, putVars, scriptVars
    <3> QED
      BY <3>1 DEF CallsInv
  <2> QED
    BY <2>1, <2>2
<1> QED
  BY <1>1, <1>2, PTL DEF HostSpec

\* A call's event says what has been so of its subject since its last change.
LEMMA CallsFresh == CallsInv => EventIsFresh
<1> SUFFICES ASSUME CallsInv, NEW c \in Callers, Due(c, "publish"), NEW f \in call[c].saw
             PROVE  f \in since[c]
  BY DEF EventIsFresh
<1>1. call[c].todo # <<>> /\ call[c].todo \in Seq(Item)
  BY DEF Due, Busy, CallsInv, CallInv, CallTyped
<1>2. 1 \in DOMAIN call[c].todo /\ Head(call[c].todo) = call[c].todo[1]
  BY <1>1
<1>3. call[c].todo[1].do = "publish"
  BY <1>2 DEF Due, Now
<1>4. f \in since[c] \/ ReadAgain(call[c].todo, f[1], 0, 1)
  BY <1>2, <1>3 DEF CallsInv, Fresh
<1>5. ~ReadAgain(call[c].todo, f[1], 0, 1)
  BY DEF ReadAgain
<1> QED
  BY <1>4, <1>5

\* The types of a call.
LEMMA CallsTyped == CallsInv => CallsTypeOK
<1> SUFFICES ASSUME CallsInv, NEW c \in Callers
             PROVE  /\ call[c].reply \in Statuses \cup {"none"}
                    /\ \A f, g \in call[c].saw : f[1] = g[1] => f = g
                    /\ \A k \in DOMAIN call[c].todo : DOMAIN call[c].todo[k] = {"do", "on", "err"}
  BY DEF CallsTypeOK
<1>1. CallTyped(call[c])
  BY DEF CallsInv, CallInv
<1>2. \A k \in DOMAIN call[c].todo : call[c].todo[k] \in Item
  BY <1>1 DEF CallTyped
<1>3. \A x \in Item : DOMAIN x = {"do", "on", "err"}
  BY DEF Item
<1> QED
  BY <1>1, <1>2, <1>3 DEF CallTyped

\* A refused call has changed nothing, and none has changed a unit that is not listed.
LEMMA CallsListed == CallsInv => OnlyListed
BY DEF CallsInv, CallInv, Early, Checked, OnlyListed, RefusedUntouched, Refusals

\* A call that reports success has no step left, so that it is settled.
LEMMA CallsDone == CallsInv => OkIsDone
<1> SUFFICES ASSUME CallsInv, NEW c \in Callers, call[c].reply = "Ok"
             PROVE  call[c].did \in Changes(call[c])
  BY DEF OkIsDone
<1> DEFINE r == call[c]
<1>1. CallTyped(r) /\ Settled(r)
  BY DEF CallsInv, CallInv
<1>2. r.reply = "Ok"
  OBVIOUS
<1> HIDE DEF r
<1>3. r.todo = <<>> /\ r.op # "none" /\ DOMAIN r.todo = {}
  <2>1. r.todo = <<>>
    BY <1>1, <1>2 DEF CallTyped
  <2> QED
    BY <1>1, <1>2, <2>1 DEF CallTyped
<1>4. (\A x \in r.did : x \in May(r)) /\ \A x \in Must(r) : x \in r.did
  BY <1>1, <1>2, <1>3 DEF Settled
<1>5. r.did \in Changes(r)
  <2>1. CASE r.op = "a2dp_enable"
    BY <1>4, <2>1 DEF Changes, Must, May
  <2>2. CASE r.op = "a2dp_disable"
    <3>1. <<"stop", A2dpUnit>> \in r.did
      BY <1>4, <2>2 DEF Must
    <3>2. \A x \in r.did : x \in {<<"stop", A2dpUnit>>, <<"off", "adapter">>}
      BY <1>4, <2>2 DEF Must, May
    <3> DEFINE stop == <<"stop", A2dpUnit>>
               off == <<"off", "adapter">>
    <3>3. r.did = {stop} \/ r.did = {off, stop}
      <4>1. stop \in r.did /\ \A x \in r.did : x \in {stop, off}
        BY <3>1, <3>2
      <4> HIDE DEF stop, off
      <4> QED
        BY <4>1
    <3> QED
      BY <2>2, <3>3, Zenon DEF Changes
  <2>3. CASE r.op \in {"status", "list", "list_mixers", "get_volume"}
    BY <1>4, <2>3 DEF Changes, Must, May
  <2>4. CASE r.op \notin {"status", "list", "list_mixers", "get_volume", "a2dp_enable", "a2dp_disable"}
    BY <1>4, <2>4 DEF Changes, Must, May
  <2> QED
    BY <2>1, <2>2, <2>3, <2>4
<1> QED
  BY <1>5 DEF r

-----------------------------------------------------------------------------
(* The units, the adapter and the mixer.                                   *)

\* A unit's state stays one that systemd has.
LEMMA UnitsKept ==
  ASSUME UnitsTypeOK, HostNext
  PROVE  UnitsTypeOK'
<1> DEFINE States == {"active", "inactive", "failed"}
           Queue == Jobs \cup {"none"}
           T == [active : States, enabled : BOOLEAN, job : Queue]
<1>1. unit \in [Units -> T]
  BY DEF UnitsTypeOK
<1>2. SUFFICES unit' \in [Units -> T]
  BY DEF UnitsTypeOK
<1>3. CASE unit' = unit
  BY <1>1, <1>3
<1>4. ASSUME NEW c, ChangeStep(c)
      PROVE  unit' \in [Units -> T]
  <2> DEFINE u == Now(c).on
  <2>1. PICK kind \in Jobs \cup Files :
          \/ unit' = unit
          \/ u \in Installed /\ unit' = IF kind \in Jobs THEN [unit EXCEPT ![u].job = kind]
                                        ELSE [unit EXCEPT ![u].enabled = (kind = "enable")]
    BY <1>4, Zenon DEF ChangeStep
  <2> HIDE DEF u
  <2>4. u \in Installed => u \in Units
    BY UnitsAssumption
  <2>2. CASE u \in Units /\ unit' = [unit EXCEPT ![u].job = kind] /\ kind \in Jobs
    BY <1>1, <2>2
  <2>3. CASE u \in Units /\ unit' = [unit EXCEPT ![u].enabled = (kind = "enable")]
    <3>1. (kind = "enable") \in BOOLEAN
      OBVIOUS
    <3> DEFINE on == (kind = "enable")
    <3> HIDE DEF on
    <3> QED
      BY ZenonT(30), <1>1, <2>3, <3>1 DEF on
  <2> QED
    BY <1>1, <2>1, <2>2, <2>3, <2>4
<1>5. ASSUME NEW u \in Units, RunJob(u)
      PROVE  unit' \in [Units -> T]
  <2>1. PICK a : /\ a \in (IF unit[u].job = "stop" THEN {"inactive"}
                           ELSE IF unit[u].job = "reload" THEN {unit[u].active} ELSE {"active", "failed"})
                 /\ unit' = [unit EXCEPT ![u].job = "none", ![u].active = a]
    BY <1>5 DEF RunJob
  <2>2. a \in States
    BY <1>1, <2>1
  <2>3. unit' = [[unit EXCEPT ![u].job = "none"] EXCEPT ![u].active = a]
    BY <2>1
  <2> DEFINE mid == [unit EXCEPT ![u].job = "none"]
  <2>4. mid \in [Units -> T]
    BY <1>1
  <2> HIDE DEF mid
  <2>5. [mid EXCEPT ![u].active = a] \in [Units -> T]
    BY <2>2, <2>4
  <2> QED
    BY <2>3, <2>5 DEF mid
<1>6. \/ unit' = unit
      \/ \E c : ChangeStep(c)
      \/ \E u \in Units : RunJob(u)
  <2>1. ASSUME NEW c, UnitStep(c)
        PROVE  unit' = unit \/ ChangeStep(c)
    BY <2>1, Zenon DEF UnitStep, CheckStep, BusStep, ReadStep
  <2>2. ASSUME PutNext
        PROVE  unit' = unit \/ (\E c : ChangeStep(c)) \/ \E u \in Units : RunJob(u)
    <3>1. CASE Load
      BY <3>1, PutConfigAssumption, Zenon DEF Load
    <3>2. ASSUME NEW w \in Puts, UnitStep(w)
          PROVE  unit' = unit \/ \E c : ChangeStep(c)
      BY <2>1, <3>2
    <3> QED
      BY <2>2, <3>1, <3>2, Zenon DEF PutNext
  <2>3. ASSUME NEW c \in Clients, UnitStep(c)
        PROVE  unit' = unit \/ \E b : ChangeStep(b)
    BY <2>1, <2>3
  <2>4. UNCHANGED unit => unit' = unit
    OBVIOUS
  <2>5. OnMixer => unit' = unit
    BY DEF OnMixer
  <2> QED
    BY <2>2, <2>3, <2>5, Zenon DEF HostNext
<1> QED
  BY <1>3, <1>4, <1>5, <1>6

\* A volume in percent of a range, and back: truncated both times.
LEMMA RangeFacts ==
  ASSUME NEW D \in Nat, NEW p \in 0..100
  PROVE  /\ p * D \in Nat /\ p * D <= 100 * D
         /\ (p * D) \div 100 \in 0..D
         /\ 100 * ((p * D) \div 100) <= p * D /\ p * D <= 100 * ((p * D) \div 100) + 99
<1>1. p * D \in Nat /\ p * D <= 100 * D
  OBVIOUS
<1> DEFINE n == p * D
<1>2. n \in Nat /\ n <= 100 * D
  BY <1>1
<1> HIDE DEF n
<1>3. n \div 100 \in 0..D /\ 100 * (n \div 100) <= n /\ n <= 100 * (n \div 100) + 99
  BY <1>2
<1> QED
  BY <1>1, <1>3 DEF n

\* The percentage of a volume in a range.
LEMMA PartFacts ==
  ASSUME NEW D \in Nat, D >= 1, NEW x \in 0..D
  PROVE  /\ (x * 100) \div D \in 0..100
         /\ ((x * 100) \div D) * D <= x * 100
         /\ x * 100 < ((x * 100) \div D) * D + D
<1> DEFINE n == x * 100
<1>1. n \in Nat /\ n <= 100 * D
  OBVIOUS
<1> HIDE DEF n
<1> DEFINE q == n \div D
<1>2. q \in Int /\ q * D <= n /\ n < q * D + D
  BY <1>1
<1> HIDE DEF q
<1>3. q >= 0
  <2>1. CASE q <= -1
    <3>1. q * D <= -D
      BY <1>2, <2>1
    <3> QED
      BY <1>1, <1>2, <3>1
  <2> QED
    BY <1>2, <2>1
<1>4. q <= 100
  <2>1. CASE q >= 101
    <3>1. q * D >= 101 * D
      BY <1>2, <2>1
    <3> QED
      BY <1>1, <1>2, <3>1
  <2> QED
    BY <1>2, <2>1
<1> QED
  BY <1>2, <1>3, <1>4 DEF n, q

\* A common factor.
LEMMA OrderFacts ==
  ASSUME NEW D \in Nat, D >= 1, NEW p \in Int, NEW q \in Int, q * D <= p * D
  PROVE  q <= p
<1>1. CASE q >= p + 1
  <2>1. q * D >= (p + 1) * D
    BY <1>1
  <2>2. (p + 1) * D = p * D + D
    OBVIOUS
  <2>3. p * D \in Int /\ q * D \in Int
    OBVIOUS
  <2> QED
    BY <2>1, <2>2, <2>3
<1> QED
  BY <1>1

\* What is set is in the range of the element.
LEMMA RawInRange ==
  ASSUME NEW pct \in Nat
  PROVE  /\ AtMost(pct, 100) \in 0..100
         /\ Raw(pct) = Lo + (AtMost(pct, 100) * (Hi - Lo)) \div 100
         /\ Raw(pct) \in Lo..Hi
<1> DEFINE p == AtMost(pct, 100)
           D == Hi - Lo
           x == (p * D) \div 100
<1>1. p \in 0..100
  BY DEF AtMost
<1>2. D \in Nat
  BY MixerAssumption
<1>3. x \in 0..D
  <2> HIDE DEF p, D
  <2> QED
    BY <1>1, <1>2, RangeFacts
<1>4. Raw(pct) = Lo + x
  BY DEF Raw
<1> HIDE DEF x
<1>5. Lo + x \in Lo..Hi
  BY <1>3, MixerAssumption DEF D
<1> QED
  BY <1>1, <1>4, <1>5 DEF x

\* Percent and Raw of a volume of the range.
LEMMA PercentFacts ==
  ASSUME NEW raw \in Lo..Hi
  PROVE  /\ Percent(raw) \in 0..100
         /\ Hi - Lo \in Nat /\ raw - Lo \in 0..(Hi - Lo)
         /\ Hi = Lo => Percent(raw) = 0
         /\ Percent(raw) * (Hi - Lo) <= (raw - Lo) * 100
         /\ Hi # Lo => (raw - Lo) * 100 < Percent(raw) * (Hi - Lo) + (Hi - Lo)
<1> DEFINE D == Hi - Lo
           x == raw - Lo
           q == (x * 100) \div AtLeast(D, 1)
<1>1. D \in Nat /\ x \in 0..D /\ (Hi = Lo <=> D = 0)
  BY MixerAssumption
<1>2. Percent(raw) = AtLeast(0, AtMost(100, q))
  BY DEF Percent
<1>3. ASSUME D = 0
      PROVE  q = 0
  <2>1. x = 0 /\ AtLeast(D, 1) = 1
    BY <1>1, <1>3 DEF AtLeast
  <2> HIDE DEF x, D
  <2> QED
    BY <2>1
<1>4. ASSUME D # 0
      PROVE  q \in 0..100 /\ q * D <= x * 100 /\ x * 100 < q * D + D
  <2>1. D >= 1 /\ AtLeast(D, 1) = D
    BY <1>1, <1>4 DEF AtLeast
  <2> HIDE DEF x, D
  <2> QED
    BY <1>1, <2>1, PartFacts
<1> HIDE DEF q
<1>5. q \in 0..100 /\ Percent(raw) = q
  BY <1>2, <1>3, <1>4 DEF AtLeast, AtMost
<1>6. q * D <= x * 100
  <2>1. CASE D = 0
    <3>1. q = 0
      BY <1>3, <2>1
    <3> HIDE DEF x, D
    <3> QED
      BY <1>1, <2>1, <3>1
  <2> QED
    BY <1>4, <2>1
<1> HIDE DEF x, D
<1>7. /\ Percent(raw) \in 0..100 /\ D \in Nat /\ x \in 0..D /\ (Hi = Lo => Percent(raw) = 0)
      /\ Percent(raw) * D <= x * 100 /\ (Hi # Lo => x * 100 < Percent(raw) * D + D)
  BY <1>1, <1>3, <1>4, <1>5, <1>6
<1> QED
  BY <1>7 DEF x, D

\* The percentages of a mixer whose volume is in its range.
LEMMA LouderFacts ==
  ASSUME NEW raw \in Lo..Hi
  PROVE  /\ Raw(Percent(raw)) <= raw
         /\ \A pct \in Nat : raw = Raw(pct) =>
              /\ Percent(raw) <= AtMost(pct, 100) \/ Hi = Lo
              /\ (AtMost(pct, 100) - Percent(raw)) * (Hi - Lo) <= 100 + (Hi - Lo)
<1> DEFINE D == Hi - Lo
           x == raw - Lo
           q == Percent(raw)
<1>1. /\ q \in 0..100 /\ D \in Nat /\ x \in 0..D /\ (Hi = Lo => q = 0)
      /\ q * D <= x * 100 /\ (Hi # Lo => x * 100 < q * D + D) /\ (Hi = Lo <=> D = 0)
  BY PercentFacts, MixerAssumption
<1>2. Lo \in Int /\ raw \in Int /\ raw = Lo + x
  BY MixerAssumption
<1> HIDE DEF D, x, q
<1>3. Raw(q) <= raw
  <2>1. Raw(q) = Lo + (q * D) \div 100
    BY <1>1 DEF Raw, AtMost, D
  <2> DEFINE n == q * D
  <2>2. n \in Int /\ n <= x * 100
    BY <1>1
  <2> HIDE DEF n
  <2>3. n \div 100 \in Int /\ n \div 100 <= x
    BY <1>1, <2>2
  <2> QED
    BY <1>1, <1>2, <2>1, <2>3 DEF n
<1>4. ASSUME NEW pct \in Nat, raw = Raw(pct)
      PROVE  /\ q <= AtMost(pct, 100) \/ Hi = Lo
             /\ (AtMost(pct, 100) - q) * D <= 100 + D
  <2> DEFINE p == AtMost(pct, 100)
  <2>1. p \in 0..100 /\ Raw(pct) = Lo + (p * D) \div 100
    BY RawInRange DEF D
  <2> HIDE DEF p
  <2> DEFINE n == p * D
             y == n \div 100
  <2>2. n \in Nat /\ y \in 0..D /\ 100 * y <= n /\ n <= 100 * y + 99
    BY <1>1, <2>1, RangeFacts
  <2>3. raw = Lo + y
    BY <1>4, <2>1
  <2> HIDE DEF n, y
  <2>4. y = x
    BY <1>1, <1>2, <2>2, <2>3
  <2>5. q * D <= p * D
    BY <1>1, <2>1, <2>2, <2>4 DEF n
  <2>6. q <= p \/ Hi = Lo
    <3>1. CASE D >= 1
      BY <1>1, <2>1, <2>5, <3>1, OrderFacts
    <3> QED
      BY <1>1, <3>1
  <2>7. (p - q) * D = p * D - q * D
    BY <1>1, <2>1
  <2>8. (p - q) * D <= 100 + D
    <3>1. CASE Hi = Lo
      BY <1>1, <2>1, <3>1
    <3>2. CASE Hi # Lo
      <4>1. q * D \in Int /\ x * 100 < q * D + D /\ p * D <= 100 * x + 99
        BY <1>1, <2>2, <2>4, <3>2 DEF n
      <4> DEFINE a == p * D
                 b == q * D
      <4>2. a \in Int /\ b \in Int
        BY <1>1, <2>1
      <4>3. x * 100 < b + D /\ a <= 100 * x + 99
        BY <4>1
      <4> HIDE DEF a, b
      <4>4. a - b <= 100 + D
        BY <1>1, <4>2, <4>3
      <4> QED
        BY <2>7, <4>4 DEF a, b
    <3> QED
      BY <3>1, <3>2
  <2> QED
    BY <2>6, <2>8 DEF p
<1> QED
  BY <1>3, <1>4 DEF D, q

\* A scaled sample stays between zero and what it was.
LEMMA GainFacts ==
  ASSUME NEW pct \in 0..100, NEW s \in Sample16
  PROVE  LET t == ApplyGain(s, pct) IN (0 <= t /\ t <= s) \/ (s <= t /\ t <= 0)
BY DEF ApplyGain, Sample16

\* The volume that was set last is the one the element has: kept by every step.
LEMMA MixerKept ==
  ASSUME MixerInv, CallsInv, HostNext
  PROVE  MixerInv'
<1>1. /\ level \in [Controls -> Lo..Hi] /\ muted \in [Controls -> BOOLEAN]
      /\ asked \in [Controls -> Int] /\ gain \in 0..100
      /\ \A m \in Controls : asked[m] >= 0 => level[m] = Raw(asked[m])
  BY DEF MixerInv, MixerTypeOK
<1>2. /\ level' \in [Controls -> Lo..Hi] /\ muted' \in [Controls -> BOOLEAN]
      /\ asked' \in [Controls -> Int] /\ gain' \in 0..100
      /\ \A m \in Controls : asked'[m] >= 0 => level'[m] = Raw(asked'[m])
      => MixerInv'
  BY DEF MixerInv, MixerTypeOK, Raw, AtMost
<1>3. CASE UNCHANGED mixerVars
  <2>1. level' = level /\ muted' = muted /\ asked' = asked /\ gain' = gain
    BY <1>3 DEF mixerVars
  <2> QED
    BY <1>1, <1>2, <2>1
<1>4. ASSUME NEW c \in Clients, LevelStep(c)
      PROVE  MixerInv'
  <2> DEFINE m == Find(Now(c).on)
             pct == call[c].arg
  <2>1. pct \in Nat
    BY HostAssumption DEF CallsInv, CallInv, CallTyped
  <2>2. muted' = muted /\ gain' = gain
    BY <1>4 DEF LevelStep
  <2>3. \/ level' = level /\ asked' = asked
        \/ m \in HasVolume /\ level' = [level EXCEPT ![m] = Raw(pct)] /\ asked' = [asked EXCEPT ![m] = pct]
    BY <1>4, Zenon DEF LevelStep
  <2>4. m \in HasVolume => m \in Controls
    BY MixerAssumption
  <2>5. Raw(pct) \in Lo..Hi
    BY <2>1, RawInRange
  <2> HIDE DEF m, pct
  <2> QED
    BY <1>1, <1>2, <2>1, <2>2, <2>3, <2>4, <2>5
<1>5. ASSUME NEW c, SwitchStep(c)
      PROVE  MixerInv'
  <2> DEFINE m == Find(Now(c).on)
             off == (call[c].arg = 1)
  <2>1. level' = level /\ asked' = asked /\ gain' = gain
    BY <1>5 DEF SwitchStep
  <2>2. muted' = muted \/ (m \in HasSwitch /\ muted' = [muted EXCEPT ![m] = off])
    BY <1>5, Zenon DEF SwitchStep
  <2>3. off \in BOOLEAN
    OBVIOUS
  <2> HIDE DEF m, off
  <2> QED
    BY <1>1, <1>2, <2>1, <2>2, <2>3, MixerAssumption
<1>6. ASSUME NEW c \in Clients, GainStep(c)
      PROVE  MixerInv'
  <2>1. call[c].arg \in Nat
    BY HostAssumption DEF CallsInv, CallInv, CallTyped
  <2>2. gain' = AtMost(call[c].arg, 100) /\ level' = level /\ asked' = asked /\ muted' = muted
    BY <1>6 DEF GainStep
  <2>3. gain' \in 0..100
    BY <2>1, <2>2 DEF AtMost
  <2> QED
    BY <1>1, <1>2, <2>2, <2>3
<1>7. ASSUME NEW m \in Controls, Knob(m)
      PROVE  MixerInv'
  <2>1. Hi \in Lo..Hi
    BY MixerAssumption
  <2>2. CASE level' = [level EXCEPT ![m] = Hi] /\ asked' = [asked EXCEPT ![m] = -1] /\ UNCHANGED <<muted, gain>>
    BY <1>1, <1>2, <2>1, <2>2
  <2>3. CASE muted' = [muted EXCEPT ![m] = ~muted[m]] /\ UNCHANGED <<level, asked, gain>>
    BY <1>1, <1>2, <2>3
  <2> QED
    BY <1>7, <2>2, <2>3 DEF Knob
<1>8. ASSUME NEW c \in Clients, MixerStep(c)
      PROVE  MixerInv'
  <2>1. CASE OpenStep(c) \/ ReadVolumeStep(c)
    <3>1. UNCHANGED mixerVars
      BY <2>1, Zenon DEF OpenStep, ReadVolumeStep
    <3> QED
      BY <1>3, <3>1
  <2> QED
    BY <1>4, <1>5, <1>6, <1>8, <2>1, Zenon DEF MixerStep
<1>9. \/ UNCHANGED mixerVars
      \/ \E c \in Clients : MixerStep(c)
      \/ \E m \in Controls : Knob(m)
  <2>1. (OnUnits => UNCHANGED mixerVars) /\ (OnConfig => UNCHANGED mixerVars)
    BY DEF OnUnits, OnConfig
  <2> QED
    BY <2>1, Zenon DEF HostNext
<1> QED
  BY <1>3, <1>7, <1>8, <1>9

\* Before the first call nothing was asked of the mixer.
LEMMA MixerStart == HostInit => MixerInv
<1> SUFFICES ASSUME HostInit
             PROVE  MixerInv
  OBVIOUS
<1>1. /\ level \in [Controls -> {Lo, Hi}] /\ muted = [m \in Controls |-> FALSE]
      /\ asked = [m \in Controls |-> -1] /\ gain = 100
  BY DEF HostInit, MixerInit
<1>2. Lo \in Lo..Hi /\ Hi \in Lo..Hi
  BY MixerAssumption
<1>3. level \in [Controls -> Lo..Hi]
  BY <1>1, <1>2
<1>4. asked \in [Controls -> Int] /\ muted \in [Controls -> BOOLEAN] /\ \A m \in Controls : asked[m] = -1
  BY <1>1
<1> QED
  BY <1>1, <1>3, <1>4 DEF MixerInv, MixerTypeOK

\* The mixer and the samples are never louder than asked.
LEMMA MixerLouder == MixerInv => NeverLouder
<1> SUFFICES ASSUME MixerInv
             PROVE  NeverLouder
  OBVIOUS
<1>1. ASSUME NEW m \in Controls
      PROVE  /\ Raw(Percent(level[m])) <= level[m]
             /\ asked[m] >= 0 => LET pct == AtMost(asked[m], 100) IN
                  /\ Percent(level[m]) <= pct \/ Hi = Lo
                  /\ (pct - Percent(level[m])) * (Hi - Lo) <= 100 + (Hi - Lo)
  <2>1. level[m] \in Lo..Hi /\ asked[m] \in Int /\ (asked[m] >= 0 => level[m] = Raw(asked[m]))
    BY DEF MixerInv, MixerTypeOK
  <2>2. asked[m] >= 0 => asked[m] \in Nat
    BY <2>1
  <2> QED
    BY <2>1, <2>2, LouderFacts, Zenon
<1>2. gain \in 0..100
  BY DEF MixerInv, MixerTypeOK
<1>3. \A s \in Sample16 : LET t == ApplyGain(s, gain) IN (0 <= t /\ t <= s) \/ (s <= t /\ t <= 0)
  BY <1>2, GainFacts
<1> QED
  BY <1>1, <1>3, Zenon DEF NeverLouder

\* The parts of the host that are not files keep their types.
HostInv == CallsInv /\ UnitsTypeOK /\ MixerInv /\ discoverable \in BOOLEAN

\* HostInv is inductive.
THEOREM HostAlways == HostSpec => []HostInv
<1>1. HostInit => HostInv
  <2>1. HostInit => UnitsTypeOK
    BY DEF HostInit, PutInit, UnitsInit, UnitsTypeOK
  <2> QED
    BY <2>1, CallsStart, MixerStart DEF HostInit, HostInv
<1>2. HostInv /\ [HostNext]_hostVars => HostInv'
  <2> SUFFICES ASSUME HostInv, [HostNext]_hostVars
               PROVE  HostInv'
    OBVIOUS
  <2>1. CallsInv /\ UnitsTypeOK /\ MixerInv /\ discoverable \in BOOLEAN
    BY DEF HostInv
  <2>2. CASE HostNext
    <3>1. CallsInv'
      BY <2>1, <2>2, HostChanging, CallsKept
    <3>2. UnitsTypeOK' /\ MixerInv'
      BY <2>1, <2>2, UnitsKept, MixerKept
    <3>3. discoverable' \in BOOLEAN
      <4>1. \/ discoverable' = discoverable
            \/ \E on \in BOOLEAN : discoverable' = on
        <5>1. \A c : AdapterStep(c) => discoverable' = discoverable \/ \E on \in BOOLEAN : discoverable' = on
          BY Zenon DEF AdapterStep
        <5>2. (OnMixer => discoverable' = discoverable) /\ (OnConfig => discoverable' = discoverable)
          BY DEF OnMixer, OnConfig
        <5>3. TimeOut => \E on \in BOOLEAN : discoverable' = on
          BY DEF TimeOut
        <5> QED
          BY <2>2, <5>1, <5>2, <5>3, Zenon DEF HostNext
      <4> QED
        BY <2>1, <4>1
    <3> QED
      BY <3>1, <3>2, <3>3 DEF HostInv
  <2>3. CASE UNCHANGED hostVars
    <3>1. /\ call' = call /\ since' = since /\ unit' = unit /\ discoverable' = discoverable
          /\ level' = level /\ muted' = muted /\ asked' = asked /\ gain' = gain
      BY <2>3 DEF hostVars, putVars, scriptVars, mixerVars
    <3>2. CallsInv'
      BY <2>1, <3>1 DEF CallsInv
    <3>3. UnitsTypeOK' /\ discoverable' \in BOOLEAN
      BY <2>1, <3>1 DEF UnitsTypeOK
    <3>4. MixerInv'
      BY <2>1, <3>1 DEF MixerInv, MixerTypeOK
    <3> QED
      BY <3>2, <3>3, <3>4 DEF HostInv
  <2> QED
    BY <2>2, <2>3
<1> QED
  BY <1>1, <1>2, PTL DEF HostSpec

\* The event a call publishes says of its subject what has been so since the
\* call changed it, whatever the other calls, systemd, BlueZ and other
\* programs do in between.
THEOREM EventsFresh == HostSpec => []EventIsFresh
<1>1. HostInv => EventIsFresh
  BY CallsFresh DEF HostInv
<1> QED
  BY <1>1, HostAlways, PTL

\* No call changes a unit that is not on the allowlist, and a call that is
\* refused has changed nothing.
THEOREM OnlyListedIsChanged == HostSpec => []OnlyListed
<1>1. HostInv => OnlyListed
  BY CallsListed DEF HostInv
<1> QED
  BY <1>1, HostAlways, PTL

\* A call that reports success has made the changes it was asked for and no others.
THEOREM OkMeansDone == HostSpec => []OkIsDone
<1>1. HostInv => OkIsDone
  BY CallsDone DEF HostInv
<1> QED
  BY <1>1, HostAlways, PTL

\* No volume is louder than what was asked, for every range of the mixer.
THEOREM NothingLouder == HostSpec => []NeverLouder
<1>1. HostInv => NeverLouder
  BY MixerLouder DEF HostInv
<1> QED
  BY <1>1, HostAlways, PTL

-----------------------------------------------------------------------------
(* The config file.                                                        *)

PcKinds == {"idle", "open", "block1", "block2", "chmod", "rename", "action", "acting", "done"}
Outcomes == {"none", "failed", "written", "applied", "unapplied"}

\* The types of the calls, of the files and of the reader, one by one.
CallsFiled ==
  /\ pc \in [Puts -> PcKinds] /\ fd \in [Puts -> Inodes \cup {NoFile}]
  /\ perms \in [Puts -> {"file", "default", "new", "unseen", "none"}] /\ gone \in [Puts -> BOOLEAN]
  /\ outcome \in [Puts -> Outcomes] /\ effected \in Seq(Puts)
  /\ \A w \in Puts : pc[w] \in {"block1", "block2"} => fd[w] # NoFile
FilesFiled ==
  /\ target \in Inodes /\ tmp \in Inodes \cup {NoFile}
  /\ content \in [Inodes -> Content] /\ mode \in [Inodes -> {"file", "default", "new", "none"}] /\ loaded \in Content
ReaderFiled ==
  /\ reader.inode \in Inodes \cup {NoFile}
  /\ reader = [inode |-> reader.inode, read |-> reader.read]
  /\ reader.read \in Seq(Inodes \cup {NoFile}) /\ Len(reader.read) <= 2
  /\ reader.inode = NoFile => reader.read = <<>>

\* FilesTyped in three parts.
LEMMA FiledTypes == FilesTyped <=> CallsFiled /\ FilesFiled /\ ReaderFiled
BY DEF FilesTyped, PutTypeOK, TypeOK, CallsFiled, FilesFiled, ReaderFiled, PcKinds, Outcomes

\* A call goes on to the next operation.
LEMMA GoTyped ==
  ASSUME CallsFiled, NEW w \in Puts, NEW op \in PcKinds, Go(w, op)
  PROVE  /\ pc' \in [Puts -> PcKinds] /\ pc'[w] = op
         /\ \A v \in Puts : v # w => pc'[v] = pc[v]
BY DEF CallsFiled, Go

\* Calls end.
LEMMA EndTyped ==
  ASSUME CallsFiled, NEW over, End(over)
  PROVE  /\ pc' \in [Puts -> PcKinds] /\ fd' \in [Puts -> Inodes \cup {NoFile}]
         /\ perms' = perms /\ gone' \in [Puts -> BOOLEAN]
         /\ \A w \in Puts : pc'[w] \in {"block1", "block2"} => fd'[w] # NoFile
         /\ \A w \in Puts : w \in over => pc'[w] = "done"
         /\ \A w \in Puts : w \notin over => pc'[w] = pc[w] /\ fd'[w] = fd[w]
BY DEF CallsFiled, End, PcKinds

\* A call ends with its reply.
LEMMA ReplyTyped ==
  ASSUME CallsFiled, NEW w \in Puts, NEW o \in Outcomes, Reply(w, o)
  PROVE  /\ outcome' \in [Puts -> Outcomes] /\ outcome'[w] = o
         /\ \A v \in Puts : v # w => outcome'[v] = outcome[v]
BY DEF CallsFiled, Reply

\* The words of the calls.
LEMMA FileWords ==
  /\ \A op \in {"idle", "open", "block1", "block2", "chmod", "rename", "action", "acting", "done"} : op \in PcKinds
  /\ \A o \in {"none", "failed", "written", "applied", "unapplied"} : o \in Outcomes
BY DEF PcKinds, Outcomes

\* The types are kept by the operations on the file ...
LEMMA PutStepTyped ==
  ASSUME FilesTyped, NEW w \in Puts, PutStep(w), UNCHANGED loaded
  PROVE  FilesTyped'
<1>1. CallsFiled /\ FilesFiled /\ ReaderFiled
  BY FiledTypes
<1>2. FilesTyped' <=> CallsFiled' /\ FilesFiled' /\ ReaderFiled'
  BY FiledTypes, PTL
<1>3. ReaderFiled'
  <2>1. reader' = reader
    BY Zenon DEF PutStep, Stat, Open, Block, Chmod, Rename, Fail, Abandon, Over
  <2> QED
    BY <1>1, <2>1 DEF ReaderFiled
<1>4. loaded' = loaded
  OBVIOUS
<1>5. CASE Stat(w)
  <2>1. PICK seen \in {mode[target], "unseen"} \ {"none"} :
        /\ perms' = [perms EXCEPT ![w] = seen] /\ Go(w, "open")
        /\ target' = target /\ tmp' = tmp /\ content' = content /\ mode' = mode
        /\ fd' = fd /\ gone' = gone /\ outcome' = outcome /\ effected' = effected
    BY <1>5 DEF Stat
  <2>2. pc' \in [Puts -> PcKinds] /\ pc'[w] = "open" /\ \A v \in Puts : v # w => pc'[v] = pc[v]
    BY <1>1, <2>1, GoTyped, FileWords
  <2>3. seen \in {"file", "default", "new", "unseen", "none"}
    <3>1. mode[target] \in {"file", "default", "new", "none"}
      BY <1>1 DEF FilesFiled
    <3> QED
      BY <2>1, <3>1
  <2>4. CallsFiled'
    BY <1>1, <2>1, <2>2, <2>3 DEF CallsFiled
  <2> QED
    BY <1>1, <1>2, <1>3, <1>4, <2>1, <2>4 DEF FilesFiled
<1>6. CASE Open(w)
  <2> DEFINE i == IF tmp = NoFile THEN w ELSE tmp
  <2>1. /\ tmp' = i /\ fd' = [fd EXCEPT ![w] = i] /\ content' = [content EXCEPT ![i] = Whole(NoFile)]
        /\ Go(w, "block1") /\ target' = target /\ mode' = mode
        /\ perms' = perms /\ gone' = gone /\ outcome' = outcome /\ effected' = effected
    BY <1>6 DEF Open
  <2>2. pc' \in [Puts -> PcKinds] /\ pc'[w] = "block1" /\ \A v \in Puts : v # w => pc'[v] = pc[v]
    BY <1>1, <2>1, GoTyped, FileWords
  <2>3. i \in Inodes /\ i # NoFile
    BY <1>1, ConfigAssumption DEF FilesFiled, Inodes
  <2>4. Whole(NoFile) \in Content
    BY DEF Whole, Content
  <2> HIDE DEF i
  <2>5. CallsFiled'
    BY <1>1, <2>1, <2>2, <2>3 DEF CallsFiled
  <2>6. FilesFiled'
    BY <1>1, <1>4, <2>1, <2>3, <2>4 DEF FilesFiled
  <2> QED
    BY <1>2, <1>3, <2>5, <2>6
<1>7. ASSUME NEW k \in 1..2, Block(w, k)
      PROVE  FilesTyped'
  <2> DEFINE op == IF k = 1 THEN "block2" ELSE "chmod"
  <2>1. /\ content' = [content EXCEPT ![fd[w]][k] = w] /\ Go(w, op)
        /\ target' = target /\ mode' = mode /\ tmp' = tmp /\ fd' = fd
        /\ perms' = perms /\ gone' = gone /\ outcome' = outcome /\ effected' = effected
    BY <1>7 DEF Block, callVars
  <2>2. op \in PcKinds /\ pc[w] \in {"block1", "block2"}
    BY <1>7, FileWords DEF Block
  <2> HIDE DEF op
  <2>3. pc' \in [Puts -> PcKinds] /\ \A v \in Puts : v # w => pc'[v] = pc[v]
    BY <1>1, <2>1, <2>2, GoTyped
  <2>4. fd[w] \in Inodes
    BY <1>1, <2>2 DEF CallsFiled
  <2>5. [content[fd[w]] EXCEPT ![k] = w] \in Content
    BY <1>1, <2>4 DEF FilesFiled, Content, Inodes
  <2>6. CallsFiled'
    BY <1>1, <2>1, <2>2, <2>3, <2>4 DEF CallsFiled
  <2>7. FilesFiled'
    BY <1>1, <1>4, <2>1, <2>4, <2>5 DEF FilesFiled
  <2> QED
    BY <1>2, <1>3, <2>6, <2>7
<1>8. CASE Chmod(w)
  <2> DEFINE bits == IF perms[w] = "unseen" THEN "default" ELSE perms[w]
  <2>1. /\ tmp # NoFile /\ mode' = [mode EXCEPT ![tmp] = bits] /\ Go(w, "rename")
        /\ target' = target /\ content' = content /\ tmp' = tmp /\ fd' = fd
        /\ perms' = perms /\ gone' = gone /\ outcome' = outcome /\ effected' = effected
    BY <1>8 DEF Chmod, callVars
  <2>2. pc' \in [Puts -> PcKinds] /\ pc'[w] = "rename" /\ \A v \in Puts : v # w => pc'[v] = pc[v]
    BY <1>1, <2>1, GoTyped, FileWords
  <2>3. CallsFiled'
    BY <1>1, <2>1, <2>2 DEF CallsFiled
  <2>4. FilesFiled'
    BY <1>1, <1>4, <2>1 DEF FilesFiled, CallsFiled
  <2> QED
    BY <1>2, <1>3, <2>3, <2>4
<1>9. CASE Rename(w)
  <2>1. /\ tmp # NoFile /\ target' = tmp /\ tmp' = NoFile /\ effected' = Append(effected, w)
        /\ Go(w, "action") /\ content' = content /\ mode' = mode /\ fd' = fd
        /\ perms' = perms /\ gone' = gone /\ outcome' = outcome
    BY <1>9 DEF Rename, callVars
  <2>2. pc' \in [Puts -> PcKinds] /\ pc'[w] = "action" /\ \A v \in Puts : v # w => pc'[v] = pc[v]
    BY <1>1, <2>1, GoTyped, FileWords
  <2>3. CallsFiled'
    BY <1>1, <2>1, <2>2 DEF CallsFiled
  <2>4. FilesFiled'
    BY <1>1, <1>4, <2>1 DEF FilesFiled
  <2> QED
    BY <1>2, <1>3, <2>3, <2>4
<1>10. CASE Fail(w)
  <2>1. /\ Reply(w, "failed") /\ End({w})
        /\ target' = target /\ tmp' = tmp /\ content' = content /\ mode' = mode /\ effected' = effected
    BY <1>10 DEF Fail, Reply
  <2>2. outcome' \in [Puts -> Outcomes]
    BY <1>1, <2>1, ReplyTyped, FileWords
  <2>3. CallsFiled'
    BY <1>1, <2>1, <2>2, EndTyped DEF CallsFiled
  <2> QED
    BY <1>1, <1>2, <1>3, <1>4, <2>1, <2>3 DEF FilesFiled
<1>11. CASE Abandon(w)
  <2>1. /\ gone' = [gone EXCEPT ![w] = TRUE]
        /\ pc' = pc /\ fd' = fd /\ perms' = perms /\ outcome' = outcome /\ effected' = effected
        /\ target' = target /\ tmp' = tmp /\ content' = content /\ mode' = mode
    BY <1>11 DEF Abandon
  <2>2. CallsFiled'
    BY <1>1, <2>1 DEF CallsFiled
  <2> QED
    BY <1>1, <1>2, <1>3, <1>4, <2>1, <2>2 DEF FilesFiled
<1>12. CASE Over(w)
  <2>1. /\ End({w}) /\ outcome' = outcome /\ effected' = effected
        /\ target' = target /\ tmp' = tmp /\ content' = content /\ mode' = mode
    BY <1>12 DEF Over
  <2>2. CallsFiled'
    BY <1>1, <2>1, EndTyped DEF CallsFiled
  <2> QED
    BY <1>1, <1>2, <1>3, <1>4, <2>1, <2>2 DEF FilesFiled
<1> QED
  BY <1>5, <1>6, <1>7, <1>8, <1>9, <1>10, <1>11, <1>12 DEF PutStep

\* The reader that has no file open.
LEMMA ClosedFacts ==
  /\ Closed.inode = NoFile /\ Closed.read = <<>> /\ Closed = [inode |-> Closed.inode, read |-> Closed.read]
  /\ Closed.read \in Seq(Inodes \cup {NoFile}) /\ Len(Closed.read) <= 2
BY DEF Closed

\* What a step of the reader does: it opens the file, reads a block or closes.
LEMMA ReadShape ==
  ASSUME ReaderFiled, Read
  PROVE  \/ reader.inode = NoFile /\ reader' = [inode |-> target, read |-> reader.read]
         \/ /\ reader.inode # NoFile /\ Len(reader.read) < 2
            /\ reader' = [inode |-> reader.inode,
                          read |-> Append(reader.read, content[reader.inode][Len(reader.read) + 1])]
         \/ reader' = Closed
<1>1. reader = [inode |-> reader.inode, read |-> reader.read]
  BY DEF ReaderFiled
<1>2. CASE reader.inode = NoFile /\ reader' = [Closed EXCEPT !.inode = target]
  <2> DEFINE n == <<>>
  <2>1. Closed = [inode |-> NoFile, read |-> n] /\ reader.read = n
    BY <1>2 DEF Closed, ReaderFiled
  <2> HIDE DEF n
  <2>2. [Closed EXCEPT !.inode = target] = [inode |-> target, read |-> n]
    BY <2>1
  <2> QED
    BY <1>2, <2>1, <2>2
<1>3. CASE /\ reader.inode # NoFile /\ Len(reader.read) < 2
           /\ reader' = [reader EXCEPT !.read = Append(reader.read, content[reader.inode][Len(reader.read) + 1])]
  <2> DEFINE q == Append(reader.read, content[reader.inode][Len(reader.read) + 1])
             i == reader.inode
             s == reader.read
  <2>1. reader = [inode |-> i, read |-> s] /\ reader' = [reader EXCEPT !.read = q]
    BY <1>1, <1>3
  <2> HIDE DEF q, i, s
  <2>2. reader' = [inode |-> i, read |-> q]
    BY <2>1
  <2> QED
    BY <1>3, <2>2 DEF q, i
<1> QED
  BY <1>2, <1>3, Zenon DEF Read

\* The reader keeps its types.
LEMMA ReadTyped ==
  ASSUME ReaderFiled, Read, target \in Inodes, content \in [Inodes -> Content]
  PROVE  ReaderFiled'
<1>1. /\ reader.inode \in Inodes \cup {NoFile}
      /\ reader.read \in Seq(Inodes \cup {NoFile}) /\ Len(reader.read) <= 2
      /\ reader.inode = NoFile => reader.read = <<>>
  BY DEF ReaderFiled
<1>2. NoFile \notin Inodes
  BY ConfigAssumption DEF Inodes
<1>3. CASE reader.inode = NoFile /\ reader' = [inode |-> target, read |-> reader.read]
  BY <1>1, <1>2, <1>3 DEF ReaderFiled
<1>4. CASE /\ reader.inode # NoFile /\ Len(reader.read) < 2
           /\ reader' = [inode |-> reader.inode,
                         read |-> Append(reader.read, content[reader.inode][Len(reader.read) + 1])]
  <2> DEFINE b == content[reader.inode][Len(reader.read) + 1]
             q == Append(reader.read, b)
  <2>1. b \in Inodes \cup {NoFile}
    <3>1. content[reader.inode] \in [1..2 -> Inodes \cup {NoFile}]
      BY <1>1, <1>4 DEF Content
    <3>2. Len(reader.read) + 1 \in 1..2
      BY <1>1, <1>4
    <3> QED
      BY <3>1, <3>2
  <2> HIDE DEF b
  <2>2. q \in Seq(Inodes \cup {NoFile}) /\ Len(q) <= 2
    BY <1>1, <1>4, <2>1
  <2>3. reader' = [inode |-> reader.inode, read |-> q]
    BY <1>4 DEF b
  <2> HIDE DEF q
  <2> QED
    BY <1>1, <1>4, <2>2, <2>3 DEF ReaderFiled
<1>5. CASE reader' = Closed
  BY <1>5, ClosedFacts DEF ReaderFiled
<1> QED
  BY <1>3, <1>4, <1>5, ReadShape

\* ... by the post-write action ...
LEMMA ActTyped ==
  ASSUME FilesTyped, NEW w \in Puts, Act(w) \/ Acted(w) \/ ActOver(w), UNCHANGED loaded
  PROVE  FilesTyped'
<1>1. CallsFiled /\ FilesFiled /\ ReaderFiled
  BY FiledTypes
<1>2. FilesTyped' <=> CallsFiled' /\ FilesFiled' /\ ReaderFiled'
  BY FiledTypes, PTL
<1>3. /\ target' = target /\ tmp' = tmp /\ content' = content /\ mode' = mode
      /\ effected' = effected /\ reader' = reader /\ loaded' = loaded
  BY DEF Act, Acted, ActOver
<1>4. FilesFiled' /\ ReaderFiled'
  BY <1>1, <1>3 DEF FilesFiled, ReaderFiled
<1>5. ASSUME NEW o \in Outcomes, Reply(w, o)
      PROVE  CallsFiled'
  <2>1. End({w})
    BY <1>5 DEF Reply
  <2> QED
    BY <1>1, <1>3, <1>5, <2>1, ReplyTyped, EndTyped DEF CallsFiled
<1>6. ASSUME Go(w, "acting"), UNCHANGED callVars
      PROVE  CallsFiled'
  <2>1. pc' \in [Puts -> PcKinds] /\ pc'[w] = "acting" /\ \A v \in Puts : v # w => pc'[v] = pc[v]
    BY <1>1, <1>6, GoTyped, FileWords
  <2>2. fd' = fd /\ perms' = perms /\ gone' = gone /\ outcome' = outcome
    BY <1>6 DEF callVars
  <2> QED
    BY <1>1, <1>3, <2>1, <2>2 DEF CallsFiled
<1>7. ASSUME End({w}), outcome' = outcome
      PROVE  CallsFiled'
  BY <1>1, <1>3, <1>7, EndTyped DEF CallsFiled
<1>8. CASE Act(w)
  <2>1. Reply(w, "written") \/ (Go(w, "acting") /\ UNCHANGED callVars)
    BY <1>8, Zenon DEF Act
  <2> QED
    BY <1>2, <1>4, <1>5, <1>6, <2>1, FileWords
<1>9. CASE Acted(w)
  <2>1. Reply(w, "applied") \/ Reply(w, "unapplied")
    BY <1>9 DEF Acted
  <2> QED
    BY <1>2, <1>4, <1>5, <2>1, FileWords
<1>10. CASE ActOver(w)
  <2>1. End({w}) /\ outcome' = outcome
    BY <1>10 DEF ActOver
  <2> QED
    BY <1>2, <1>4, <1>7, <2>1
<1> QED
  BY <1>8, <1>9, <1>10

\* ... by the reader, by an end of the daemon and when the unit reads its file.
LEMMA OthersTyped ==
  ASSUME FilesTyped, \/ Read /\ UNCHANGED loaded
                     \/ Restart /\ UNCHANGED loaded
                     \/ UNCHANGED vars /\ loaded' \in {loaded, content[target]}
  PROVE  FilesTyped'
<1>1. CallsFiled /\ FilesFiled /\ ReaderFiled
  BY FiledTypes
<1>2. FilesTyped' <=> CallsFiled' /\ FilesFiled' /\ ReaderFiled'
  BY FiledTypes, PTL
<1>3. CASE Read /\ UNCHANGED loaded
  <2>1. /\ target' = target /\ tmp' = tmp /\ content' = content /\ mode' = mode /\ pc' = pc
        /\ fd' = fd /\ perms' = perms /\ gone' = gone /\ outcome' = outcome
        /\ effected' = effected /\ loaded' = loaded
    BY <1>3 DEF Read, callVars
  <2>2. CallsFiled' /\ FilesFiled'
    BY <1>1, <2>1 DEF CallsFiled, FilesFiled
  <2>3. ReaderFiled'
    BY <1>1, <1>3, ReadTyped DEF FilesFiled
  <2> QED
    BY <1>2, <2>2, <2>3
<1>4. CASE Restart /\ UNCHANGED loaded
  <2>1. /\ End(InFlight) /\ tmp' = NoFile /\ reader' = Closed /\ target' = target /\ content' = content
        /\ mode' = mode /\ outcome' = outcome /\ effected' = effected /\ loaded' = loaded
    BY <1>4 DEF Restart
  <2>2. CallsFiled'
    BY <1>1, <2>1, EndTyped DEF CallsFiled
  <2>3. FilesFiled'
    BY <1>1, <2>1 DEF FilesFiled
  <2>4. ReaderFiled'
    BY <2>1, ClosedFacts DEF ReaderFiled
  <2> QED
    BY <1>2, <2>2, <2>3, <2>4
<1>5. CASE UNCHANGED vars /\ loaded' \in {loaded, content[target]}
  <2>1. /\ target' = target /\ tmp' = tmp /\ content' = content /\ mode' = mode /\ pc' = pc
        /\ fd' = fd /\ perms' = perms /\ gone' = gone /\ outcome' = outcome
        /\ effected' = effected /\ reader' = reader /\ loaded' \in {loaded, content[target]}
    BY <1>5 DEF vars, callVars
  <2> QED
    BY <1>1, <1>2, <2>1 DEF CallsFiled, FilesFiled, ReaderFiled
<1> QED
  BY <1>3, <1>4, <1>5

\* What a step does to the file, whatever the service.
LEMMA FileSteps ==
  ASSUME HostNext
  PROVE  \/ \E w \in Puts : PutStep(w) /\ UNCHANGED <<call, unit, loaded>> /\ service = "config"
         \/ \E w \in Puts : (Act(w) \/ Acted(w) \/ ActOver(w)) /\ UNCHANGED <<unit, loaded>> /\ service = "config"
         \/ Read /\ UNCHANGED <<call, unit, loaded>> /\ service = "config"
         \/ Restart /\ Forget(Puts) /\ UNCHANGED <<unit, loaded>> /\ service = "config"
         \/ Load /\ service = "config"
         \/ UNCHANGED <<vars, loaded>>
<1>1. OnUnits \/ OnMixer => UNCHANGED <<vars, loaded>>
  BY DEF OnUnits, OnMixer
<1>2. ASSUME NEW w \in Puts,
             \/ UnitStep(w) /\ UNCHANGED <<vars, loaded>>
             \/ PublishStep(w) /\ UNCHANGED <<vars, unit, loaded>>
      PROVE  UNCHANGED <<vars, loaded>>
  BY <1>2
<1>3. CASE OnConfig /\ PutNext
  <2>1. service = "config"
    BY <1>3 DEF OnConfig
  <2> QED
    BY <1>2, <1>3, <2>1, Zenon DEF PutNext
<1> QED
  BY <1>1, <1>3, Zenon DEF HostNext

\* The files, the calls on them and the reader keep their types, however many
\* calls there are.
THEOREM FilesAlways == HostSpec => []FilesTyped
<1>1. HostInit => FilesTyped
  <2> SUFFICES ASSUME HostInit
               PROVE  FilesTyped
    OBVIOUS
  <2>1. Init /\ loaded = Whole(Old)
    BY DEF HostInit, PutInit
  <2>2. /\ target = Old /\ tmp = NoFile
        /\ content = [i \in Inodes |-> IF i = Old THEN Whole(Old) ELSE Whole(NoFile)]
        /\ mode \in [Inodes -> {"file", "none", "new"}]
        /\ pc = [w \in Puts |-> "idle"]
        /\ fd = [w \in Puts |-> NoFile] /\ perms = [w \in Puts |-> "none"]
        /\ gone = [w \in Puts |-> FALSE] /\ outcome = [w \in Puts |-> "none"]
        /\ effected = <<>> /\ reader = Closed
    BY <2>1 DEF Init
  <2>3. Whole(Old) \in Content /\ Whole(NoFile) \in Content /\ Old \in Inodes
    BY DEF Whole, Content, Inodes
  <2>4. FilesFiled
    BY <2>1, <2>2, <2>3 DEF FilesFiled
  <2>5. CallsFiled
    BY <2>2, FileWords DEF CallsFiled
  <2>6. ReaderFiled
    BY <2>2, ClosedFacts DEF ReaderFiled
  <2> QED
    BY <2>4, <2>5, <2>6, FiledTypes
<1>2. FilesTyped /\ [HostNext]_hostVars => FilesTyped'
  <2> SUFFICES ASSUME FilesTyped, [HostNext]_hostVars
               PROVE  FilesTyped'
    OBVIOUS
  <2>1. ASSUME UNCHANGED vars /\ loaded' \in {loaded, content[target]}
        PROVE  FilesTyped'
    BY <2>1, OthersTyped
  <2>2. ASSUME UNCHANGED <<vars, loaded>>
        PROVE  FilesTyped'
    <3>1. UNCHANGED vars /\ loaded' = loaded
      BY <2>2
    <3> QED
      BY <2>1, <3>1
  <2>3. CASE UNCHANGED hostVars
    BY <2>2, <2>3 DEF hostVars, putVars
  <2>4. ASSUME Load
        PROVE  FilesTyped'
    <3>1. UNCHANGED vars /\ loaded' = content[target]
      BY <2>4 DEF Load
    <3> QED
      BY <2>1, <3>1
  <2>5. ASSUME NEW w \in Puts, PutStep(w), UNCHANGED <<call, unit, loaded>>
        PROVE  FilesTyped'
    <3>1. UNCHANGED loaded
      BY <2>5
    <3> QED
      BY <2>5, <3>1, PutStepTyped
  <2>6. ASSUME NEW w \in Puts, Act(w) \/ Acted(w) \/ ActOver(w), UNCHANGED <<unit, loaded>>
        PROVE  FilesTyped'
    <3>1. UNCHANGED loaded
      BY <2>6
    <3> QED
      BY <2>6, <3>1, ActTyped
  <2>7. ASSUME Read \/ Restart, UNCHANGED loaded
        PROVE  FilesTyped'
    BY <2>7, OthersTyped
  <2>8. CASE HostNext
    <3>1. UNCHANGED <<call, unit, loaded>> => UNCHANGED loaded
      OBVIOUS
    <3>2. UNCHANGED <<unit, loaded>> => UNCHANGED loaded
      OBVIOUS
    <3> QED
      BY <2>2, <2>4, <2>5, <2>6, <2>7, <2>8, <3>1, <3>2, FileSteps
  <2> QED
    BY <2>3, <2>8
<1> QED
  BY <1>1, <1>2, PTL DEF HostSpec

\* Every variable of the host keeps its type.
THEOREM HostTyped == HostSpec => []HostTypeOK
<1>1. HostInv /\ FilesTyped => HostTypeOK
  BY CallsTyped DEF HostInv, FilesTyped, HostTypeOK, MixerInv
<1> QED
  BY <1>1, HostAlways, FilesAlways, PTL

-----------------------------------------------------------------------------
(* One call at a time on the file.                                         *)

\* A step of one call while no other is in flight.
LEMMA OneMoves ==
  ASSUME FilesTyped, WriterInv, NEW w \in Puts, w \in InFlight \/ InFlight = {},
         \A v \in Puts : v # w => pc'[v] = pc[v]
  PROVE  /\ \A v \in Puts : v # w => pc'[v] = pc[v] /\ pc[v] \in {"idle", "done"}
         /\ \A u, v \in InFlight' : u = v
<1>1. \A v \in Puts : v # w => pc[v] \in {"idle", "done"}
  <2> SUFFICES ASSUME NEW v \in Puts, v # w, pc[v] \notin {"idle", "done"}
               PROVE  FALSE
    OBVIOUS
  <2>1. v \in InFlight
    BY DEF InFlight
  <2> QED
    BY <2>1 DEF WriterInv
<1>2. \A v \in InFlight' : v = w
  <2>1. \A v \in InFlight' : v \in Puts /\ pc'[v] \notin {"idle", "done"}
    BY DEF InFlight
  <2> QED
    BY <1>1, <2>1
<1> QED
  BY <1>1, <1>2

\* With one call at a time, a call that begins is alone.
LEMMA NobodyElse ==
  ASSUME AtOnce <= 1, Cardinality(InFlight) < AtOnce
  PROVE  InFlight = {}
<1>1. IsFiniteSet(InFlight)
  <2>1. InFlight \subseteq Puts
    BY DEF InFlight
  <2> QED
    BY <2>1, FS_Subset, ConfigAssumption
<1>2. Cardinality(InFlight) \in Nat
  BY <1>1, FS_CardinalityType
<1>3. Cardinality(InFlight) = 0
  BY <1>2, ConfigAssumption
<1> QED
  BY <1>1, <1>3, FS_EmptySet

\* What the invariant says of one call.
Alone(w) ==
  /\ pc[w] \in {"idle", "open"} => w \notin {target, tmp, reader.inode}
  /\ pc[w] \in Writing => fd[w] = tmp /\ tmp # NoFile
  /\ pc[w] \in {"idle", "open"} \cup Writing =>
       outcome[w] = "none" /\ w \notin {effected[k] : k \in DOMAIN effected}
  /\ pc[w] = "block2" => content[tmp][1] = w
  /\ pc[w] \in {"chmod", "rename"} => content[tmp] = Whole(w)

\* The invariants of the inodes and of the writer, call by call.
LEMMA AloneAll ==
  InodesInv /\ WriterInv <=>
    /\ \A w \in Puts : Alone(w)
    /\ tmp # NoFile => tmp # target /\ tmp # reader.inode
    /\ \A v, w \in InFlight : v = w
    /\ \A k \in DOMAIN effected : outcome[effected[k]] # "failed"
BY DEF InodesInv, WriterInv, Alone

\* The same after a step.
LEMMA AloneNext ==
  ASSUME \A w \in Puts : Alone(w)',
         tmp' # NoFile => tmp' # target' /\ tmp' # reader'.inode,
         \A v, w \in InFlight' : v = w,
         \A k \in DOMAIN effected' : outcome'[effected'[k]] # "failed"
  PROVE  (InodesInv /\ WriterInv)'
BY DEF InodesInv, WriterInv, Alone

\* A call that is not in flight stays as it is when the names and the history
\* are not its own.
LEMMA AloneIdle ==
  ASSUME NEW v \in Puts, Alone(v), pc[v] \in {"idle", "done"}, pc'[v] = pc[v],
         outcome'[v] = outcome[v],
         \/ pc[v] = "done" \/ v \notin {target', tmp', reader'.inode}
         \/ {target', tmp', reader'.inode} \subseteq {target, tmp, reader.inode, NoFile},
         \A k \in DOMAIN effected' : effected'[k] = v => \E j \in DOMAIN effected : effected[j] = v
  PROVE  Alone(v)'
<1>1. v # NoFile
  BY ConfigAssumption
<1> QED
  BY <1>1 DEF Alone, Writing

\* The file, its inodes and its one writer.
FileInv == InodesInv /\ WriterInv /\ TargetInv

\* Every content, block by block.
LEMMA WholeFacts ==
  ASSUME NEW a, NEW b, b = Whole(a)
  PROVE  b[1] = a /\ b[2] = a /\ DOMAIN b = 1..2
BY DEF Whole

\* A call begins with the mode of the file.
LEMMA StatFiles ==
  ASSUME AtOnce <= 1, FilesTyped, FileInv, NEW w \in Puts, Stat(w)
  PROVE  FileInv'
<1>1. /\ pc[w] = "idle" /\ Go(w, "open")
      /\ target' = target /\ tmp' = tmp /\ content' = content /\ mode' = mode
      /\ fd' = fd /\ outcome' = outcome /\ effected' = effected /\ reader' = reader
      /\ InFlight = {}
  BY NobodyElse DEF Stat, At
<1>2. CallsFiled /\ InodesInv /\ WriterInv /\ TargetInv
  BY FiledTypes DEF FileInv
<1>3. pc'[w] = "open" /\ \A v \in Puts : v # w => pc'[v] = pc[v]
  BY <1>1, <1>2, GoTyped, FileWords
<1>4. /\ \A v \in Puts : v # w => pc'[v] = pc[v] /\ pc[v] \in {"idle", "done"}
      /\ \A u, v \in InFlight' : u = v
  BY <1>1, <1>2, <1>3, OneMoves
<1>6. ASSUME NEW v \in Puts
      PROVE  Alone(v)'
  <2>1. Alone(v)
    BY <1>2, AloneAll
  <2>2. CASE v # w
    BY <1>1, <1>4, <2>1, <2>2, AloneIdle
  <2>3. CASE v = w
    BY <1>1, <1>3, <2>1, <2>3 DEF Alone, Writing
  <2> QED
    BY <2>2, <2>3
<1>7. /\ tmp' # NoFile => tmp' # target' /\ tmp' # reader'.inode
      /\ \A k \in DOMAIN effected' : outcome'[effected'[k]] # "failed"
  BY <1>1, <1>2 DEF InodesInv, WriterInv
<1>8. (InodesInv /\ WriterInv)'
  BY <1>4, <1>6, <1>7, AloneNext
<1>9. TargetInv'
  BY <1>1, <1>2 DEF TargetInv, LastOne
<1> QED
  BY <1>8, <1>9 DEF FileInv

\* The temporary file is opened by the call that will write it.
LEMMA OpenFiles ==
  ASSUME FilesTyped, FileInv, NEW w \in Puts, Open(w)
  PROVE  FileInv'
<1> DEFINE i == IF tmp = NoFile THEN w ELSE tmp
<1>1. /\ pc[w] = "open" /\ tmp' = i /\ fd' = [fd EXCEPT ![w] = i]
      /\ content' = [content EXCEPT ![i] = Whole(NoFile)] /\ Go(w, "block1")
      /\ target' = target /\ mode' = mode /\ perms' = perms /\ outcome' = outcome
      /\ effected' = effected /\ reader' = reader
  BY DEF Open, At
<1>2. CallsFiled /\ FilesFiled /\ ReaderFiled /\ InodesInv /\ WriterInv /\ TargetInv
  BY FiledTypes DEF FileInv
<1>3. pc'[w] = "block1" /\ \A v \in Puts : v # w => pc'[v] = pc[v]
  BY <1>1, <1>2, GoTyped, FileWords
<1>4. /\ \A v \in Puts : v # w => pc'[v] = pc[v] /\ pc[v] \in {"idle", "done"}
      /\ \A u, v \in InFlight' : u = v
  <2>1. w \in InFlight
    BY <1>1 DEF InFlight
  <2> QED
    BY <1>2, <1>3, <2>1, OneMoves
<1>5. /\ i \in Inodes /\ i # NoFile /\ i # target /\ i # reader.inode
      /\ \A v \in Puts : v # w /\ pc[v] = "idle" => v # i
  BY <1>1, <1>2, ConfigAssumption DEF FilesFiled, InodesInv, Inodes
<1> HIDE DEF i
<1>6. ASSUME NEW v \in Puts
      PROVE  Alone(v)'
  <2>1. Alone(v)
    BY <1>2, AloneAll
  <2>2. CASE v # w
    <3>1. pc[v] = "done" \/ v \notin {target', tmp', reader'.inode}
      BY <1>1, <1>4, <1>5, <2>1, <2>2 DEF Alone
    <3> QED
      BY <1>1, <1>4, <2>1, <2>2, <3>1, AloneIdle
  <2>3. CASE v = w
    BY <1>1, <1>2, <1>3, <1>5, <2>1, <2>3 DEF Alone, Writing, CallsFiled
  <2> QED
    BY <2>2, <2>3
<1>7. (InodesInv /\ WriterInv)'
  <2>1. \A k \in DOMAIN effected' : outcome'[effected'[k]] # "failed"
    BY <1>1, <1>2 DEF WriterInv
  <2> QED
    BY <1>1, <1>4, <1>5, <1>6, <2>1, AloneNext
<1>8. TargetInv'
  <2>1. \A j \in Inodes : j # i => content'[j] = content[j]
    BY <1>1, <1>2 DEF FilesFiled
  <2>2. content'[target] = content[target]
        /\ (reader.inode # NoFile => content'[reader.inode] = content[reader.inode])
    BY <1>2, <1>5, <2>1 DEF FilesFiled, ReaderFiled
  <2> QED
    BY <1>1, <1>2, <2>2 DEF TargetInv, LastOne
<1> QED
  BY <1>7, <1>8 DEF FileInv

\* The blocks are written to the temporary file, which nobody else has open.
LEMMA BlockFiles ==
  ASSUME FilesTyped, FileInv, NEW w \in Puts, NEW k \in 1..2, Block(w, k)
  PROVE  FileInv'
<1> DEFINE op == IF k = 1 THEN "block2" ELSE "chmod"
<1>1. /\ pc[w] = (IF k = 1 THEN "block1" ELSE "block2")
      /\ content' = [content EXCEPT ![fd[w]][k] = w] /\ Go(w, op)
      /\ target' = target /\ mode' = mode /\ tmp' = tmp /\ fd' = fd
      /\ perms' = perms /\ outcome' = outcome /\ effected' = effected /\ reader' = reader
  BY DEF Block, callVars
<1>2. CallsFiled /\ FilesFiled /\ ReaderFiled /\ InodesInv /\ WriterInv /\ TargetInv
  BY FiledTypes DEF FileInv
<1>3. op \in PcKinds
  BY FileWords
<1>4. pc'[w] = op /\ \A v \in Puts : v # w => pc'[v] = pc[v]
  <2> HIDE DEF op
  <2> QED
    BY <1>1, <1>2, <1>3, GoTyped
<1>5. /\ \A v \in Puts : v # w => pc'[v] = pc[v] /\ pc[v] \in {"idle", "done"}
      /\ \A u, v \in InFlight' : u = v
  <2>1. w \in InFlight
    BY <1>1 DEF InFlight
  <2> QED
    BY <1>2, <1>4, <2>1, OneMoves
<1>6. /\ fd[w] = tmp /\ tmp # NoFile /\ tmp \in Inodes /\ tmp # target /\ tmp # reader.inode
      /\ outcome[w] = "none" /\ w \notin {effected[j] : j \in DOMAIN effected}
      /\ (k = 2 => content[tmp][1] = w)
  BY <1>1, <1>2 DEF WriterInv, InodesInv, FilesFiled, Writing
<1>7. /\ content'[tmp] = [content[tmp] EXCEPT ![k] = w]
      /\ \A j \in Inodes : j # tmp => content'[j] = content[j]
  BY <1>1, <1>2, <1>6 DEF FilesFiled
<1>8. /\ content'[tmp][k] = w /\ (k = 2 => content'[tmp] = Whole(w))
  <2>1. content[tmp] \in [1..2 -> Inodes \cup {NoFile}]
    BY <1>2, <1>6 DEF FilesFiled, Content
  <2>2. content'[tmp] \in [1..2 -> Inodes \cup {NoFile}]
    BY <1>7, <2>1 DEF Inodes
  <2>3. content'[tmp][k] = w
    BY <1>7, <2>1
  <2>4. k = 2 => content'[tmp][1] = w
    BY <1>6, <1>7, <2>1
  <2>5. ASSUME k = 2
        PROVE  content'[tmp] = Whole(w)
    <3> DEFINE b == content'[tmp]
    <3>1. b \in [1..2 -> Inodes \cup {NoFile}] /\ b[1] = w /\ b[2] = w
      BY <2>2, <2>3, <2>4, <2>5
    <3> HIDE DEF b
    <3>2. \A j \in 1..2 : b[j] = w
      BY <3>1
    <3>3. b = [j \in 1..2 |-> w]
      BY <3>1, <3>2
    <3> QED
      BY <3>3 DEF b, Whole
  <2> QED
    BY <2>3, <2>5
<1>9. ASSUME NEW v \in Puts
      PROVE  Alone(v)'
  <2>1. Alone(v)
    BY <1>2, AloneAll
  <2>2. CASE v # w
    BY <1>1, <1>5, <2>1, <2>2, AloneIdle
  <2>3. CASE v = w
    BY <1>1, <1>4, <1>6, <1>8, <2>3 DEF Alone, Writing
  <2> QED
    BY <2>2, <2>3
<1>10. (InodesInv /\ WriterInv)'
  <2>1. \A j \in DOMAIN effected' : outcome'[effected'[j]] # "failed"
    BY <1>1, <1>2 DEF WriterInv
  <2> QED
    BY <1>1, <1>5, <1>6, <1>9, <2>1, AloneNext
<1>11. TargetInv'
  <2>1. content'[target] = content[target]
        /\ (reader.inode # NoFile => content'[reader.inode] = content[reader.inode])
    BY <1>2, <1>6, <1>7 DEF FilesFiled, ReaderFiled
  <2> QED
    BY <1>1, <1>2, <2>1 DEF TargetInv, LastOne
<1> QED
  BY <1>10, <1>11 DEF FileInv

\* The temporary file gets its mode before it takes the place of the file.
LEMMA ChmodFiles ==
  ASSUME FilesTyped, FileInv, NEW w \in Puts, Chmod(w)
  PROVE  FileInv'
<1>1. /\ pc[w] = "chmod" /\ tmp # NoFile /\ Go(w, "rename")
      /\ target' = target /\ content' = content /\ tmp' = tmp /\ fd' = fd
      /\ perms' = perms /\ outcome' = outcome /\ effected' = effected /\ reader' = reader
  BY DEF Chmod, At, callVars
<1>2. CallsFiled /\ FilesFiled /\ InodesInv /\ WriterInv /\ TargetInv
  BY FiledTypes DEF FileInv
<1>3. pc'[w] = "rename" /\ \A v \in Puts : v # w => pc'[v] = pc[v]
  BY <1>1, <1>2, GoTyped, FileWords
<1>4. /\ \A v \in Puts : v # w => pc'[v] = pc[v] /\ pc[v] \in {"idle", "done"}
      /\ \A u, v \in InFlight' : u = v
  <2>1. w \in InFlight
    BY <1>1 DEF InFlight
  <2> QED
    BY <1>2, <1>3, <2>1, OneMoves
<1>7. ASSUME NEW v \in Puts
      PROVE  Alone(v)'
  <2>1. Alone(v)
    BY <1>2, AloneAll
  <2>2. CASE v # w
    BY <1>1, <1>4, <2>1, <2>2, AloneIdle
  <2>3. CASE v = w
    BY <1>1, <1>3, <2>1, <2>3 DEF Alone, Writing
  <2> QED
    BY <2>2, <2>3
<1>8. (InodesInv /\ WriterInv)'
  <2>1. \A j \in DOMAIN effected' : outcome'[effected'[j]] # "failed"
    BY <1>1, <1>2 DEF WriterInv
  <2> QED
    BY <1>1, <1>2, <1>4, <1>7, <2>1, AloneNext DEF InodesInv
<1>9. TargetInv'
  BY <1>1, <1>2 DEF TargetInv, LastOne
<1> QED
  BY <1>8, <1>9 DEF FileInv

\* The temporary file, written as a whole, takes the place of the file.
LEMMA RenameFiles ==
  ASSUME FilesTyped, FileInv, NEW w \in Puts, Rename(w)
  PROVE  FileInv'
<1>1. /\ pc[w] = "rename" /\ tmp # NoFile /\ target' = tmp /\ tmp' = NoFile
      /\ effected' = Append(effected, w) /\ Go(w, "action") /\ content' = content /\ mode' = mode
      /\ fd' = fd /\ perms' = perms /\ outcome' = outcome /\ reader' = reader
  BY DEF Rename, At, callVars
<1>2. CallsFiled /\ FilesFiled /\ InodesInv /\ WriterInv /\ TargetInv
  BY FiledTypes DEF FileInv
<1>3. pc'[w] = "action" /\ \A v \in Puts : v # w => pc'[v] = pc[v]
  BY <1>1, <1>2, GoTyped, FileWords
<1>4. /\ \A v \in Puts : v # w => pc'[v] = pc[v] /\ pc[v] \in {"idle", "done"}
      /\ \A u, v \in InFlight' : u = v
  <2>1. w \in InFlight
    BY <1>1 DEF InFlight
  <2> QED
    BY <1>2, <1>3, <2>1, OneMoves
<1>5. /\ content[tmp] = Whole(w) /\ outcome[w] = "none"
  BY <1>1, <1>2 DEF WriterInv, Writing
<1>6. /\ DOMAIN effected' = 1..(Len(effected) + 1) /\ effected'[Len(effected) + 1] = w
      /\ DOMAIN effected = 1..Len(effected) /\ Len(effected) \in Nat
      /\ \A j \in 1..Len(effected) : effected'[j] = effected[j]
  BY <1>1, <1>2 DEF CallsFiled
<1>7. ASSUME NEW v \in Puts
      PROVE  Alone(v)'
  <2>1. Alone(v)
    BY <1>2, AloneAll
  <2>2. CASE v # w
    <3>1. {target', tmp', reader'.inode} \subseteq {target, tmp, reader.inode, NoFile}
      BY <1>1
    <3>2. \A j \in DOMAIN effected' : effected'[j] = v => \E b \in DOMAIN effected : effected[b] = v
      BY <1>6, <2>2
    <3> QED
      BY <1>1, <1>4, <2>1, <2>2, <3>1, <3>2, AloneIdle
  <2>3. CASE v = w
    BY <1>3, <2>3 DEF Alone, Writing
  <2> QED
    BY <2>2, <2>3
<1>8. (InodesInv /\ WriterInv)'
  <2>1. \A j \in DOMAIN effected' : outcome'[effected'[j]] # "failed"
    BY <1>1, <1>2, <1>5, <1>6 DEF WriterInv
  <2> QED
    BY <1>1, <1>4, <1>7, <2>1, AloneNext
<1>9. TargetInv'
  <2>1. LastOne' = w
    <3>1. effected' # <<>> /\ Len(effected') = Len(effected) + 1
      BY <1>1, <1>2 DEF CallsFiled
    <3> QED
      BY <1>6, <3>1 DEF LastOne
  <2> QED
    BY <1>1, <1>2, <1>5, <2>1 DEF TargetInv
<1> QED
  BY <1>8, <1>9 DEF FileInv

\* Calls that end leave what there is.
LEMMA EndFiles ==
  ASSUME FilesTyped, FileInv, NEW over, End(over),
         target' = target, content' = content, mode' = mode, effected' = effected,
         tmp' = tmp \/ (tmp' = NoFile /\ over = InFlight),
         reader' = reader \/ reader' = Closed,
         \A v \in Puts \ over : outcome'[v] = outcome[v],
         \A k \in DOMAIN effected : outcome'[effected[k]] # "failed"
  PROVE  FileInv'
<1>1. CallsFiled /\ FilesFiled /\ ReaderFiled /\ InodesInv /\ WriterInv /\ TargetInv
  BY FiledTypes DEF FileInv
<1>2. /\ \A v \in Puts : v \in over => pc'[v] = "done"
      /\ \A v \in Puts : v \notin over => pc'[v] = pc[v] /\ fd'[v] = fd[v]
  BY <1>1, EndTyped
<1>3. reader'.inode \in {reader.inode, NoFile}
  BY ClosedFacts
<1>4. ASSUME NEW v \in Puts
      PROVE  Alone(v)'
  <2>1. Alone(v)
    BY <1>1, AloneAll
  <2>2. v # NoFile
    BY ConfigAssumption
  <2>3. CASE v \in over
    BY <1>2, <2>3 DEF Alone, Writing
  <2>4. CASE v \notin over /\ tmp' = tmp
    BY <1>2, <1>3, <2>1, <2>2, <2>4 DEF Alone
  <2>5. CASE v \notin over /\ tmp' = NoFile /\ over = InFlight
    <3>1. pc[v] \in {"idle", "done"} /\ pc'[v] = pc[v] /\ outcome'[v] = outcome[v]
      BY <1>2, <2>5 DEF InFlight
    <3>2. {target', tmp', reader'.inode} \subseteq {target, tmp, reader.inode, NoFile}
      BY <1>3, <2>5
    <3> QED
      BY <2>1, <3>1, <3>2, AloneIdle
  <2> QED
    BY <2>3, <2>4, <2>5
<1>5. \A u, v \in InFlight' : u = v
  <2>1. \A v \in InFlight' : v \in InFlight
    BY <1>2 DEF InFlight
  <2> QED
    BY <1>1, <2>1 DEF WriterInv
<1>6. tmp' # NoFile => tmp' # target' /\ tmp' # reader'.inode
  BY <1>1, <1>3 DEF InodesInv
<1>7. (InodesInv /\ WriterInv)'
  BY <1>4, <1>5, <1>6, AloneNext
<1>8. TargetInv'
  <2>1. CASE reader' = reader
    BY <1>1, <2>1 DEF TargetInv, LastOne
  <2>2. CASE reader' = Closed
    BY <1>1, <2>2, ClosedFacts DEF TargetInv, LastOne
  <2> QED
    BY <2>1, <2>2
<1> QED
  BY <1>7, <1>8 DEF FileInv

\* A reply that is not a failure, or is one of a call that has not taken effect.
LEMMA ReplyFiles ==
  ASSUME FilesTyped, FileInv, NEW w \in Puts, NEW o \in Outcomes, Reply(w, o),
         o = "failed" => pc[w] \in {"open"} \cup Writing,
         UNCHANGED <<target, tmp, content, mode, effected, reader>>
  PROVE  FileInv'
<1>1. CallsFiled /\ WriterInv
  BY FiledTypes DEF FileInv
<1>2. /\ target' = target /\ tmp' = tmp /\ content' = content /\ mode' = mode
      /\ effected' = effected /\ reader' = reader /\ End({w})
  BY DEF Reply
<1>3. outcome'[w] = o /\ \A v \in Puts : v # w => outcome'[v] = outcome[v]
  BY <1>1, ReplyTyped
<1>4. ASSUME NEW k \in DOMAIN effected
      PROVE  outcome'[effected[k]] # "failed"
  <2>1. effected[k] \in Puts
    BY <1>1 DEF CallsFiled
  <2>2. outcome[effected[k]] # "failed"
    BY <1>1 DEF WriterInv
  <2>3. effected[k] = w => o # "failed"
    BY <1>1 DEF WriterInv
  <2> QED
    BY <1>3, <2>1, <2>2, <2>3
<1> QED
  BY <1>2, <1>3, <1>4, EndFiles

\* The client goes away, or the post-write action begins.
LEMMA GoneFiles ==
  ASSUME FilesTyped, FileInv, NEW w \in Puts,
         \/ pc' = pc
         \/ pc[w] = "action" /\ Go(w, "acting"),
         UNCHANGED <<target, tmp, content, mode, fd, perms, outcome, effected, reader>>
  PROVE  FileInv'
<1>1. CallsFiled /\ InodesInv /\ WriterInv /\ TargetInv
  BY FiledTypes DEF FileInv
<1>2. /\ target' = target /\ tmp' = tmp /\ content' = content /\ mode' = mode /\ fd' = fd
      /\ perms' = perms /\ outcome' = outcome /\ effected' = effected /\ reader' = reader
  OBVIOUS
<1>3. \A v \in Puts : pc'[v] = pc[v] \/ (v = w /\ pc[v] = "action" /\ pc'[v] = "acting")
  <2>1. CASE pc[w] = "action" /\ Go(w, "acting")
    BY <1>1, <2>1, GoTyped, FileWords
  <2> QED
    BY <2>1
<1>4. ASSUME NEW v \in Puts
      PROVE  Alone(v)'
  <2>1. Alone(v)
    BY <1>1, AloneAll
  <2>2. CASE pc'[v] = pc[v]
    BY <1>2, <2>1, <2>2 DEF Alone
  <2>3. CASE pc'[v] = "acting"
    BY <2>3 DEF Alone, Writing
  <2> QED
    BY <1>3, <2>2, <2>3
<1>5. \A u, v \in InFlight' : u = v
  <2>1. \A v \in InFlight' : v \in InFlight
    BY <1>3 DEF InFlight
  <2> QED
    BY <1>1, <2>1 DEF WriterInv
<1>6. /\ tmp' # NoFile => tmp' # target' /\ tmp' # reader'.inode
      /\ \A k \in DOMAIN effected' : outcome'[effected'[k]] # "failed"
  BY <1>1, <1>2 DEF InodesInv, WriterInv
<1>7. (InodesInv /\ WriterInv)'
  BY <1>4, <1>5, <1>6, AloneNext
<1>8. TargetInv'
  BY <1>1, <1>2 DEF TargetInv, LastOne
<1> QED
  BY <1>7, <1>8 DEF FileInv

\* A file that is open for reading is one that nobody writes.
LEMMA ReadFiles ==
  ASSUME FilesTyped, FileInv, Read
  PROVE  FileInv'
<1>1. CallsFiled /\ FilesFiled /\ ReaderFiled /\ InodesInv /\ WriterInv /\ TargetInv
  BY FiledTypes DEF FileInv
<1>2. /\ target' = target /\ tmp' = tmp /\ content' = content /\ mode' = mode /\ fd' = fd /\ pc' = pc
      /\ perms' = perms /\ outcome' = outcome /\ effected' = effected
  BY DEF Read, callVars
<1>3. reader'.inode \in {reader.inode, target, NoFile}
  BY <1>1, ReadShape, ClosedFacts
<1>4. ASSUME NEW v \in Puts
      PROVE  Alone(v)'
  <2>1. Alone(v) /\ v # NoFile
    BY <1>1, AloneAll, ConfigAssumption
  <2> QED
    BY <1>2, <1>3, <2>1 DEF Alone
<1>5. /\ tmp' # NoFile => tmp' # target' /\ tmp' # reader'.inode
      /\ \A k \in DOMAIN effected' : outcome'[effected'[k]] # "failed"
      /\ \A u, v \in InFlight' : u = v
  BY <1>1, <1>2, <1>3 DEF InodesInv, WriterInv, InFlight
<1>6. (InodesInv /\ WriterInv)'
  BY <1>4, <1>5, AloneNext
<1>7. ASSUME reader'.inode # NoFile
      PROVE  \E v \in Inodes : content[reader'.inode] = Whole(v)
                               /\ \A k \in DOMAIN reader'.read : reader'.read[k] = v
  <2>1. CASE reader.inode = NoFile /\ reader' = [inode |-> target, read |-> reader.read]
    <3>1. reader'.inode = target /\ DOMAIN reader'.read = {}
      BY <1>1, <2>1 DEF ReaderFiled
    <3>2. content[target] = Whole(LastOne) /\ LastOne \in Inodes
      BY <1>1 DEF TargetInv, LastOne, CallsFiled, Inodes
    <3> QED
      BY <3>1, <3>2
  <2>2. CASE /\ reader.inode # NoFile /\ Len(reader.read) < 2
             /\ reader' = [inode |-> reader.inode,
                           read |-> Append(reader.read, content[reader.inode][Len(reader.read) + 1])]
    <3> DEFINE s == reader.read
               b == content[reader.inode][Len(s) + 1]
    <3>1. PICK v \in Inodes : content[reader.inode] = Whole(v) /\ \A k \in DOMAIN s : s[k] = v
      BY <1>1, <2>2 DEF TargetInv
    <3>2. s \in Seq(Inodes \cup {NoFile}) /\ Len(s) + 1 \in 1..2
      BY <1>1, <2>2 DEF ReaderFiled
    <3>3. b = v
      BY <3>1, <3>2 DEF Whole
    <3>4. reader'.inode = reader.inode /\ reader'.read = Append(s, b)
      BY <2>2
    <3> HIDE DEF b, s
    <3>5. \A k \in DOMAIN Append(s, b) : Append(s, b)[k] = v
      BY <3>1, <3>2, <3>3
    <3> QED
      BY <3>1, <3>4, <3>5
  <2>3. CASE reader' = Closed
    BY <1>7, <2>3, ClosedFacts
  <2> QED
    BY <1>1, <2>1, <2>2, <2>3, ReadShape
<1>8. TargetInv'
  BY <1>1, <1>2, <1>7 DEF TargetInv, LastOne
<1> QED
  BY <1>6, <1>8 DEF FileInv

\* A step that leaves the file, its calls and its reader alone keeps FileInv.
LEMMA FileStutter ==
  ASSUME FileInv, UNCHANGED vars
  PROVE  FileInv'
<1>1. /\ target' = target /\ tmp' = tmp /\ content' = content /\ mode' = mode /\ fd' = fd /\ pc' = pc
      /\ perms' = perms /\ outcome' = outcome /\ effected' = effected /\ reader' = reader
  BY DEF vars, callVars
<1> QED
  BY <1>1 DEF FileInv, InodesInv, WriterInv, TargetInv, InFlight, LastOne
\* FileInv is inductive when calls on the file do not overlap.
LEMMA FilesKept ==
  ASSUME AtOnce <= 1, FilesTyped, FileInv, HostNext
  PROVE  FileInv'
<1>1. ASSUME NEW w \in Puts, PutStep(w)
      PROVE  FileInv'
  <2>1. CASE Fail(w)
    <3>1. /\ Reply(w, "failed") /\ UNCHANGED <<target, tmp, content, mode, effected, reader>>
          /\ pc[w] \in {"open"} \cup Writing
      BY <2>1 DEF Fail, Writing
    <3> QED
      BY <3>1, ReplyFiles, FileWords
  <2>2. CASE Abandon(w)
    <3>1. pc' = pc /\ UNCHANGED <<target, tmp, content, mode, fd, perms, outcome, effected, reader>>
      BY <2>2 DEF Abandon
    <3> QED
      BY <3>1, GoneFiles
  <2>3. CASE Over(w)
    <3>1. /\ End({w}) /\ outcome' = outcome /\ effected' = effected /\ reader' = reader
          /\ target' = target /\ tmp' = tmp /\ content' = content /\ mode' = mode
      BY <2>3 DEF Over
    <3>2. \A k \in DOMAIN effected : outcome'[effected[k]] # "failed"
      BY <3>1 DEF FileInv, WriterInv
    <3> QED
      BY <3>1, <3>2, EndFiles
  <2>4. CASE Block(w, 1) \/ Block(w, 2)
    BY <2>4, BlockFiles
  <2> QED
    BY <1>1, <2>1, <2>2, <2>3, <2>4, StatFiles, OpenFiles, ChmodFiles, RenameFiles DEF PutStep
<1>2. ASSUME NEW w \in Puts, Act(w) \/ Acted(w) \/ ActOver(w)
      PROVE  FileInv'
  <2>1. UNCHANGED <<target, tmp, content, mode, effected, reader>>
    BY <1>2 DEF Act, Acted, ActOver
  <2>2. ASSUME Reply(w, "written") \/ Reply(w, "applied") \/ Reply(w, "unapplied")
        PROVE  FileInv'
    BY <2>1, <2>2, ReplyFiles, FileWords
  <2>3. CASE Act(w)
    <3>1. ASSUME Go(w, "acting"), UNCHANGED callVars
          PROVE  FileInv'
      <4>1. pc[w] = "action" /\ UNCHANGED <<target, tmp, content, mode, fd, perms, outcome, effected, reader>>
        BY <2>1, <2>3, <3>1 DEF Act, At, callVars
      <4> QED
        BY <3>1, <4>1, GoneFiles
    <3> QED
      BY <2>2, <2>3, <3>1, Zenon DEF Act
  <2>4. CASE Acted(w)
    BY <2>2, <2>4 DEF Acted
  <2>5. CASE ActOver(w)
    <3>1. /\ End({w}) /\ outcome' = outcome /\ effected' = effected /\ reader' = reader
          /\ target' = target /\ tmp' = tmp /\ content' = content /\ mode' = mode
      BY <2>5 DEF ActOver
    <3>2. \A k \in DOMAIN effected : outcome'[effected[k]] # "failed"
      BY <3>1 DEF FileInv, WriterInv
    <3> QED
      BY <3>1, <3>2, EndFiles
  <2> QED
    BY <1>2, <2>3, <2>4, <2>5
<1>3. ASSUME Restart
      PROVE  FileInv'
  <2>1. /\ End(InFlight) /\ tmp' = NoFile /\ reader' = Closed /\ target' = target /\ content' = content
        /\ mode' = mode /\ outcome' = outcome /\ effected' = effected
    BY <1>3 DEF Restart
  <2>2. \A k \in DOMAIN effected : outcome'[effected[k]] # "failed"
    BY <2>1 DEF FileInv, WriterInv
  <2> QED
    BY <2>1, <2>2, EndFiles
<1>4. ASSUME UNCHANGED vars
      PROVE  FileInv'
  BY <1>4, FileStutter
<1>5. Load => UNCHANGED vars
  BY DEF Load
<1>6. UNCHANGED <<vars, loaded>> => UNCHANGED vars
  OBVIOUS
<1> QED
  BY <1>1, <1>2, <1>3, <1>4, <1>5, <1>6, ReadFiles, FileSteps

\* When no two PutConfig calls are in flight at a time, the file is always whole.
THEOREM FileAlways == ASSUME AtOnce <= 1 PROVE HostSpec => []FileInv
<1>1. HostInit => FileInv
  <2> SUFFICES ASSUME HostInit
               PROVE  FileInv
    OBVIOUS
  <2>1. Init
    BY DEF HostInit, PutInit
  <2>2. /\ target = Old /\ tmp = NoFile
        /\ content = [i \in Inodes |-> IF i = Old THEN Whole(Old) ELSE Whole(NoFile)]
        /\ pc = [w \in Puts |-> "idle"] /\ outcome = [w \in Puts |-> "none"]
        /\ effected = <<>> /\ reader = Closed
    BY <2>1 DEF Init
  <2>3. Old \in Inodes /\ Old \notin Puts /\ NoFile \notin Puts /\ DOMAIN effected = {}
    BY <2>2, ConfigAssumption DEF Inodes
  <2>4. InodesInv
    BY <2>2, <2>3, ClosedFacts DEF InodesInv
  <2>5. WriterInv
    BY <2>2, <2>3 DEF WriterInv, InFlight, Writing
  <2>6. TargetInv
    BY <2>2, <2>3, ClosedFacts DEF TargetInv, LastOne
  <2> QED
    BY <2>4, <2>5, <2>6 DEF FileInv
<1>2. FilesTyped /\ FileInv /\ [HostNext]_hostVars => FileInv'
  <2>1. UNCHANGED hostVars => UNCHANGED vars
    BY DEF hostVars, putVars
  <2> QED
    BY <2>1, FilesKept, FileStutter
<1> QED
  BY <1>1, <1>2, FilesAlways, PTL DEF HostSpec

\* What FileInv says to somebody who reads the file.
LEMMA FileMeans ==
  ASSUME FilesTyped, FileInv
  PROVE  /\ ModeInv => FileIntact
         /\ TargetWhole /\ content[target] = Whole(LastOne) /\ LastOne \in Inodes
<1>1. CallsFiled /\ FilesFiled /\ ReaderFiled /\ WriterInv /\ TargetInv
  BY FiledTypes DEF FileInv
<1>2. content[target] = Whole(LastOne) /\ LastOne \in Inodes
  BY <1>1 DEF TargetInv, LastOne, CallsFiled, Inodes
<1>3. \A k \in 1..2 : content[target][k] = LastOne
  BY <1>2 DEF Whole
<1>4. ASSUME NEW w \in Puts, outcome[w] = "failed"
      PROVE  w \notin {content[target][k] : k \in 1..2}
  <2>1. w # LastOne
    <3>1. CASE effected = <<>>
      BY <3>1, ConfigAssumption DEF LastOne
    <3>2. CASE effected # <<>>
      <4>1. Len(effected) \in DOMAIN effected
        BY <1>1, <3>2 DEF CallsFiled
      <4>2. outcome[effected[Len(effected)]] # "failed"
        BY <1>1, <4>1 DEF WriterInv
      <4> QED
        BY <1>4, <3>2, <4>2 DEF LastOne
    <3> QED
      BY <3>1, <3>2
  <2> QED
    BY <1>3, <2>1
<1>6. ASSUME Len(reader.read) = 2
      PROVE  reader.read[1] = reader.read[2] /\ reader.read[1] # NoFile
  <2>1. reader.inode # NoFile /\ 1 \in DOMAIN reader.read /\ 2 \in DOMAIN reader.read
    BY <1>1, <1>6 DEF ReaderFiled
  <2>2. PICK v \in Inodes : reader.read[1] = v /\ reader.read[2] = v
    BY <1>1, <2>1 DEF TargetInv
  <2>3. v # NoFile
    BY ConfigAssumption DEF Inodes
  <2> QED
    BY <2>2, <2>3
<1> QED
  BY <1>2, <1>4, <1>6 DEF FileIntact, TargetWhole, ModeInv

-----------------------------------------------------------------------------
(* The file's mode.                                                        *)

\* Steps that leave the modes and what took effect, and bring no call to write.
LEMMA ModeAside ==
  ASSUME ModeInv, UNCHANGED <<target, mode, perms, effected>>,
         \A w \in Puts : pc'[w] \in {"open"} \cup Writing => pc[w] \in {"open"} \cup Writing,
         \A w \in Puts : pc'[w] = "rename" => pc[w] = "rename" /\ tmp' = tmp
  PROVE  ModeInv'
BY DEF ModeInv, Unseen

\* metadata() gives the file's mode or none.
LEMMA StatMode ==
  ASSUME AtOnce <= 1, FilesTyped, FileInv, ModeInv, NEW w \in Puts, Stat(w)
  PROVE  ModeInv'
<1>1. PICK seen \in {mode[target], "unseen"} \ {"none"} :
      /\ perms' = [perms EXCEPT ![w] = seen] /\ pc[w] = "idle" /\ Go(w, "open")
      /\ target' = target /\ tmp' = tmp /\ mode' = mode /\ effected' = effected /\ InFlight = {}
  BY NobodyElse DEF Stat, At
<1>2. CallsFiled /\ WriterInv
  BY FiledTypes DEF FileInv
<1>3. pc'[w] = "open" /\ \A v \in Puts : v # w => pc'[v] = pc[v] /\ pc[v] \in {"idle", "done"}
  BY <1>1, <1>2, GoTyped, FileWords DEF InFlight
<1>4. perms'[w] = seen /\ \A v \in Puts : v # w => perms'[v] = perms[v]
  BY <1>1, <1>2 DEF CallsFiled
<1>5. Unseen => Unseen'
  <2>1. \A k \in DOMAIN effected : effected[k] \in Puts /\ effected[k] # w
    BY <1>1, <1>2 DEF CallsFiled, WriterInv
  <2> QED
    BY <1>1, <1>4, <2>1 DEF Unseen
<1>6. /\ seen \in {"file", "default", "unseen"} /\ (seen = "default" => Unseen)
      /\ mode[target] # "new" /\ (mode[target] = "default" => Unseen)
      /\ mode[target] = "none" => effected = <<>>
  <2>1. mode[target] \in {"file", "default", "new", "none"}
    BY FiledTypes DEF FilesFiled
  <2> QED
    BY <1>1, <2>1 DEF ModeInv
<1> QED
  BY <1>1, <1>3, <1>4, <1>5, <1>6 DEF ModeInv, Writing

\* The temporary file gets the mode that was seen, or 0o644.
LEMMA ChmodMode ==
  ASSUME FilesTyped, FileInv, ModeInv, NEW w \in Puts, Chmod(w)
  PROVE  ModeInv'
<1> DEFINE bits == IF perms[w] = "unseen" THEN "default" ELSE perms[w]
<1>1. /\ pc[w] = "chmod" /\ tmp # NoFile /\ mode' = [mode EXCEPT ![tmp] = bits] /\ Go(w, "rename")
      /\ target' = target /\ tmp' = tmp /\ perms' = perms /\ effected' = effected
  BY DEF Chmod, At, callVars
<1>2. CallsFiled /\ FilesFiled /\ WriterInv /\ InodesInv
  BY FiledTypes DEF FileInv
<1>3. pc'[w] = "rename" /\ \A v \in Puts : v # w => pc'[v] = pc[v]
  BY <1>1, <1>2, GoTyped, FileWords
<1>4. \A v \in Puts : v # w => pc[v] \in {"idle", "done"}
  BY <1>1, <1>2 DEF WriterInv, InFlight
<1>5. perms[w] \in {"file", "default", "unseen"} /\ (perms[w] = "default" => Unseen)
  BY <1>1, <1>2 DEF ModeInv, CallsFiled, Writing
<1>6. mode'[tmp] = bits /\ mode'[target] = mode[target]
  BY <1>1, <1>2 DEF FilesFiled, InodesInv
<1>7. Unseen' <=> Unseen
  BY <1>1 DEF Unseen
<1>8. bits \in {"file", "default"} /\ (bits = "default" => Unseen \/ perms[w] = "unseen")
  BY <1>5
<1> HIDE DEF bits
<1> QED
  BY <1>1, <1>3, <1>4, <1>5, <1>6, <1>7, <1>8 DEF ModeInv, Writing

\* The file takes the temporary file's mode.
LEMMA RenameMode ==
  ASSUME FilesTyped, FileInv, ModeInv, NEW w \in Puts, Rename(w)
  PROVE  ModeInv'
<1>1. /\ pc[w] = "rename" /\ target' = tmp /\ effected' = Append(effected, w) /\ Go(w, "action")
      /\ mode' = mode /\ perms' = perms
  BY DEF Rename, At, callVars
<1>2. CallsFiled /\ WriterInv
  BY FiledTypes DEF FileInv
<1>3. pc'[w] = "action" /\ \A v \in Puts : v # w => pc'[v] = pc[v]
  BY <1>1, <1>2, GoTyped, FileWords
<1>4. \A v \in Puts : v # w => pc[v] \in {"idle", "done"}
  BY <1>1, <1>2 DEF WriterInv, InFlight
<1>5. mode[tmp] \in {"file", "default"} /\ (mode[tmp] = "default" => Unseen \/ perms[w] = "unseen")
  BY <1>1 DEF ModeInv
<1>6. Unseen \/ perms[w] = "unseen" => Unseen'
  <2>1. /\ DOMAIN effected' = 1..(Len(effected) + 1) /\ effected'[Len(effected) + 1] = w
        /\ DOMAIN effected = 1..Len(effected) /\ Len(effected) \in Nat
        /\ \A j \in 1..Len(effected) : effected'[j] = effected[j]
    BY <1>1, <1>2 DEF CallsFiled
  <2>2. \A k \in DOMAIN effected : k \in DOMAIN effected' /\ effected'[k] = effected[k]
    BY <2>1
  <2>3. Len(effected) + 1 \in DOMAIN effected'
    BY <2>1
  <2> QED
    BY <1>1, <2>1, <2>2, <2>3 DEF Unseen
<1>7. \A v \in Puts : pc'[v] \notin {"open"} \cup Writing
  BY <1>3, <1>4 DEF Writing
<1> QED
  BY <1>1, <1>5, <1>6, <1>7 DEF ModeInv, Writing

\* ModeInv is inductive when calls on the file do not overlap.
LEMMA ModeKept ==
  ASSUME AtOnce <= 1, FilesTyped, FileInv, ModeInv, HostNext
  PROVE  ModeInv'
<1>1. CallsFiled /\ WriterInv
  BY FiledTypes DEF FileInv
<1>2. ASSUME NEW w \in Puts, NEW op \in PcKinds, Go(w, op), UNCHANGED <<target, mode, perms, effected>>,
             op \in {"open"} \cup Writing => pc[w] \in {"open"} \cup Writing, op # "rename",
             pc[w] \notin {"idle", "done"}
      PROVE  ModeInv'
  <2>1. pc'[w] = op /\ \A v \in Puts : v # w => pc'[v] = pc[v]
    BY <1>1, <1>2, GoTyped
  <2>2. \A v \in Puts : v # w => pc[v] \in {"idle", "done"}
    BY <1>1, <1>2 DEF WriterInv, InFlight
  <2> QED
    BY <1>2, <2>1, <2>2, ModeAside
<1>3. ASSUME NEW over, End(over), UNCHANGED <<target, mode, effected>>,
             tmp' = tmp \/ over = InFlight
      PROVE  ModeInv'
  <2>1. /\ perms' = perms
        /\ \A w \in Puts : w \in over => pc'[w] = "done"
        /\ \A w \in Puts : w \notin over => pc'[w] = pc[w]
    BY <1>1, <1>3, EndTyped
  <2>2. \A w \in Puts : pc'[w] = pc[w] \/ pc'[w] = "done"
    BY <2>1
  <2>3. \A w \in Puts : pc'[w] = "rename" => pc[w] = "rename" /\ tmp' = tmp
    BY <1>3, <2>1 DEF InFlight
  <2>4. \A w \in Puts : pc'[w] \in {"open"} \cup Writing => pc[w] \in {"open"} \cup Writing
    BY <2>2 DEF Writing
  <2> QED
    BY <1>3, <2>1, <2>3, <2>4, ModeAside
<1>4. ASSUME UNCHANGED <<target, tmp, mode, perms, effected, pc>>
      PROVE  ModeInv'
  BY <1>4, ModeAside
<1>5. ASSUME NEW w \in Puts, PutStep(w)
      PROVE  ModeInv'
  <2>1. CASE Open(w)
    <3>1. Go(w, "block1") /\ pc[w] = "open" /\ UNCHANGED <<target, mode, perms, effected>>
      BY <2>1 DEF Open, At
    <3> QED
      BY <1>2, <3>1, FileWords
  <2>2. ASSUME NEW k \in 1..2, Block(w, k)
        PROVE  ModeInv'
    <3>1. /\ pc[w] \in {"block1", "block2"} /\ UNCHANGED <<target, mode, perms, effected>>
          /\ Go(w, IF k = 1 THEN "block2" ELSE "chmod")
      BY <2>2 DEF Block, callVars
    <3>2. CASE k = 1
      BY <1>2, <3>1, <3>2, FileWords DEF Writing
    <3>3. CASE k # 1
      BY <1>2, <3>1, <3>3, FileWords DEF Writing
    <3> QED
      BY <3>2, <3>3
  <2>3. CASE Fail(w) \/ Over(w)
    BY <1>3, <2>3 DEF Fail, Over, Reply
  <2>4. CASE Abandon(w)
    BY <1>4, <2>4 DEF Abandon
  <2> QED
    BY <1>5, <2>1, <2>2, <2>3, <2>4, StatMode, ChmodMode, RenameMode DEF PutStep
<1>6. ASSUME NEW w \in Puts, Act(w) \/ Acted(w) \/ ActOver(w)
      PROVE  ModeInv'
  <2>1. UNCHANGED <<target, tmp, mode, effected>>
    BY <1>6 DEF Act, Acted, ActOver
  <2>2. CASE End({w})
    BY <1>3, <2>1, <2>2
  <2>3. CASE pc[w] = "action" /\ Go(w, "acting") /\ UNCHANGED callVars
    <3>1. UNCHANGED perms
      BY <2>3 DEF callVars
    <3> QED
      BY <1>2, <2>1, <2>3, <3>1, FileWords DEF Writing
  <2> QED
    BY <1>6, <2>2, <2>3, Zenon DEF Act, Acted, ActOver, Reply, At
<1>7. ASSUME Restart
      PROVE  ModeInv'
  BY <1>3, <1>7 DEF Restart
<1>8. Read => ModeInv'
  BY <1>4 DEF Read, callVars
<1>9. UNCHANGED vars => ModeInv'
  BY <1>4 DEF vars, callVars
<1>10. Load => UNCHANGED vars
  BY DEF Load
<1>11. UNCHANGED <<vars, loaded>> => UNCHANGED vars
  OBVIOUS
<1> QED
  BY <1>5, <1>6, <1>7, <1>8, <1>9, <1>10, <1>11, FileSteps

\* The file's mode, when no two PutConfig calls are in flight at a time.
THEOREM ModeAlways == ASSUME AtOnce <= 1 PROVE HostSpec => []ModeInv
<1>1. HostInit => ModeInv
  <2> SUFFICES ASSUME HostInit
               PROVE  ModeInv
    OBVIOUS
  <2>1. Init
    BY DEF HostInit, PutInit
  <2>2. target = Old /\ pc = [w \in Puts |-> "idle"] /\ effected = <<>> /\ mode[Old] \in {"file", "none"}
    BY <2>1 DEF Init, Inodes
  <2> QED
    BY <2>2 DEF ModeInv, Writing
<1>2. FilesTyped /\ FileInv /\ ModeInv /\ [HostNext]_hostVars => ModeInv'
  <2>1. UNCHANGED hostVars => UNCHANGED <<target, tmp, mode, perms, effected, pc>>
    BY DEF hostVars, putVars, vars, callVars
  <2>2. ModeInv /\ UNCHANGED <<target, tmp, mode, perms, effected, pc>> => ModeInv'
    BY ModeAside
  <2> QED
    BY <2>1, <2>2, ModeKept
<1> QED
  BY <1>1, <1>2, FilesAlways, FileAlways, PTL DEF HostSpec

\* A failed PutConfig has left nothing in the file, the file loses its mode only by a
\* write that could not read it, and no reader gets half of one content and half
\* of another.
THEOREM FileStaysIntact == ASSUME AtOnce <= 1 PROVE HostSpec => []FileIntact
<1>1. FilesTyped /\ FileInv /\ ModeInv => FileIntact
  BY FileMeans
<1> QED
  BY <1>1, FilesAlways, FileAlways, ModeAlways, PTL

\* What a reader of module AtomicFile sees of the file.
FileSeen == IF TargetWhole THEN content[target][1] ELSE NoFile
Effected == {effected[k] : k \in DOMAIN effected}

\* The reader of the file sees its last writer.
LEMMA SeenFacts == FilesTyped /\ FileInv => FileSeen = LastOne
<1> SUFFICES ASSUME FilesTyped, FileInv
             PROVE  FileSeen = LastOne
  OBVIOUS
<1>1. TargetWhole /\ content[target] = Whole(LastOne)
  BY FileMeans
<1> QED
  BY <1>1 DEF FileSeen, Whole

\* Only the rename changes what was effected.
LEMMA EffectedSteps ==
  ASSUME HostNext
  PROVE  effected' = effected \/ \E w \in Puts : Rename(w)
<1>1. ASSUME NEW w \in Puts, PutStep(w)
      PROVE  effected' = effected \/ Rename(w)
  BY <1>1, Zenon DEF PutStep, Stat, Open, Block, Chmod, Fail, Abandon, Over
<1>2. ASSUME NEW w \in Puts, Act(w) \/ Acted(w) \/ ActOver(w)
      PROVE  effected' = effected
  BY <1>2 DEF Act, Acted, ActOver
<1>3. UNCHANGED vars => effected' = effected
  BY DEF vars
<1>4. (Read \/ Restart => effected' = effected) /\ (Load => UNCHANGED vars)
  BY DEF Read, Restart, Load
<1>5. UNCHANGED <<vars, loaded>> => UNCHANGED vars
  OBVIOUS
<1> QED
  BY <1>1, <1>2, <1>3, <1>4, <1>5, FileSteps, Zenon

\* The file keeps its promise, that of module AtomicFile: at every moment it is as a whole
\* what one call wrote, and it changes only when a write takes effect, once for each.
THEOREM FileKeepsPromise == ASSUME AtOnce <= 1 PROVE HostSpec => KeepsPromise
<1>1. HostInit /\ FilesTyped /\ FileInv => Promise!Init
  <2> SUFFICES ASSUME HostInit, FilesTyped, FileInv
               PROVE  Promise!Init
    OBVIOUS
  <2>1. effected = <<>>
    BY DEF HostInit, PutInit, Init
  <2>2. LastOne = Old /\ {effected[k] : k \in DOMAIN effected} = {}
    BY <2>1 DEF LastOne
  <2>3. FileSeen = Old
    BY <2>2, SeenFacts
  <2> QED
    BY <2>2, <2>3 DEF Promise!Init, FileSeen
<1>2. FilesTyped /\ FileInv /\ (FilesTyped /\ FileInv)' /\ [HostNext]_hostVars
        => [\E w \in Puts : Promise!Effect(w)]_<<FileSeen, Effected>>
  <2> SUFFICES ASSUME FilesTyped, FileInv, FilesTyped', FileInv', [HostNext]_hostVars
               PROVE  [\E w \in Puts : Promise!Effect(w)]_<<FileSeen, Effected>>
    OBVIOUS
  <2>1. FileSeen = LastOne
    BY SeenFacts
  <2>2. (FileSeen = LastOne)'
    BY SeenFacts, PTL
  <2>3. ASSUME effected' = effected
        PROVE  UNCHANGED <<FileSeen, Effected>>
    <3>1. LastOne' = LastOne /\ Effected' = Effected
      BY <2>3 DEF LastOne, Effected
    <3> QED
      BY <2>1, <2>2, <3>1
  <2>4. ASSUME NEW w \in Puts, Rename(w)
        PROVE  Promise!Effect(w)
    <3>1. effected' = Append(effected, w) /\ pc[w] = "rename" /\ effected \in Seq(Puts)
      BY <2>4, FiledTypes DEF Rename, At, CallsFiled
    <3>2. w \notin Effected
      BY <3>1 DEF FileInv, WriterInv, Writing, Effected
    <3>3. LastOne' = w
      BY <3>1 DEF LastOne
    <3>4. Effected' = Effected \cup {w}
      <4>1. /\ DOMAIN effected' = 1..(Len(effected) + 1) /\ effected'[Len(effected) + 1] = w
            /\ DOMAIN effected = 1..Len(effected) /\ Len(effected) \in Nat
            /\ \A j \in 1..Len(effected) : effected'[j] = effected[j]
        BY <3>1
      <4>2. \A v : (\E j \in DOMAIN effected' : effected'[j] = v)
                   <=> (\E j \in DOMAIN effected : effected[j] = v) \/ v = w
        BY <4>1
      <4> QED
        BY <4>2 DEF Effected
    <3> QED
      BY <2>2, <3>2, <3>3, <3>4 DEF Promise!Effect, FileSeen, Effected
  <2>5. UNCHANGED hostVars => effected' = effected
    BY DEF hostVars, putVars, vars
  <2> QED
    BY <2>3, <2>4, <2>5, EffectedSteps
<1> QED
  BY <1>1, <1>2, FilesAlways, FileAlways, PTL DEF HostSpec, KeepsPromise, Promise!Spec, FileSeen, Effected

-----------------------------------------------------------------------------
(* The post-write action.                                                  *)

\* A step of a call keeps what the call is, and the others as they are.
LEMMA StepKeeps ==
  ASSUME CallsInv, NEW c \in Callers, Step(c)
  PROVE  /\ call[c] # NoCall /\ call'[c].op = call[c].op /\ call'[c].on = call[c].on
         /\ \A b \in Callers : b # c => call'[b] = call[b]
         /\ call'[c].did = call[c].did \/ call[c].todo[1].do \in ChangeKinds
<1>1. call = [b \in Callers |-> call[b]] /\ call' = [call EXCEPT ![c] = call'[c]]
  BY DEF CallsInv, Step
<1>2. \A b \in Callers : b # c => call'[b] = call[b]
  BY <1>1
<1> DEFINE r == call[c]
           r2 == call'[c]
<1>3. Moves(r, r2, FactsOf(r))
  BY DEF Step
<1> HIDE DEF r, r2
<1>4. r.todo # <<>>
  BY <1>3 DEF Moves
<1>5. r # NoCall
  <2>1. NoCall.todo = <<>>
    BY DEF NoCall
  <2> QED
    BY <1>4, <2>1
<1>6. ASSUME NEW n, Goes(r, r2, n)
      PROVE  r2.op = r.op /\ r2.on = r.on
  BY <1>6 DEF Goes
<1>7. r2.op = r.op /\ r2.on = r.on
  <2>1. Refuses(r, r2) => r2.op = r.op /\ r2.on = r.on
    BY DEF Refuses
  <2> QED
    BY <1>3, <1>6, <2>1 DEF Moves, Passes, Sees, Does, GivesUp
<1>8. r2.did = r.did \/ r.todo[1].do \in ChangeKinds
  <2>1. Refuses(r, r2) => r2.did = r.did
    BY DEF Refuses
  <2> QED
    BY <1>3, <2>1 DEF Moves, Passes, Sees, Does, GivesUp
<1> QED
  BY <1>2, <1>5, <1>7, <1>8 DEF r, r2

\* A step that fails has changed nothing.
LEMMA MissDid ==
  ASSUME CallsInv, NEW c \in Callers, Miss(c)
  PROVE  call'[c].did = call[c].did
<1> DEFINE r == call[c]
           err == Now(c).err
           x == IF err \in Statuses THEN Ended(r, err) ELSE Left(r, Behind(r.todo))
<1>1. call' = [call EXCEPT ![c] = x]
  BY DEF Miss
<1>2. r = [op |-> r.op, on |-> r.on, arg |-> r.arg, todo |-> r.todo, saw |-> r.saw, did |-> r.did,
           reply |-> r.reply]
  BY DEF CallsInv, CallInv, CallTyped
<1> DEFINE rest == Behind(r.todo)
<1> HIDE DEF r, err, rest
<1>3. Ended(r, err).did = r.did /\ Left(r, rest).did = r.did
  BY <1>2 DEF Ended, Left
<1>4. x.did = r.did
  BY <1>3 DEF rest
<1> HIDE DEF x
<1>5. call'[c] = x
  BY <1>1, OneChanges
<1> QED
  BY <1>4, <1>5 DEF r

\* The call of a post-write action.
LEMMA ActCall ==
  ASSUME CallsInv, NEW w \in Callers, NEW u \in Units, NEW kind \in Jobs, Begin(w, kind, u, 0, Job(kind, u))
  PROVE  /\ call[w] = NoCall /\ call'[w].op = kind /\ call'[w].on = u /\ call'[w].did = {}
         /\ \A b \in Callers : b # w => call'[b] = call[b]
<1> DEFINE q == Job(kind, u)
           x == Left([NoCall EXCEPT !.op = kind, !.on = u, !.arg = 0], q)
<1>1. call[w] = NoCall /\ call' = [call EXCEPT ![w] = x]
  BY DEF Begin
<1>2. q # <<>>
  BY JobScript DEF Steps
<1> HIDE DEF q
<1>3. x = New(kind, u, 0, q)
  BY <1>2, BeginShape
<1> HIDE DEF x
<1>4. call'[w] = x /\ call = [b \in Callers |-> call[b]]
  BY <1>1, OneChanges DEF CallsInv
<1>5. \A b \in Callers : b # w => call'[b] = call[b]
  BY <1>1, <1>4
<1> QED
  BY <1>1, <1>3, <1>4, <1>5 DEF New

\* A step of a post-write action changes nothing, or has systemd queue the job
\* it was made for.
LEMMA PostSteps ==
  ASSUME CallsInv, UnitsTypeOK, NEW w \in Puts, UnitStep(w) \/ (PublishStep(w) /\ UNCHANGED unit),
         call[w].op \in {"reload", "restart"}, call[w].on = BoundUnit
  PROVE  \/ unit' = unit /\ call'[w].did = call[w].did
         \/ unit'[BoundUnit].job \in {"reload", "restart"}
<1>1. w \in Callers /\ BoundUnit \in Units
  BY PutConfigAssumption
<1>2. ASSUME NEW step, Due(w, step), step \notin ChangeKinds, Step(w)
      PROVE  call'[w].did = call[w].did
  BY <1>1, <1>2, First, StepKeeps
<1>3. CASE PublishStep(w) /\ UNCHANGED unit
  <2>1. Due(w, "publish") /\ "publish" \notin ChangeKinds /\ Step(w)
    BY <1>1, <1>3, OtherSteps, StepKinds DEF PublishStep
  <2> QED
    BY <1>2, <1>3, <2>1
<1>4. CASE CheckStep(w) \/ BusStep(w) \/ ReadStep(w)
  <2>1. unit' = unit /\ Step(w)
    BY <1>1, <1>4, UnitSteps DEF CheckStep, BusStep, ReadStep, UnitStep
  <2>2. PICK step \in {"check", "connect", "load", "daemon_reload", "active", "enabled"} : Due(w, step)
    BY <1>4, Zenon DEF CheckStep, BusStep, ReadStep
  <2>3. step \notin ChangeKinds
    BY DEF ChangeKinds, Jobs, Files
  <2> QED
    BY <1>2, <2>1, <2>2, <2>3
<1>5. CASE ChangeStep(w)
  <2> DEFINE u == Now(w).on
  <2>1. PICK kind \in Jobs \cup Files :
          /\ Due(w, kind)
          /\ \/ /\ Do(w)
                /\ unit' = IF kind \in Jobs THEN [unit EXCEPT ![u].job = kind]
                           ELSE [unit EXCEPT ![u].enabled = (kind = "enable")]
             \/ Miss(w) /\ unit' = unit
    BY <1>5, Zenon DEF ChangeStep
  <2>2. CASE Miss(w) /\ unit' = unit
    BY <1>1, <2>2, MissDid
  <2>3. CASE Do(w) /\ unit' = IF kind \in Jobs THEN [unit EXCEPT ![u].job = kind]
                                ELSE [unit EXCEPT ![u].enabled = (kind = "enable")]
    <3>1. kind \in ChangeKinds
      BY DEF ChangeKinds
    <3>2. CallTyped(call[w]) /\ Settled(call[w]) /\ call[w].todo # <<>> /\ call[w].todo[1].do = kind
          /\ Now(w) = call[w].todo[1]
      BY <1>1, <2>1, First DEF CallsInv, CallInv
    <3>3. 1 \in DOMAIN call[w].todo
      BY <3>2 DEF CallTyped
    <3>4. <<kind, u>> \in May(call[w])
      BY <3>1, <3>2, <3>3 DEF Settled
    <3>5. May(call[w]) = {<<call[w].op, call[w].on>>}
      BY DEF May, Must
    <3>6. kind = call[w].op /\ u = BoundUnit
      <4> HIDE DEF u
      <4> QED
        BY <3>4, <3>5
    <3>7. kind \in Jobs
      BY <3>6 DEF Jobs
    <3> HIDE DEF u
    <3>8. unit' = [unit EXCEPT ![BoundUnit].job = kind]
      BY <2>3, <3>6, <3>7
    <3>9. unit'[BoundUnit].job = kind
      BY <1>1, <3>8 DEF UnitsTypeOK
    <3> QED
      BY <3>6, <3>9
  <2> QED
    BY <2>1, <2>2, <2>3
<1> QED
  BY <1>3, <1>4, <1>5 DEF UnitStep

\* The operations on the file are those of calls that act on no unit.
LEMMA PutStepActing ==
  ASSUME CallsFiled, NEW w \in Puts, PutStep(w), NEW v \in Puts
  PROVE  /\ pc[v] = "acting" => pc'[v] = "acting"
         /\ outcome'[v] = outcome[v] \/ outcome'[v] = "failed"
<1>1. ASSUME NEW op \in PcKinds, Go(w, op), outcome' = outcome, pc[w] # "acting"
      PROVE  /\ pc[v] = "acting" => pc'[v] = "acting"
             /\ outcome'[v] = outcome[v] \/ outcome'[v] = "failed"
  BY <1>1, GoTyped
<1>2. ASSUME End({w}), pc[w] # "acting", outcome' = outcome \/ Reply(w, "failed")
      PROVE  /\ pc[v] = "acting" => pc'[v] = "acting"
             /\ outcome'[v] = outcome[v] \/ outcome'[v] = "failed"
  <2>1. v # w => pc'[v] = pc[v]
    BY <1>2, EndTyped
  <2>2. outcome'[v] = outcome[v] \/ outcome'[v] = "failed"
    BY <1>2, ReplyTyped, FileWords
  <2> QED
    BY <1>2, <2>1, <2>2
<1>3. CASE Stat(w) \/ Open(w) \/ Chmod(w) \/ Rename(w)
  <2>1. /\ Go(w, "open") \/ Go(w, "block1") \/ Go(w, "rename") \/ Go(w, "action")
        /\ outcome' = outcome /\ pc[w] # "acting"
    BY <1>3 DEF Stat, Open, Chmod, Rename, At, callVars
  <2> QED
    BY <1>1, <2>1, FileWords
<1>4. ASSUME NEW k \in 1..2, Block(w, k)
      PROVE  /\ pc[v] = "acting" => pc'[v] = "acting"
             /\ outcome'[v] = outcome[v] \/ outcome'[v] = "failed"
  <2>1. (Go(w, "block2") \/ Go(w, "chmod")) /\ outcome' = outcome /\ pc[w] # "acting"
    BY <1>4 DEF Block, callVars
  <2> QED
    BY <1>1, <2>1, FileWords
<1>5. CASE Fail(w)
  BY <1>2, <1>5 DEF Fail, Reply
<1>6. CASE Abandon(w)
  BY <1>6 DEF Abandon
<1>7. CASE Over(w)
  BY <1>2, <1>7 DEF Over
<1> QED
  BY <1>3, <1>4, <1>5, <1>6, <1>7 DEF PutStep

\* Everything a step of ConfigService can do to the call, the outcome and the unit.
ActsOf(c) == c \in Puts /\ pc[c] = "acting" /\ call[c].op \in {"reload", "restart"} /\ call[c].on = BoundUnit

\* Only the post-write actions of PutConfig are calls of ConfigService.
LEMMA ActsKept ==
  ASSUME CallsInv, FilesTyped, ActsInv, HostNext
  PROVE  ActsInv'
<1>1. CallsFiled
  BY FiledTypes
<1>2. service' = service
  <2>1. (OnUnits => service' = service) /\ (OnMixer => service' = service) /\ (OnConfig => service' = service)
    BY DEF OnUnits, OnMixer, OnConfig
  <2> QED
    BY <2>1, Zenon DEF HostNext
<1>3. CASE service # "config"
  <2>1. UNCHANGED <<vars, loaded>>
    BY <1>3, FileSteps
  <2>2. effected' = effected
    BY <2>1 DEF vars
  <2> QED
    BY <1>2, <1>3, <2>2 DEF ActsInv
<1>4. CASE service = "config"
  <2>1. \A c \in Callers : call[c] = NoCall \/ ActsOf(c)
    BY <1>4 DEF ActsInv, ActsOf
  <2>2. SUFFICES ASSUME NEW c \in Callers, call'[c] # NoCall
                 PROVE  /\ c \in Puts /\ pc'[c] = "acting"
                        /\ call'[c].op \in {"reload", "restart"} /\ call'[c].on = BoundUnit
    BY <1>2, <1>4 DEF ActsInv
  <2>3. PutNext
    <3>1. ~OnUnits /\ ~OnMixer
      BY <1>4 DEF OnUnits, OnMixer
    <3> QED
      BY <3>1, Zenon DEF HostNext
  <2>4. \A w \in Puts : w \in Callers
    BY PutConfigAssumption
  <2>5. ASSUME call' = call, \A v \in Puts : pc[v] = "acting" => pc'[v] = "acting"
        PROVE  /\ c \in Puts /\ pc'[c] = "acting"
               /\ call'[c].op \in {"reload", "restart"} /\ call'[c].on = BoundUnit
    BY <2>1, <2>2, <2>5 DEF ActsOf
  <2>6. ASSUME NEW w \in Puts, PutStep(w), UNCHANGED <<call, unit, loaded>>
        PROVE  /\ c \in Puts /\ pc'[c] = "acting"
               /\ call'[c].op \in {"reload", "restart"} /\ call'[c].on = BoundUnit
    <3>1. call' = call
      BY <2>6
    <3> QED
      BY <1>1, <2>5, <2>6, <3>1, PutStepActing
  <2>7. ASSUME NEW w \in Puts, Act(w)
        PROVE  /\ c \in Puts /\ pc'[c] = "acting"
               /\ call'[c].op \in {"reload", "restart"} /\ call'[c].on = BoundUnit
    <3>1. CASE Reply(w, "written") /\ UNCHANGED call
      <4>1. End({w}) /\ pc[w] = "action"
        BY <2>7, <3>1 DEF Act, At, Reply
      <4>2. \A v \in Puts : pc[v] = "acting" => pc'[v] = "acting"
        BY <1>1, <4>1, EndTyped
      <4> QED
        BY <2>5, <3>1, <4>2
    <3>2. ASSUME NEW kind \in {"reload", "restart"}, Begin(w, kind, BoundUnit, 0, Job(kind, BoundUnit)),
                 Go(w, "acting")
          PROVE  /\ c \in Puts /\ pc'[c] = "acting"
                 /\ call'[c].op \in {"reload", "restart"} /\ call'[c].on = BoundUnit
      <4>1. kind \in Jobs /\ BoundUnit \in Units
        BY PutConfigAssumption DEF Jobs
      <4>2. /\ call'[w].op = kind /\ call'[w].on = BoundUnit
            /\ \A b \in Callers : b # w => call'[b] = call[b]
        BY <2>4, <3>2, <4>1, ActCall
      <4>3. pc'[w] = "acting" /\ \A v \in Puts : v # w => pc'[v] = pc[v]
        BY <1>1, <3>2, GoTyped, FileWords
      <4> QED
        BY <2>1, <2>2, <4>2, <4>3 DEF ActsOf
    <3> QED
      BY <2>7, <3>1, <3>2, Zenon DEF Act
  <2>8. ASSUME NEW over, Forget(over),
               \A v \in Puts : v \notin over /\ pc[v] = "acting" => pc'[v] = "acting"
        PROVE  /\ c \in Puts /\ pc'[c] = "acting"
               /\ call'[c].op \in {"reload", "restart"} /\ call'[c].on = BoundUnit
    BY <2>1, <2>2, <2>8 DEF ActsOf, Forget
  <2>9. ASSUME NEW w \in Puts, Acted(w) \/ ActOver(w)
        PROVE  /\ c \in Puts /\ pc'[c] = "acting"
               /\ call'[c].op \in {"reload", "restart"} /\ call'[c].on = BoundUnit
    <3>1. End({w}) /\ Forget({w})
      BY <2>9 DEF Acted, ActOver, Reply
    <3>2. \A v \in Puts : v # w => pc'[v] = pc[v]
      BY <1>1, <3>1, EndTyped
    <3> QED
      BY <2>8, <3>1, <3>2
  <2>10. CASE Restart /\ Forget(Puts)
    BY <2>8, <2>10
  <2>11. ASSUME NEW w \in Puts, UnitStep(w) \/ PublishStep(w), UNCHANGED vars
         PROVE  /\ c \in Puts /\ pc'[c] = "acting"
                /\ call'[c].op \in {"reload", "restart"} /\ call'[c].on = BoundUnit
    <3>1. Step(w)
      BY <2>4, <2>11, UnitSteps, OtherSteps
    <3>2. /\ call[w] # NoCall /\ call'[w].op = call[w].op /\ call'[w].on = call[w].on
          /\ \A b \in Callers : b # w => call'[b] = call[b]
      BY <2>4, <3>1, StepKeeps
    <3>3. pc' = pc
      BY <2>11 DEF vars
    <3> QED
      BY <2>1, <2>2, <2>4, <3>2, <3>3 DEF ActsOf
  <2>12. ASSUME Read, UNCHANGED <<call, unit, loaded>>
         PROVE  /\ c \in Puts /\ pc'[c] = "acting"
                /\ call'[c].op \in {"reload", "restart"} /\ call'[c].on = BoundUnit
    <3>1. pc' = pc /\ call' = call
      BY <2>12 DEF Read
    <3> QED
      BY <2>5, <3>1
  <2>13. ASSUME Load
         PROVE  /\ c \in Puts /\ pc'[c] = "acting"
                /\ call'[c].op \in {"reload", "restart"} /\ call'[c].on = BoundUnit
    <3>1. pc' = pc /\ call' = call
      BY <2>13 DEF Load, vars
    <3> QED
      BY <2>5, <3>1
  <2>14. \A w : UNCHANGED <<vars, loaded>> \/ UNCHANGED <<vars, unit, loaded>> => UNCHANGED vars
    OBVIOUS
  <2> QED
    BY <2>3, <2>6, <2>7, <2>9, <2>10, <2>11, <2>12, <2>13, <2>14, Zenon DEF PutNext
<1> QED
  BY <1>3, <1>4

\* The unit has read the file since, or will: for each call that has asked for it.
ReadOf(k) == Asked(effected[k]) =>
  unit[BoundUnit].job # "none" \/ \E j \in k..Len(effected) : loaded = Whole(effected[j])

\* A step that asks nothing more, with what the unit has read and its job as they are.
LEMMA ReadSame ==
  ASSUME FilesTyped, ReadInv, service = "config", service' = service,
         unit' = unit \/ unit'[BoundUnit].job \in {"reload", "restart"},
         effected' = effected, loaded' = loaded,
         unit' = unit => \A v \in Puts : Asked(v)' => Asked(v)
  PROVE  ReadInv'
<1>1. \A k \in DOMAIN effected : effected[k] \in Puts
  BY FiledTypes DEF CallsFiled
<1>2. CASE unit'[BoundUnit].job \in {"reload", "restart"}
  BY <1>2 DEF ReadInv
<1>3. CASE unit' = unit
  <2>1. unit'[BoundUnit].job \in {"none", "reload", "restart"}
    BY <1>3 DEF ReadInv
  <2>2. ASSUME NEW k \in DOMAIN effected, Asked(effected[k])'
        PROVE  unit'[BoundUnit].job # "none" \/ \E j \in k..Len(effected) : loaded = Whole(effected[j])
    <3>1. effected'[k] = effected[k] /\ effected[k] \in Puts
      BY <1>1
    <3>2. Asked(effected[k])
      <4> DEFINE v == effected[k]
      <4>1. Asked(v)'
        BY <2>2
      <4> QED
        BY <1>3, <2>2, <3>1 DEF Asked
    <3> QED
      BY <1>3, <3>2 DEF ReadInv
  <2> QED
    BY <2>1, <2>2 DEF ReadInv, Asked
<1> QED
  BY <1>2, <1>3

\* The write takes effect before the call asks anything of the unit.
LEMMA ReadRename ==
  ASSUME FilesTyped, FileInv, ActsInv, ReadInv, service = "config", service' = service,
         NEW w \in Puts, Rename(w), UNCHANGED <<call, unit, loaded>>
  PROVE  ReadInv'
<1>1. /\ pc[w] = "rename" /\ effected' = Append(effected, w) /\ outcome' = outcome
      /\ call' = call /\ unit' = unit /\ loaded' = loaded
  BY DEF Rename, At, callVars
<1>2. CallsFiled /\ WriterInv
  BY FiledTypes DEF FileInv
<1>3. /\ DOMAIN effected' = 1..(Len(effected) + 1) /\ effected'[Len(effected) + 1] = w
      /\ DOMAIN effected = 1..Len(effected) /\ Len(effected) \in Nat /\ Len(effected') = Len(effected) + 1
      /\ \A j \in 1..Len(effected) : effected'[j] = effected[j]
  BY <1>1, <1>2 DEF CallsFiled
<1>4. ~Asked(w)
  <2>1. outcome[w] = "none"
    BY <1>1, <1>2 DEF WriterInv, Writing
  <2>2. w \in Callers => call[w] = NoCall
    BY <1>1 DEF ActsInv
  <2>3. NoCall.did = {}
    BY DEF NoCall
  <2> QED
    BY <2>1, <2>2, <2>3 DEF Asked
<1>5. unit'[BoundUnit].job \in {"none", "reload", "restart"}
  BY <1>1 DEF ReadInv
<1>6. ASSUME NEW k \in DOMAIN effected', outcome[effected'[k]] = "applied"
                \/ (effected'[k] \in Callers /\ call[effected'[k]].did # {})
      PROVE  unit[BoundUnit].job # "none" \/ \E j \in k..Len(effected') : loaded = Whole(effected'[j])
  <2>1. k # Len(effected) + 1
    BY <1>3, <1>4, <1>6 DEF Asked
  <2>2. k \in DOMAIN effected /\ effected'[k] = effected[k]
    BY <1>3, <2>1
  <2>3. unit[BoundUnit].job # "none" \/ \E j \in k..Len(effected) : loaded = Whole(effected[j])
    BY <1>6, <2>2 DEF ReadInv, Asked
  <2>4. ASSUME NEW j \in k..Len(effected), loaded = Whole(effected[j])
        PROVE  j \in k..Len(effected') /\ effected'[j] = effected[j]
    BY <1>3, <2>2
  <2> QED
    BY <2>3, <2>4
<1> QED
  BY <1>1, <1>5, <1>6 DEF ReadInv, Asked

\* The unit reads what is at the file's path, which the last write has put there.
LEMMA ReadLoad ==
  ASSUME FilesTyped, FileInv, UnitsTypeOK, ReadInv, service = "config", service' = service, Load
  PROVE  ReadInv'
<1>1. /\ RunJob(BoundUnit) /\ loaded' = content[target] /\ effected' = effected
  BY DEF Load, vars
<1>2. BoundUnit \in Units
  BY PutConfigAssumption
<1>3. unit'[BoundUnit].job = "none"
  <2>1. PICK a : unit' = [unit EXCEPT ![BoundUnit].job = "none", ![BoundUnit].active = a]
    BY <1>1 DEF RunJob
  <2>2. unit' = [[unit EXCEPT ![BoundUnit].job = "none"] EXCEPT ![BoundUnit].active = a]
    BY <2>1
  <2> DEFINE mid == [unit EXCEPT ![BoundUnit].job = "none"]
             T == [active : {"active", "inactive", "failed"}, enabled : BOOLEAN, job : Jobs \cup {"none"}]
  <2>3. mid[BoundUnit].job = "none" /\ mid \in [Units -> T]
    BY <1>2 DEF UnitsTypeOK
  <2> HIDE DEF mid
  <2>4. [mid EXCEPT ![BoundUnit].active = a][BoundUnit].job = mid[BoundUnit].job
    BY <1>2, <2>3
  <2> QED
    BY <2>2, <2>3, <2>4 DEF mid
<1>4. loaded' = Whole(LastOne)
  BY <1>1, FileMeans
<1>5. effected \in Seq(Puts)
  BY FiledTypes DEF CallsFiled
<1>6. ASSUME NEW k \in DOMAIN effected
      PROVE  \E j \in k..Len(effected) : loaded' = Whole(effected[j])
  <2>1. effected # <<>> /\ Len(effected) \in k..Len(effected)
    BY <1>5
  <2>2. LastOne = effected[Len(effected)]
    BY <2>1 DEF LastOne
  <2> QED
    BY <1>4, <2>1, <2>2
<1> QED
  BY <1>1, <1>3, <1>6 DEF ReadInv

\* A call that is over, or dropped, asks nothing more.
LEMMA ForgetAsks ==
  ASSUME NEW over, Forget(over), NEW v \in Callers
  PROVE  call'[v] = call[v] \/ call'[v].did = {}
<1>1. NoCall.did = {}
  BY DEF NoCall
<1> QED
  BY <1>1 DEF Forget

\* What a PutConfig that was answered with success has asked of the unit, the unit does.
LEMMA ReadKept ==
  ASSUME CallsInv, UnitsTypeOK, FilesTyped, FileInv, ActsInv, ReadInv, HostNext
  PROVE  ReadInv'
<1>1. CallsFiled
  BY FiledTypes
<1>2. service' = service
  <2>1. (OnUnits => service' = service) /\ (OnMixer => service' = service) /\ (OnConfig => service' = service)
    BY DEF OnUnits, OnMixer, OnConfig
  <2> QED
    BY <2>1, Zenon DEF HostNext
<1>3. CASE service # "config"
  BY <1>2, <1>3 DEF ReadInv
<1>4. CASE service = "config"
  <2>1. PutNext
    <3>1. ~OnUnits /\ ~OnMixer
      BY <1>4 DEF OnUnits, OnMixer
    <3> QED
      BY <3>1, Zenon DEF HostNext
  <2>2. \A w \in Puts : w \in Callers
    BY PutConfigAssumption
  <2>3. ASSUME unit' = unit, effected' = effected, loaded' = loaded,
               NEW b \in Puts,
               \A v \in Puts : \/ outcome'[v] = outcome[v] \/ outcome'[v] # "applied"
                               \/ v = b /\ Asked(b),
               \A v \in Puts : call'[v].did = call[v].did \/ call'[v].did = {}
        PROVE  ReadInv'
    <3>1. \A v \in Puts : Asked(v)' => Asked(v)
      BY <2>3 DEF Asked
    <3> QED
      BY <1>2, <1>4, <2>3, <3>1, ReadSame
  <2>4. ASSUME NEW w \in Puts, PutStep(w), UNCHANGED <<call, unit, loaded>>
        PROVE  ReadInv'
    <3>1. CASE Rename(w)
      BY <1>2, <1>4, <2>4, <3>1, ReadRename
    <3>2. CASE ~Rename(w)
      <4>1. effected' = effected
        BY <2>4, <3>2, Zenon DEF PutStep, Stat, Open, Block, Chmod, Fail, Abandon, Over
      <4>2. call' = call /\ unit' = unit /\ loaded' = loaded
        BY <2>4
      <4>3. \A v \in Puts : outcome'[v] = outcome[v] \/ outcome'[v] # "applied"
        BY <1>1, <2>4, PutStepActing
      <4> QED
        BY <2>3, <4>1, <4>2, <4>3
    <3> QED
      BY <3>1, <3>2
  <2>5. ASSUME NEW w \in Puts, Act(w), UNCHANGED <<unit, loaded>>
        PROVE  ReadInv'
    <3>1. unit' = unit /\ loaded' = loaded /\ effected' = effected
      BY <2>5 DEF Act
    <3>2. CASE Reply(w, "written") /\ UNCHANGED call
      <4>1. \A v \in Puts : outcome'[v] = outcome[v] \/ outcome'[v] # "applied"
        BY <1>1, <3>2, ReplyTyped, FileWords
      <4> QED
        BY <2>3, <3>1, <3>2, <4>1
    <3>3. ASSUME NEW kind \in {"reload", "restart"}, Begin(w, kind, BoundUnit, 0, Job(kind, BoundUnit)),
                 UNCHANGED callVars
          PROVE  ReadInv'
      <4>1. kind \in Jobs /\ BoundUnit \in Units
        BY PutConfigAssumption DEF Jobs
      <4>2. call'[w].did = {} /\ \A b \in Callers : b # w => call'[b] = call[b]
        BY <2>2, <3>3, <4>1, ActCall
      <4>3. outcome' = outcome
        BY <3>3 DEF callVars
      <4> QED
        BY <2>2, <2>3, <3>1, <4>2, <4>3
    <3> QED
      BY <2>5, <3>2, <3>3, Zenon DEF Act
  <2>6. ASSUME NEW w \in Puts, Acted(w), UNCHANGED <<unit, loaded>>
        PROVE  ReadInv'
    <3>1. unit' = unit /\ loaded' = loaded /\ effected' = effected /\ Forget({w})
      BY <2>6 DEF Acted
    <3>2. Reply(w, IF call[w].reply = "Ok" THEN "applied" ELSE "unapplied") /\ pc[w] = "acting"
      BY <2>6 DEF Acted, At
    <3>3. \A v \in Puts : v # w => outcome'[v] = outcome[v]
      BY <1>1, <3>2, ReplyTyped, FileWords
    <3>4. outcome'[w] # "applied" \/ Asked(w)
      <4>1. CASE call[w].reply = "Ok"
        <5>1. call[w].did \in Changes(call[w])
          BY <2>2, <4>1, CallsDone DEF OkIsDone
        <5>2. call[w] # NoCall
          BY <4>1 DEF NoCall
        <5>3. call[w].op \in {"reload", "restart"}
          BY <1>4, <2>2, <5>2 DEF ActsInv
        <5>4. Changes(call[w]) = {{<<call[w].op, call[w].on>>}}
          BY <5>3 DEF Changes
        <5> DEFINE x == <<call[w].op, call[w].on>>
        <5>5. call[w].did \in {{x}}
          BY <5>1, <5>4
        <5> HIDE DEF x
        <5>6. call[w].did # {}
          BY <5>5
        <5> QED
          BY <2>2, <5>6 DEF Asked
      <4>2. CASE call[w].reply # "Ok"
        <5>1. Reply(w, "unapplied")
          BY <3>2, <4>2
        <5> QED
          BY <1>1, <5>1, ReplyTyped, FileWords
      <4> QED
        BY <4>1, <4>2
    <3>5. \A v \in Puts : call'[v].did = call[v].did \/ call'[v].did = {}
      BY <2>2, <3>1, ForgetAsks
    <3> QED
      BY <2>3, <3>1, <3>3, <3>4, <3>5
  <2>7. ASSUME NEW w \in Puts, ActOver(w), UNCHANGED <<unit, loaded>>
        PROVE  ReadInv'
    <3>1. unit' = unit /\ loaded' = loaded /\ effected' = effected /\ Forget({w}) /\ outcome' = outcome
      BY <2>7 DEF ActOver
    <3>2. \A v \in Puts : call'[v].did = call[v].did \/ call'[v].did = {}
      BY <2>2, <3>1, ForgetAsks
    <3> QED
      BY <2>3, <3>1, <3>2
  <2>8. ASSUME Restart, Forget(Puts), UNCHANGED <<unit, loaded>>
        PROVE  ReadInv'
    <3>1. unit' = unit /\ loaded' = loaded /\ effected' = effected /\ outcome' = outcome
      BY <2>8 DEF Restart
    <3>2. \A v \in Puts : call'[v].did = call[v].did \/ call'[v].did = {}
      BY <2>2, <2>8, ForgetAsks
    <3>3. \A v \in Puts : Asked(v)' => Asked(v)
      BY <3>1, <3>2 DEF Asked
    <3> QED
      BY <1>2, <1>4, <3>1, <3>3, ReadSame
  <2>9. ASSUME NEW w \in Puts, UnitStep(w) \/ (PublishStep(w) /\ UNCHANGED unit), UNCHANGED vars, UNCHANGED loaded
        PROVE  ReadInv'
    <3>1. loaded' = loaded /\ effected' = effected /\ outcome' = outcome
      BY <2>9 DEF vars, callVars
    <3>2. Step(w)
      BY <2>2, <2>9, UnitSteps, OtherSteps
    <3>3. call[w] # NoCall /\ \A b \in Callers : b # w => call'[b] = call[b]
      BY <2>2, <3>2, StepKeeps
    <3>4. call[w].op \in {"reload", "restart"} /\ call[w].on = BoundUnit
      BY <1>4, <2>2, <3>3 DEF ActsInv
    <3>5. (unit' = unit /\ call'[w].did = call[w].did) \/ unit'[BoundUnit].job \in {"reload", "restart"}
      BY <2>9, <3>4, PostSteps
    <3>6. CASE unit' = unit /\ call'[w].did = call[w].did
      BY <2>2, <2>3, <3>1, <3>3, <3>6
    <3>7. CASE unit'[BoundUnit].job \in {"reload", "restart"}
      BY <1>2, <3>1, <3>7 DEF ReadInv
    <3> QED
      BY <3>5, <3>6, <3>7
  <2>10. ASSUME Read, UNCHANGED <<call, unit, loaded>>
         PROVE  ReadInv'
    <3>1. unit' = unit /\ loaded' = loaded /\ effected' = effected /\ outcome' = outcome /\ call' = call
      BY <2>10 DEF Read, callVars
    <3>2. \A v \in Puts : Asked(v)' => Asked(v)
      BY <3>1 DEF Asked
    <3> QED
      BY <1>2, <1>4, <3>1, <3>2, ReadSame
  <2>11. CASE Load
    BY <1>2, <1>4, <2>11, ReadLoad
  <2>12. ASSUME NEW w \in Puts, UnitStep(w), UNCHANGED <<vars, loaded>>
         PROVE  ReadInv'
    <3>1. UNCHANGED vars /\ UNCHANGED loaded
      BY <2>12
    <3> QED
      BY <2>9, <2>12, <3>1
  <2>13. ASSUME NEW w \in Puts, PublishStep(w), UNCHANGED <<vars, unit, loaded>>
         PROVE  ReadInv'
    <3>1. UNCHANGED vars /\ UNCHANGED loaded /\ UNCHANGED unit
      BY <2>13
    <3> QED
      BY <2>9, <2>13, <3>1
  <2> QED
    BY <2>1, <2>4, <2>5, <2>6, <2>7, <2>8, <2>10, <2>11, <2>12, <2>13, Zenon DEF PutNext
<1> QED
  BY <1>3, <1>4

\* The calls, the files and what the unit has read.
ActionInv == ActsInv /\ ReadInv

\* ActionInv is inductive when calls on the file do not overlap.
THEOREM ActionAlways == ASSUME AtOnce <= 1 PROVE HostSpec => []ActionInv
<1>1. HostInit => ActionInv
  <2> SUFFICES ASSUME HostInit
               PROVE  ActionInv
    OBVIOUS
  <2>1. effected = <<>> /\ call = [c \in Callers |-> NoCall] /\ unit = [u \in Units |->
          [active |-> "inactive", enabled |-> FALSE, job |-> "none"]]
    BY DEF HostInit, PutInit, Init, CallsInit, UnitsInit
  <2>2. BoundUnit \in Units /\ DOMAIN effected = {}
    BY <2>1, PutConfigAssumption
  <2>3. ActsInv
    BY <2>1 DEF ActsInv
  <2>4. ReadInv
    BY <2>1, <2>2 DEF ReadInv
  <2> QED
    BY <2>3, <2>4 DEF ActionInv
<1>2. HostInv /\ FilesTyped /\ FileInv /\ ActionInv /\ [HostNext]_hostVars => ActionInv'
  <2> SUFFICES ASSUME HostInv, FilesTyped, FileInv, ActionInv, [HostNext]_hostVars
               PROVE  ActionInv'
    OBVIOUS
  <2>1. CallsInv /\ UnitsTypeOK /\ ActsInv /\ ReadInv
    BY DEF HostInv, ActionInv
  <2>2. CASE HostNext
    BY <2>1, <2>2, ActsKept, ReadKept DEF ActionInv
  <2>3. CASE UNCHANGED hostVars
    <3>1. /\ call' = call /\ unit' = unit /\ loaded' = loaded /\ service' = service /\ pc' = pc
          /\ effected' = effected /\ outcome' = outcome
      BY <2>3 DEF hostVars, putVars, scriptVars, vars, callVars
    <3>2. ActsInv'
      BY <2>1, <3>1 DEF ActsInv
    <3>3. ReadInv'
      BY <2>1, <3>1 DEF ReadInv, Asked
    <3> QED
      BY <3>2, <3>3 DEF ActionInv
  <2> QED
    BY <2>2, <2>3
<1> QED
  BY <1>1, <1>2, HostAlways, FilesAlways, FileAlways, PTL DEF HostSpec

\* A PutConfig that reports its action applied has the unit read its content, or
\* that of a later call, unless systemd still has a job for the unit.
THEOREM AppliedMeansRead == ASSUME AtOnce <= 1 PROVE HostSpec => []AppliedIsRead
<1>1. FilesTyped /\ ActionInv => AppliedIsRead
  <2> SUFFICES ASSUME FilesTyped, ActionInv, NEW k \in DOMAIN effected,
                      outcome[effected[k]] = "applied", unit[BoundUnit].job = "none"
               PROVE  \E j \in k..Len(effected) : loaded = Whole(effected[j])
    BY DEF AppliedIsRead
  <2>1. service = "config"
    BY DEF ActionInv, ActsInv
  <2>2. Asked(effected[k])
    BY DEF Asked
  <2> QED
    BY <2>1, <2>2 DEF ActionInv, ReadInv
<1> QED
  BY <1>1, FilesAlways, ActionAlways, PTL
=============================================================================
