---------------------------- MODULE AccessProofs ----------------------------
(***************************************************************************)
(* Theorems about module Access, for any machines, tokens, addresses and   *)
(* contents of zerod.toml.  No daemon runs without a token (TokenInv);     *)
(* what it has accepted is its token, which is the configured one if there *)
(* is one (KeptInv); no two machines have one address (AddressInv); and a  *)
(* command that is to be sent to a server it has looked for has an address *)
(* from the record of the only one that it wants (CommandInv).             *)
(***************************************************************************)
EXTENDS Access, FiniteSetTheorems, WellFoundedInduction, TLAPS

\* The functions and the record that actions change by EXCEPT.
ShapeInv ==
  /\ daemon = [s \in Servers |-> daemon[s]] /\ kept = [s \in Servers |-> kept[s]]
  /\ configured = [s \in Servers |-> configured[s]]
  /\ command = [at |-> command.at, token |-> command.token, name |-> command.name,
                found |-> command.found, host |-> command.host, server |-> command.server,
                status |-> command.status, key |-> command.key]

TokenInv == \A s \in Servers : daemon[s] # None => daemon[s].token # None

KeptInv == \A s \in Servers :
  /\ configured[s] # None => kept[s] \subseteq {configured[s]}
  /\ daemon[s] # None => /\ kept[s] \subseteq {daemon[s].token}
                         /\ configured[s] # None => daemon[s].token = configured[s]

AddressInv ==
  /\ address \in [Servers -> Lan \cup {None}] /\ Distinct(address)
  /\ advertised \in [Servers -> {None} \cup SUBSET (Lan \cup {Bridge})]

CommandInv ==
  /\ command.found \subseteq Discovered /\ IsFiniteSet(command.found)
  /\ command.at # "done" => command.status = "none"
  /\ command.at \in {"connect", "send"} =>
       /\ command.host # None
       /\ command.found # {} => \E d \in command.found : Wanted = {d} /\ command.host \in BestHost(d)
  /\ command.status # "none" => command.server \in Servers

CallInv == ShapeInv /\ CommandInv /\ OnlyWithToken /\ RestartKeepsToken

AccessInv == TokenInv /\ KeptInv /\ AddressInv /\ CallInv

\* The token a server comes up with is one, and the configured one if there is one.
LEMMA ResolvedToken ==
  ASSUME NEW set, NEW env, NEW t \in ResolveBearerToken(set, env)
  PROVE  t # None /\ (Configured(set, env) # None => t = Configured(set, env))
BY AccessAssumption DEF ResolveBearerToken, RandomHexToken

\* A command that has not been sent keeps the invariant.
LEMMA FreshCommand ==
  /\ NoCommand.found = {} /\ NoCommand.at = "done" /\ NoCommand.status = "none"
  /\ IsFiniteSet({})
BY FS_EmptySet DEF NoCommand

\* The address of a record is one.
LEMMA HostOfRecord ==
  ASSUME NEW d \in Discovered, NEW host \in BestHost(d)
  PROVE  host \in Lan \cup {Bridge} /\ host # None
BY AccessAssumption DEF Discovered, BestHost

\* The initial states satisfy the inductive invariant.
LEMMA AccessStarts == AccessInit => AccessInv
BY FreshCommand DEF AccessInit, AccessInv, CallInv, ShapeInv, TokenInv, KeptInv, AddressInv,
   CommandInv, OnlyWithToken, RestartKeepsToken, Handled, NoCommand

-----------------------------------------------------------------------------
(* Each kind of step keeps the invariant. *)

\* A step that leaves the command alone, and what its server has accepted.
LEMMA StillCommand ==
  ASSUME CallInv, UNCHANGED command, ShapeInv',
         \A s \in Servers : kept'[s] \in {kept[s], {}}
  PROVE  CallInv'
<1>1. CommandInv' /\ OnlyWithToken'
  BY DEF CallInv, CommandInv, Wanted, BestHost, OnlyWithToken, Handled
<1>2. RestartKeepsToken'
  BY DEF CallInv, CommandInv, RestartKeepsToken
<1> QED
  BY <1>1, <1>2 DEF CallInv

\* A change of files or units.
LEMMA StillStep ==
  ASSUME AccessInv, UNCHANGED <<daemon, configured, kept, command, address, advertised>>
  PROVE  AccessInv'
<1>1. ShapeInv' /\ TokenInv' /\ KeptInv' /\ AddressInv'
  BY DEF AccessInv, CallInv, ShapeInv, TokenInv, KeptInv, AddressInv, Distinct
<1>2. CallInv'
  BY <1>1, StillCommand DEF AccessInv
<1> QED
  BY <1>1, <1>2 DEF AccessInv

\* The daemon announces its machine, its records expire, or the machine gets an
\* address that nobody has.
LEMMA LanKeeps == ASSUME AccessInv, NEW s \in Servers, LanStep(s) PROVE AccessInv'
<1>1. UNCHANGED <<daemon, configured, kept, command>>
  BY DEF LanStep, Announce, Expire, Renumber, process
<1>2. AddressInv
  BY DEF AccessInv
<1>3. ASSUME Announce(s) PROVE AddressInv'
  <2>1. PICK up \in SUBSET ({address[s], Bridge} \ {None}) : advertised' = [advertised EXCEPT ![s] = up]
    BY <1>3 DEF Announce
  <2>2. up \subseteq Lan \cup {Bridge}
    BY <1>2 DEF AddressInv
  <2> QED
    BY <1>2, <1>3, <2>1, <2>2 DEF Announce, AddressInv, Distinct
<1>4. ASSUME Expire(s) PROVE AddressInv'
  BY <1>2, <1>4 DEF Expire, AddressInv, Distinct
<1>5. ASSUME Renumber(s) PROVE AddressInv'
  <2>1. PICK a \in (Lan \ Range(address)) \cup {None} : address' = [address EXCEPT ![s] = a]
    BY <1>5 DEF Renumber
  <2>2. \A t \in Servers : address[t] \in Range(address)
    BY <1>2 DEF AddressInv, Range
  <2> QED
    BY <1>2, <1>5, <2>1, <2>2 DEF Renumber, AddressInv, Distinct
<1>6. AddressInv'
  BY <1>3, <1>4, <1>5 DEF LanStep
<1>7. ShapeInv' /\ TokenInv' /\ KeptInv'
  BY <1>1 DEF AccessInv, CallInv, ShapeInv, TokenInv, KeptInv
<1>8. CallInv'
  BY <1>1, <1>7, StillCommand DEF AccessInv
<1> QED
  BY <1>6, <1>7, <1>8 DEF AccessInv

\* A start, by systemd or by hand.
LEMMA BootStep ==
  ASSUME AccessInv, NEW s \in Servers, NEW config, NEW env, NEW parent, Boot(s, config, env, parent),
         UNCHANGED <<command, address, advertised>>
  PROVE  AccessInv'
<1>1. PICK set \in LoadSettings(s, config) :
        /\ \E t \in ResolveBearerToken(set, env) :
             daemon' = [daemon EXCEPT ![s] = [token |-> t, on |-> set.on, by |-> parent]]
        /\ configured' = [configured EXCEPT ![s] = Configured(set, env)]
        /\ kept' = IF configured[s] = Configured(set, env) /\ Configured(set, env) # None
                   THEN kept ELSE [kept EXCEPT ![s] = {}]
  BY DEF Boot
<1> DEFINE now == Configured(set, env)
<1>2. PICK t \in ResolveBearerToken(set, env) :
        daemon' = [daemon EXCEPT ![s] = [token |-> t, on |-> set.on, by |-> parent]]
  BY <1>1
<1>3. t # None /\ (now # None => t = now)
  BY ResolvedToken
<1>4. /\ configured' = [configured EXCEPT ![s] = now]
      /\ kept' = IF configured[s] = now /\ now # None THEN kept ELSE [kept EXCEPT ![s] = {}]
  BY <1>1
<1> HIDE DEF now
<1>5. ShapeInv'
  BY <1>2, <1>4 DEF AccessInv, CallInv, ShapeInv
<1>6. daemon'[s].token = t /\ configured'[s] = now
  BY <1>2, <1>4 DEF AccessInv, CallInv, ShapeInv
<1>7. kept'[s] = IF configured[s] = now /\ now # None THEN kept[s] ELSE {}
  BY <1>4 DEF AccessInv, CallInv, ShapeInv
<1>8. \A u \in Servers \ {s} : daemon'[u] = daemon[u] /\ configured'[u] = configured[u] /\ kept'[u] = kept[u]
  BY <1>2, <1>4 DEF AccessInv, CallInv, ShapeInv
<1>9. TokenInv'
  BY <1>3, <1>6, <1>8 DEF AccessInv, TokenInv
<1>10. KeptInv'
  BY <1>3, <1>6, <1>7, <1>8 DEF AccessInv, KeptInv
<1>11. AddressInv'
  BY DEF AccessInv, AddressInv, Distinct
<1>12. CallInv'
  <2>1. \A u \in Servers : kept'[u] \in {kept[u], {}}
    BY <1>7, <1>8
  <2> QED
    BY <1>5, <2>1, StillCommand DEF AccessInv
<1> QED
  BY <1>9, <1>10, <1>11, <1>12 DEF AccessInv

\* The process is killed.
LEMMA ExitStep == ASSUME AccessInv, NEW s \in Servers, Exit(s) PROVE AccessInv'
<1>1. daemon'[s] = None /\ \A u \in Servers \ {s} : daemon'[u] = daemon[u]
  BY DEF Exit, AccessInv, CallInv, ShapeInv
<1>2. UNCHANGED <<configured, kept, command, address, advertised>>
  BY DEF Exit, lan
<1>3. ShapeInv' /\ TokenInv' /\ KeptInv' /\ AddressInv'
  BY <1>1, <1>2 DEF Exit, AccessInv, CallInv, ShapeInv, TokenInv, KeptInv, AddressInv, Distinct
<1>4. CallInv'
  BY <1>2, <1>3, StillCommand DEF AccessInv
<1> QED
  BY <1>3, <1>4 DEF AccessInv

\* The command begins, looks for its server, or fails before it is sent.
LEMMA SearchStep ==
  ASSUME AccessInv,
         Command \/ (\E s \in Servers : Resolved(s)) \/ ResolveEndpoint \/ Unreached \/ Channel
  PROVE  AccessInv'
<1>1. UNCHANGED <<daemon, kept, configured, address, advertised>>
  BY DEF Command, Resolved, ResolveEndpoint, Unreached, Channel, process, lan
<1> SUFFICES CallInv'
  BY <1>1 DEF AccessInv, TokenInv, KeptInv, AddressInv, Distinct
<1> USE DEF CallInv, CommandInv, OnlyWithToken, RestartKeepsToken, Handled
<1>2. CallInv
  BY DEF AccessInv
<1>3. CASE Command
  <2>1. PICK token \in used \cup {None}, name \in Servers \cup {None}, host \in Lan \cup {None} :
          command' = [NoCommand EXCEPT !.at = IF host # None THEN "connect" ELSE "browse",
                                       !.token = token, !.name = name, !.host = host]
    BY <1>3 DEF Command
  <2>2. /\ command' = [at |-> IF host # None THEN "connect" ELSE "browse", token |-> token, name |-> name,
                       found |-> {}, host |-> host, server |-> None, status |-> "none", key |-> None]
    BY <2>1 DEF NoCommand
  <2> QED
    BY <1>1, <1>2, <2>2, FreshCommand DEF ShapeInv
<1>4. ASSUME NEW s \in Servers, Resolved(s) PROVE CallInv'
  <2> DEFINE d == [name |-> s, addresses |-> advertised[s]]
             others == {e \in command.found : e.name # s}
  <2>1. command.at = "browse" /\ command' = [command EXCEPT !.found = others \cup {d}]
    BY <1>4 DEF Resolved
  <2>2. IsFiniteSet(others \cup {d})
    <3>1. IsFiniteSet(others)
      BY <1>2, FS_Subset
    <3> QED
      BY <3>1, FS_AddElement
  <2>3. d \in Discovered
    BY <1>4 DEF Resolved, Discovered, AccessInv, AddressInv
  <2> HIDE DEF d
  <2> QED
    BY <1>1, <1>2, <2>1, <2>2, <2>3 DEF ShapeInv
<1>5. CASE Fail
  <2>1. command' = [at |-> "done", token |-> None, name |-> None, found |-> {}, host |-> None,
                    server |-> None, status |-> "none", key |-> None]
    BY <1>5 DEF Fail, NoCommand
  <2> QED
    BY <1>1, <1>2, <2>1, FreshCommand DEF ShapeInv
<1>6. ASSUME ResolveEndpoint, ~Fail PROVE CallInv'
  <2>1. Cardinality(Wanted) = 1 /\ command.at = "browse"
    BY <1>6 DEF ResolveEndpoint
  <2>2. PICK d \in Wanted : \E host \in BestHost(d) :
          command' = [command EXCEPT !.at = "connect", !.host = host]
    BY <1>6 DEF ResolveEndpoint
  <2>3. PICK host \in BestHost(d) : command' = [command EXCEPT !.at = "connect", !.host = host]
    BY <2>2
  <2>4. Wanted \subseteq command.found
    BY DEF Wanted
  <2>5. Wanted = {d}
    <3>1. IsFiniteSet(Wanted)
      BY <1>2, <2>4, FS_Subset
    <3> QED
      BY <2>1, <2>2, <3>1, FS_Singleton
  <2>6. d \in command.found /\ host # None
    BY <1>2, <2>2, <2>3, <2>4, HostOfRecord
  <2>7. Wanted' = Wanted /\ BestHost(d)' = BestHost(d)
    BY <1>2, <2>3 DEF ShapeInv, Wanted, BestHost
  <2> QED
    BY <1>1, <1>2, <2>1, <2>3, <2>5, <2>6, <2>7 DEF ShapeInv
<1>7. CASE Channel
  <2>1. command' = [command EXCEPT !.at = "send"] /\ command.at = "connect"
    BY <1>7 DEF Channel
  <2>2. Wanted' = Wanted
    BY <1>2, <2>1 DEF ShapeInv, Wanted
  <2> QED
    BY <1>1, <1>2, <2>1, <2>2 DEF ShapeInv, BestHost
<1> QED
  BY <1>3, <1>4, <1>5, <1>6, <1>7 DEF Unreached

\* What an answer changes of the command.
LEMMA AnsweredBy ==
  ASSUME ShapeInv, NEW s \in Servers, NEW status, Answered(s, status)
  PROVE  command' = [at |-> "done", token |-> command.token, name |-> command.name,
                     found |-> command.found, host |-> command.host, server |-> s,
                     status |-> status, key |-> daemon[s].token]
BY DEF ShapeInv, Answered

\* A server answers with reflection.
LEMMA ReflectStep == ASSUME AccessInv, Reflect PROVE AccessInv'
<1>1. PICK s \in Reached : command.at = "send" /\ Answered(s, "reflected")
  BY DEF Reflect
<1>2. s \in Servers
  BY DEF Reached
<1>3. command' = [at |-> "done", token |-> command.token, name |-> command.name,
                  found |-> command.found, host |-> command.host, server |-> s,
                  status |-> "reflected", key |-> daemon[s].token]
  BY <1>1, <1>2, AnsweredBy DEF AccessInv, CallInv
<1>4. UNCHANGED <<daemon, configured, kept, address, advertised>>
  BY DEF Reflect, process, lan
<1>5. ShapeInv' /\ TokenInv' /\ KeptInv' /\ AddressInv'
  BY <1>3, <1>4 DEF AccessInv, CallInv, ShapeInv, TokenInv, KeptInv, AddressInv, Distinct
<1>6. CommandInv' /\ OnlyWithToken' /\ RestartKeepsToken'
  BY <1>2, <1>3 DEF AccessInv, CallInv, CommandInv, OnlyWithToken, RestartKeepsToken, Handled
<1> QED
  BY <1>5, <1>6 DEF AccessInv, CallInv

\* A server answers with one of zerod's services.
LEMMA HandleStep == ASSUME AccessInv, Handle PROVE AccessInv'
<1>1. PICK s \in Reached, status \in {"Unauthenticated", "handled", "FailedPrecondition"} :
        /\ command.at = "send" /\ Answered(s, status)
        /\ ~Intercept(daemon[s].token, command.token) <=> status = "Unauthenticated"
        /\ kept' = IF command'.status = "Unauthenticated" THEN kept
                   ELSE [kept EXCEPT ![s] = @ \cup {command.token}]
  BY Zenon DEF Handle
<1>2. s \in Servers /\ daemon[s] # None /\ daemon[s].token # None
  BY DEF Reached, AccessInv, TokenInv
<1>3. command' = [at |-> "done", token |-> command.token, name |-> command.name,
                  found |-> command.found, host |-> command.host, server |-> s,
                  status |-> status, key |-> daemon[s].token]
  BY <1>1, <1>2, AnsweredBy DEF AccessInv, CallInv
<1>4. status # "Unauthenticated" <=> command.token = daemon[s].token
  BY <1>1, <1>2 DEF Intercept
<1>5. UNCHANGED <<daemon, configured, address, advertised>>
  BY DEF Handle, lan
<1>6. /\ kept'[s] = IF status = "Unauthenticated" THEN kept[s] ELSE kept[s] \cup {daemon[s].token}
      /\ \A u \in Servers \ {s} : kept'[u] = kept[u]
      /\ ShapeInv'
  BY <1>1, <1>2, <1>3, <1>4, <1>5 DEF AccessInv, CallInv, ShapeInv
<1>7. KeptInv' /\ TokenInv' /\ AddressInv'
  BY <1>2, <1>5, <1>6 DEF AccessInv, KeptInv, TokenInv, AddressInv, Distinct
<1>8. CommandInv'
  BY <1>2, <1>3 DEF AccessInv, CallInv, CommandInv
<1>9. OnlyWithToken'
  BY <1>2, <1>3, <1>4 DEF OnlyWithToken, Handled
<1>10. RestartKeepsToken'
  BY <1>2, <1>3, <1>4, <1>6 DEF AccessInv, CallInv, RestartKeepsToken, KeptInv
<1> QED
  BY <1>6, <1>7, <1>8, <1>9, <1>10 DEF AccessInv, CallInv

-----------------------------------------------------------------------------
(* The types. *)

\* The types of AccessTypeOK, of every variable that a token or an address comes from
\* or goes to.
AccessTyped ==
  /\ file \in [Servers -> [Range(SearchPaths) -> Contents \cup {None, Broken}]]
  /\ daemon \in [Servers -> Process \cup {None}]
  /\ unitToken \in [Servers -> Tokens \cup {None}] /\ systemdToken \in [Servers -> Tokens \cup {None}]
  /\ kept \in [Servers -> SUBSET used] /\ Chosen \subseteq used /\ used \subseteq Tokens
  /\ command.at \in {"browse", "connect", "send", "done"} /\ command.token \in used \cup {None}

\* A set of numbers that is not empty has a least one.
LEMMA Least ==
  ASSUME NEW T \in SUBSET Nat, T # {}
  PROVE  Min(T) \in T
<1> DEFINE R == {ss \in Nat \X Nat : ss[1] < ss[2]}
<1>1. IsWellFoundedOn(R, Nat)
  BY NatLessThanWellFounded DEF OpToRel
<1>2. \E x \in T : \A y \in T : ~ (<<y, x>> \in R)
  <2> HIDE DEF R
  <2> QED
    BY <1>1, WFMin
<1>3. \A x, y \in T : ~ (<<y, x>> \in R) => x <= y
  <2> SUFFICES ASSUME NEW x \in T, NEW y \in T, <<y, x>> \notin R PROVE x <= y
    OBVIOUS
  <2>1. x \in Nat /\ y \in Nat /\ <<y, x>> \in Nat \X Nat
    OBVIOUS
  <2>2. ~(y < x)
    BY <2>1
  <2> QED
    BY <2>1, <2>2
<1>4. \E x \in T : \A y \in T : x <= y
  BY <1>2, <1>3
<1> QED
  BY <1>4 DEF Min

\* What zerod.toml says, or the defaults, are settings.
LEMMA Loaded ==
  ASSUME AccessTyped, NEW s \in Servers, NEW config \in Range(SearchPaths) \cup {None},
         NEW set \in LoadSettings(s, config)
  PROVE  set \in Settings
<1> DEFINE there == {i \in DOMAIN SearchPaths : file[s][SearchPaths[i]] # None}
<1>0. \A p \in Range(SearchPaths) :
        file[s][p] \notin {None, Broken} => file[s][p] \in Settings
  BY AccessAssumption DEF AccessTyped
<1>1. CASE config # None
  BY <1>0, <1>1 DEF LoadSettings
<1>2. CASE config = None /\ there = {}
  <2>1. set = [token |-> None, on |-> {"mdns"}]
    BY <1>2 DEF LoadSettings, Defaults
  <2> QED
    BY <2>1 DEF Settings, Features
<1>3. CASE config = None /\ there # {}
  <2>1. DOMAIN SearchPaths \subseteq Nat
    BY AccessAssumption
  <2>2. Min(there) \in there
    <3> there \in SUBSET Nat
      BY <2>1
    <3> HIDE DEF there
    <3> QED
      BY <1>3, Least
  <2>3. /\ SearchPaths[Min(there)] \in Range(SearchPaths)
        /\ file[s][SearchPaths[Min(there)]] # None
    BY <2>2 DEF Range
  <2>4. set = file[s][SearchPaths[Min(there)]] /\ set # Broken
    BY <1>3 DEF LoadSettings
  <2> HIDE DEF there
  <2> QED
    BY <1>0, <2>3, <2>4
<1> QED
  BY <1>1, <1>2, <1>3

\* The initial states have the types.
LEMMA TypedStarts == AccessInit => AccessTyped
<1> SUFFICES ASSUME AccessInit PROVE AccessTyped
  OBVIOUS
<1>1. command.at = "done" /\ command.token = None
  BY DEF AccessInit, NoCommand
<1> QED
  BY <1>1, AccessAssumption DEF AccessInit, AccessTyped

\* A start, by systemd with the token of the unit or by hand with any.
LEMMA BootTyped ==
  ASSUME AccessTyped, NEW s \in Servers, NEW config \in Range(SearchPaths) \cup {None},
         NEW env \in Tokens \cup {None}, NEW parent \in {"unit", "hand"}, Boot(s, config, env, parent),
         UNCHANGED <<file, unitToken, systemdToken, command>>
  PROVE  AccessTyped'
<1>1. PICK set \in LoadSettings(s, config) :
        /\ \E t \in ResolveBearerToken(set, env) :
             /\ daemon' = [daemon EXCEPT ![s] = [token |-> t, on |-> set.on, by |-> parent]]
             /\ used' = used \cup {t}
        /\ kept' = IF configured[s] = Configured(set, env) /\ Configured(set, env) # None
                   THEN kept ELSE [kept EXCEPT ![s] = {}]
  BY DEF Boot
<1>2. set.token \in Tokens \cup {None} /\ set.on \in SUBSET Features
  <2>1. set \in Settings
    BY Loaded
  <2> QED
    BY <2>1 DEF Settings
<1>3. PICK t \in ResolveBearerToken(set, env) :
        /\ daemon' = [daemon EXCEPT ![s] = [token |-> t, on |-> set.on, by |-> parent]]
        /\ used' = used \cup {t}
  BY <1>1
<1>4. t \in Tokens
  BY <1>2 DEF ResolveBearerToken, RandomHexToken, Configured
<1>5. [token |-> t, on |-> set.on, by |-> parent] \in Process
  BY <1>2, <1>4 DEF Process
<1>6. daemon' \in [Servers -> Process \cup {None}]
  BY <1>3, <1>5 DEF AccessTyped
<1>7. kept' = kept \/ kept' = [kept EXCEPT ![s] = {}]
  BY <1>1
<1>8. kept' \in [Servers -> SUBSET used']
  <2>1. kept \in [Servers -> SUBSET used']
    BY <1>3 DEF AccessTyped
  <2> QED
    BY <1>7, <2>1
<1> QED
  BY <1>3, <1>4, <1>6, <1>8 DEF AccessTyped

\* A change of zerod.toml or of the units.
LEMMA FilesTyped ==
  ASSUME AccessTyped, NEW s \in Servers, EditToml(s) \/ Install(s) \/ Uninstall(s) \/ DaemonReload(s) \/ EnableRunning(s)
  PROVE  AccessTyped'
<1>1. UNCHANGED <<daemon, kept, command>>
  BY DEF EditToml, Install, Uninstall, DaemonReload, EnableRunning, process
<1>2. CASE EditToml(s)
  <2>1. PICK p \in Range(SearchPaths), c \in Contents \cup {None, Broken} : file' = [file EXCEPT ![s][p] = c]
    BY <1>2 DEF EditToml
  <2>2. file' \in [Servers -> [Range(SearchPaths) -> Contents \cup {None, Broken}]]
    BY <2>1 DEF AccessTyped
  <2> QED
    BY <1>1, <1>2, <2>2 DEF EditToml, AccessTyped
<1>3. CASE Install(s)
  <2>1. PICK t \in Chosen \cup RandomHexToken : unitToken' = [unitToken EXCEPT ![s] = t] /\ used' = used \cup {t}
    BY <1>3 DEF Install
  <2>2. t \in Tokens
    BY AccessAssumption DEF RandomHexToken
  <2>3. UNCHANGED <<file, systemdToken>>
    BY <1>3 DEF Install
  <2>4. /\ kept \in [Servers -> SUBSET used'] /\ used' \subseteq Tokens /\ Chosen \subseteq used'
        /\ unitToken' \in [Servers -> Tokens \cup {None}]
    BY <2>1, <2>2 DEF AccessTyped
  <2> QED
    BY <1>1, <2>1, <2>3, <2>4 DEF AccessTyped
<1>4. CASE Uninstall(s)
  BY <1>1, <1>4 DEF Uninstall, AccessTyped
<1>5. CASE DaemonReload(s)
  BY <1>1, <1>5 DEF DaemonReload, AccessTyped
<1>6. CASE EnableRunning(s)
  BY <1>1, <1>6 DEF EnableRunning, AccessTyped
<1> QED
  BY <1>2, <1>3, <1>4, <1>5, <1>6

\* The process is killed.
LEMMA GoneTyped == ASSUME AccessTyped, NEW s \in Servers, Exit(s) PROVE AccessTyped'
BY DEF Exit, admin, AccessTyped

\* The daemon announces its machine, its records expire, or the address changes.
LEMMA LanTyped == ASSUME AccessTyped, NEW s \in Servers, LanStep(s) PROVE AccessTyped'
BY DEF LanStep, Announce, Expire, Renumber, admin, process, AccessTyped

\* The command begins, looks for its server, or fails before it is sent.
LEMMA SearchTyped ==
  ASSUME AccessTyped, ShapeInv,
         Command \/ (\E s \in Servers : Resolved(s)) \/ ResolveEndpoint \/ Unreached \/ Channel
  PROVE  AccessTyped'
<1>1. UNCHANGED <<file, unitToken, systemdToken, used, daemon, kept>>
  BY DEF Command, Resolved, ResolveEndpoint, Unreached, Channel, admin, process
<1> SUFFICES /\ command'.at \in {"browse", "connect", "send", "done"}
             /\ command'.token \in used \cup {None}
  BY <1>1 DEF AccessTyped
<1>2. CASE Command
  BY <1>2 DEF Command, NoCommand
<1>3. CASE \E s \in Servers : Resolved(s)
  BY <1>3 DEF Resolved, ShapeInv, AccessTyped
<1>4. CASE Fail
  BY <1>4 DEF Fail, NoCommand
<1>5. ASSUME ResolveEndpoint, ~Fail
      PROVE  /\ command'.at \in {"browse", "connect", "send", "done"}
             /\ command'.token \in used \cup {None}
  <2>1. PICK host : command' = [command EXCEPT !.at = "connect", !.host = host]
    BY <1>5 DEF ResolveEndpoint
  <2> QED
    BY <2>1 DEF ShapeInv, AccessTyped
<1>6. CASE Channel
  BY <1>6 DEF Channel, ShapeInv, AccessTyped
<1> QED
  BY <1>2, <1>3, <1>4, <1>5, <1>6 DEF Unreached

\* The server answers, and has accepted a token that is one.
LEMMA AnswerTyped == ASSUME AccessInv, AccessTyped, Handle \/ Reflect PROVE AccessTyped'
<1>1. UNCHANGED <<file, unitToken, systemdToken, used, daemon>>
  BY DEF Handle, Reflect, admin, process
<1>2. PICK s \in Reached : \E status : Answered(s, status)
  BY Zenon DEF Handle, Reflect
<1>3. command'.at = "done" /\ command'.token = command.token
  BY <1>2, AnsweredBy DEF AccessInv, CallInv, Reached
<1>4. kept' \in [Servers -> SUBSET used]
  <2>1. CASE Reflect
    BY <2>1 DEF Reflect, process, AccessTyped
  <2>2. CASE Handle
    <3>1. PICK t \in Reached, code \in {"Unauthenticated", "handled", "FailedPrecondition"} :
            /\ Answered(t, code)
            /\ ~Intercept(daemon[t].token, command.token) <=> code = "Unauthenticated"
            /\ kept' = IF command'.status = "Unauthenticated" THEN kept
                       ELSE [kept EXCEPT ![t] = @ \cup {command.token}]
      BY <2>2, Zenon DEF Handle
    <3>2. t \in Servers /\ daemon[t] # None /\ daemon[t].token # None
      BY DEF Reached, AccessInv, TokenInv
    <3>3. command'.status = code
      BY <3>1, <3>2, AnsweredBy DEF AccessInv, CallInv
    <3>4. code # "Unauthenticated" => command.token \in used
      BY <3>1, <3>2 DEF Intercept, AccessTyped
    <3> QED
      BY <3>1, <3>2, <3>3, <3>4 DEF AccessTyped
  <2> QED
    BY <2>1, <2>2
<1> QED
  BY <1>1, <1>3, <1>4 DEF AccessTyped

\* One step keeps both.
LEMMA TypedNext == AccessInv /\ AccessTyped /\ [AccessNext]_accessVars => AccessTyped'
<1> SUFFICES ASSUME AccessInv, AccessTyped, [AccessNext]_accessVars PROVE AccessTyped'
  OBVIOUS
<1>1. CASE UNCHANGED accessVars
  BY <1>1 DEF accessVars, admin, process, lan, AccessTyped
<1>2. ASSUME NEW s \in Servers, AdminStep(s) PROVE AccessTyped'
  <2>1. CASE StartUnit(s)
    <3>1. systemdToken[s] \in Tokens \cup {None}
      BY DEF AccessTyped
    <3> QED
      BY <2>1, <3>1, BootTyped DEF StartUnit, lan
  <2> QED
    BY <1>2, <2>1, FilesTyped DEF AdminStep
<1>3. ASSUME NEW s \in Servers, ProcessStep(s) PROVE AccessTyped'
  <2>1. CASE StartByHand(s)
    <3>1. PICK config \in Range(SearchPaths) \cup {None}, env \in Chosen \cup {None} :
            Boot(s, config, env, "hand")
      BY <2>1 DEF StartByHand
    <3>2. env \in Tokens \cup {None}
      BY AccessAssumption
    <3> QED
      BY <2>1, <3>1, <3>2, BootTyped DEF StartByHand, lan
  <2> QED
    BY <1>3, <2>1, GoneTyped DEF ProcessStep
<1>4. ASSUME NEW s \in Servers, LanStep(s) PROVE AccessTyped'
  BY <1>4, LanTyped
<1>5. CASE CallStep
  BY <1>5, SearchTyped, AnswerTyped DEF CallStep, AccessInv, CallInv
<1> QED
  BY <1>1, <1>2, <1>3, <1>4, <1>5 DEF AccessNext

-----------------------------------------------------------------------------
(* The theorems. *)

\* One step keeps the inductive invariant.
LEMMA AccessStep == AccessInv /\ [AccessNext]_accessVars => AccessInv'
<1> SUFFICES ASSUME AccessInv, [AccessNext]_accessVars PROVE AccessInv'
  OBVIOUS
<1>1. CASE UNCHANGED accessVars
  BY <1>1, StillStep DEF accessVars, process, lan
<1>2. ASSUME NEW s \in Servers, AdminStep(s) PROVE AccessInv'
  <2>1. CASE StartUnit(s)
    BY <2>1, BootStep DEF StartUnit, lan
  <2>2. CASE EditToml(s) \/ Install(s) \/ Uninstall(s) \/ DaemonReload(s) \/ EnableRunning(s)
    BY <2>2, StillStep DEF EditToml, Install, Uninstall, DaemonReload, EnableRunning, process, lan
  <2> QED
    BY <1>2, <2>1, <2>2 DEF AdminStep
<1>3. ASSUME NEW s \in Servers, ProcessStep(s) PROVE AccessInv'
  <2>1. CASE StartByHand(s)
    BY <2>1, BootStep DEF StartByHand, lan
  <2> QED
    BY <1>3, <2>1, ExitStep DEF ProcessStep
<1>4. ASSUME NEW s \in Servers, LanStep(s) PROVE AccessInv'
  BY <1>4, LanKeeps
<1>5. CASE CallStep
  BY <1>5, SearchStep, HandleStep, ReflectStep DEF CallStep
<1> QED
  BY <1>1, <1>2, <1>3, <1>4, <1>5 DEF AccessNext

\* The inductive invariant holds always.
THEOREM AccessAlways == AccessSpec => []AccessInv
<1> QED
  BY AccessStarts, AccessStep, PTL DEF AccessSpec

\* No call of zerod's services is handled without a token or with another than the
\* server's, whatever its settings, its unit and its environment lack.
THEOREM NoOpenServer == AccessSpec => []OnlyWithToken
<1>1. AccessInv => OnlyWithToken
  BY DEF AccessInv, CallInv
<1> QED
  BY <1>1, AccessAlways, PTL

\* Crashes, restarts and edits lock out no client before the configured token changes.
THEOREM NoLockOut == AccessSpec => []RestartKeepsToken
<1>1. AccessInv => RestartKeepsToken
  BY DEF AccessInv, CallInv
<1> QED
  BY <1>1, AccessAlways, PTL

\* A step in which a command that has looked for its server is handled.
LEMMA HandledStep ==
  ASSUME AccessInv, [AccessNext]_accessVars, command.at = "send", Handled', command.found # {}
  PROVE  /\ Wanted # {}
         /\ \A d \in Wanted : d.addresses \ {Bridge} = {address[d.name]} => command'.server = d.name
<1>1. command.status = "none"
  BY DEF AccessInv, CallInv, CommandInv
<1>2. ~UNCHANGED command /\ ~Fail
  BY <1>1 DEF Handled, Fail, NoCommand
<1>3. Handle
  <2>1. ASSUME NEW s \in Servers, AdminStep(s) \/ ProcessStep(s) \/ LanStep(s) PROVE UNCHANGED command
    BY <2>1 DEF AdminStep, ProcessStep, LanStep, EditToml, Install, Uninstall, DaemonReload, StartUnit,
       EnableRunning, StartByHand, Exit, Announce, Expire, Renumber
  <2>2. ~Reflect
    <3> SUFFICES ASSUME Reflect PROVE FALSE
      OBVIOUS
    <3>1. PICK s \in Reached : Answered(s, "reflected")
      BY DEF Reflect
    <3>2. command'.status = "reflected"
      BY <3>1, AnsweredBy DEF AccessInv, CallInv, Reached
    <3> QED
      BY <3>2 DEF Handled
  <2> QED
    BY <1>2, <2>1, <2>2 DEF AccessNext, CallStep, Command, Resolved, ResolveEndpoint, Unreached, Channel, accessVars
<1>4. PICK s \in Reached : \E status : Answered(s, status)
  BY <1>3, Zenon DEF Handle
<1>5. command'.server = s /\ s \in Servers
  BY <1>4, AnsweredBy DEF AccessInv, CallInv, Reached
<1>6. /\ command.host # None
      /\ \E d \in command.found : Wanted = {d} /\ command.host \in BestHost(d)
  BY DEF AccessInv, CallInv, CommandInv
<1>7. PICK d \in command.found : Wanted = {d} /\ command.host \in BestHost(d)
  BY <1>6
<1>8. ASSUME d.addresses \ {Bridge} = {address[d.name]} PROVE s = d.name
  <2>1. command.host = address[d.name] /\ command.host # Bridge
    BY <1>7, <1>8 DEF BestHost
  <2>2. address[s] = command.host
    BY <1>4, <2>1 DEF Reached
  <2>3. d.name \in Servers
    BY <1>7 DEF AccessInv, CallInv, CommandInv, Discovered
  <2> QED
    BY <1>5, <1>6, <2>1, <2>2, <2>3 DEF AccessInv, AddressInv, Distinct
<1> QED
  BY <1>5, <1>7, <1>8

\* A command that has looked for its server is handled by the one it named, or the only
\* one that answered, for any addresses and records, if that record has the machine's
\* address right.
THEOREM RightServer == AccessSpec => HandledByNamed
<1>1. AccessInv /\ [AccessNext]_accessVars =>
        [command.at = "send" /\ Handled' /\ command.found # {} =>
           /\ Wanted # {}
           /\ \A d \in Wanted : d.addresses \ {Bridge} = {address[d.name]} => command'.server = d.name
        ]_accessVars
  BY HandledStep
<1> QED
  BY <1>1, AccessAlways, PTL DEF AccessSpec, HandledByNamed

\* The state has its type: no token comes from elsewhere than the settings, the
\* environment, the unit and the random ones, and nothing but addresses is advertised.
THEOREM AccessIsTyped == AccessSpec => []AccessTypeOK
<1>1. AccessInit => AccessTyped
  BY TypedStarts
<1>2. AccessInv /\ AccessTyped /\ [AccessNext]_accessVars => AccessTyped'
  BY TypedNext
<1>3. AccessInv /\ AccessTyped => AccessTypeOK
  BY DEF AccessInv, AddressInv, CallInv, CommandInv, AccessTyped, AccessTypeOK
<1> QED
  BY <1>1, <1>2, <1>3, AccessAlways, PTL DEF AccessSpec
=============================================================================
