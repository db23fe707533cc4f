--------------------------- MODULE AuthSyncProofs ---------------------------
(***************************************************************************)
(* The safety of AuthSync for any workspaces, owner boxes, seeds, keys,    *)
(* generations and boots: its types, that the scripts and the platform     *)
(* present no spent refresh token, and that no script goes back to an      *)
(* older credential, each but for what AuthSync excuses.                   *)
(***************************************************************************)
EXTENDS AuthSync, TLAPS

\* The account each workspace uses, and the actions of one workspace.
WorkspaceStep(w) == Boot(w) \/ Restart(w) \/ SyncStep(w) \/ RefreshStep(w) \/ CliStep(w)

\* Contents that do not parse, or no credential later than gen.
AtMost(contents, gen) == contents = Garbage \/ contents <= gen

\* The platform saves what it rotated before it rotates again, so that it never
\* presents a spent token itself while nobody else rotates.
CentralInv ==
    Shared \notin demanded =>
        /\ secret[Shared] <= live[Shared]
        /\ IF rotated = None THEN secret[Shared] = live[Shared]
                             ELSE rotated = live[Shared]

\* Scripts and CLI end with their container; only an owner's watchdog posts; an
\* answer is a credential.
ScriptInv(w) ==
    /\ boot[w] = "off" => sync[w] = Idle /\ refresh[w] = Idle /\ cli[w] = None
    /\ refresh[w].pc # "idle" => w \in Owners
    /\ cli[w] # None => Account(w) \in demanded
    /\ sync[w].pc = "got" => sync[w].gen # None
    /\ refresh[w].pc = "answered" => refresh[w].gen # None

\* A workspace that shares the credential holds nothing the platform has not
\* saved, and what it got is no older than what it has.
SharerInv(w) ==
    Shared \notin demanded =>
        /\ AtMost(file[w], secret[Shared])
        /\ AtMost(seed[w], secret[Shared])
        /\ sync[w].pc = "got" =>
              \/ sync[w].gen = Garbage
              \/ AtMost(file[w], sync[w].gen) /\ sync[w].gen <= secret[Shared]

\* Nobody but its watchdog rotates the credential of an owner box, which has the
\* latest until it loses one.
OwnerInv(w) ==
    w \notin demanded =>
        /\ AtMost(file[w], live[w]) /\ AtMost(seed[w], live[w])
        /\ secret[w] <= live[w]
        /\ sync[w].pc = "got" => AtMost(sync[w].gen, live[w])
        /\ refresh[w].pc = "answered" => refresh[w].gen = live[w]
        /\ w \notin lost =>
              /\ refresh[w].pc # "answered" => file[w] \in {None, Garbage, live[w]}
              /\ refresh[w].pc = "due" => refresh[w].gen = live[w]

CopyInv ==
    /\ CentralInv
    /\ \A w \in Workspaces : ScriptInv(w)
    /\ \A w \in Workspaces \ Owners : SharerInv(w)
    /\ \A w \in Owners : OwnerInv(w)
    /\ NoReuse

-----------------------------------------------------------------------------
(* Types.                                                                  *)

WatchedType == watched \in [Workspaces -> BOOLEAN]

\* TypeOK without the Booleans, which the provers take one at a time.
DataType ==
    /\ file \in [Workspaces -> Contents]
    /\ seed \in [Workspaces -> Contents]
    /\ boot \in [Workspaces -> {"off", "syncing", "priming", "up"}]
    /\ boots \in [Workspaces -> 0 .. MaxBoots]
    /\ sync \in [Workspaces -> [pc : {"idle", "got"}, gen : Contents]]
    /\ refresh \in [Workspaces -> [pc : {"idle", "due", "answered"}, gen : 0 .. MaxGen]]
    /\ cli \in [Workspaces -> 0 .. MaxGen]
    /\ live \in [Accounts -> Gens] /\ secret \in [Accounts -> Gens]
    /\ rotated \in 0 .. MaxGen
    /\ lost \in SUBSET Accounts /\ demanded \in SUBSET Accounts
    /\ reused \in SUBSET Accounts
    /\ atBoot \in [Workspaces -> 0 .. MaxGen]

LEMMA TypeParts == TypeOK <=> DataType /\ WatchedType
BY DEF TypeOK, DataType, WatchedType

\* Setting one flag keeps a function of flags one.
LEMMA FlagSet ==
    ASSUME NEW f \in [Workspaces -> BOOLEAN], NEW w \in Workspaces, NEW b \in BOOLEAN
    PROVE  [f EXCEPT ![w] = b] \in [Workspaces -> BOOLEAN]
OBVIOUS

\* Every account is one.
LEMMA AccountType == \A w \in Workspaces : Account(w) \in Accounts
BY DEF Account, Accounts

\* A box that loses its credential is an owner box.
LEMMA LosesType ==
    ASSUME NEW w \in Workspaces, NEW contents, lost \in SUBSET Accounts,
           LosesTo(w, contents)
    PROVE  lost' \in SUBSET Accounts
BY DEF LosesTo, Accounts

\* start.sh sets the flag of its watchdog from a test.
LEMMA WatchedStep ==
    ASSUME WatchedType, NEW w \in Workspaces, NEW contents, SyncReturns(w, contents)
    PROVE  WatchedType'
<1>1. (contents # None) \in BOOLEAN
  BY Zenon
<1>2. [watched EXCEPT ![w] = contents # None] \in [Workspaces -> BOOLEAN]
  BY <1>1, FlagSet, Zenon DEF WatchedType
<1>3. watched' = [watched EXCEPT ![w] = contents # None] \/ watched' = watched
  BY Zenon DEF SyncReturns
<1> QED
  BY <1>2, <1>3, Zenon DEF WatchedType

LEMMA BootStages ==
    ASSUME DataType, NEW w \in Workspaces, NEW contents,
           SyncReturns(w, contents) \/ RefreshReturns(w)
    PROVE  boot' \in [Workspaces -> {"off", "syncing", "priming", "up"}]
BY DEF DataType, SyncReturns, RefreshReturns, StageAfterSync

LEMMA WatchedInvariant ==
    /\ Init => WatchedType
    /\ WatchedType /\ [Next]_vars => WatchedType'
<1>1. Init => WatchedType
  BY DEF Init, WatchedType
<1>2. ASSUME WatchedType, [Next]_vars
      PROVE  WatchedType'
  <2>1. ASSUME NEW w \in Workspaces, Boot(w)
        PROVE  WatchedType'
    BY <1>2, <2>1, FlagSet, Zenon DEF Boot, WatchedType
  <2>2. ASSUME NEW w \in Workspaces, SyncStep(w)
        PROVE  WatchedType'
    BY <1>2, <2>2, WatchedStep, Zenon
       DEF SyncStep, SyncFails, SyncGets, SyncAdopts, WatchedType
  <2>3. ASSUME NEW w \in Workspaces, Restart(w) \/ RefreshStep(w) \/ CliStep(w)
        PROVE  watched' = watched
    BY <2>3, Zenon DEF Restart, RefreshStep, RefreshSkips, RefreshDue, PostSucceeds,
                       PostFails, RefreshApplies, CliStep, CliPosts, CliWrites
  <2>4. ASSUME CentralRotates \/ CentralSaves \/ UNCHANGED vars
        PROVE  watched' = watched
    BY <2>4, Zenon DEF CentralRotates, CentralSaves, vars
  <2> QED
    BY <1>2, <2>1, <2>2, <2>3, <2>4, Zenon DEF Next, WatchedType
<1> QED
  BY <1>1, <1>2


LEMMA InitData == Init => DataType
BY AuthAssumption DEF AuthAssumption, Init, DataType, None, Gens, Idle, Contents, Garbage

\* Each step keeps the types of what it writes.
LEMMA NextData == DataType /\ [Next]_vars => DataType'
<1> SUFFICES ASSUME DataType, [Next]_vars
             PROVE  DataType'
  OBVIOUS
<1> USE AuthAssumption DEF AuthAssumption, None, Gens, Contents, Garbage
<1>1. ASSUME NEW w \in Workspaces, Boot(w)
      PROVE  DataType'
  <2>1. secret[Account(w)] \in 0 .. MaxGen
    BY AccountType DEF DataType
  <2>2. boots[w] \in 0 .. MaxBoots
    BY DEF DataType
  <2>3. boots[w] + 1 \in 0 .. MaxBoots
    BY <1>1, <2>2 DEF Boot
  <2>4. lost' \in SUBSET Accounts
    BY <1>1, LosesType DEF Boot, DataType
  <2> QED
    BY <1>1, <2>1, <2>3, <2>4 DEF Boot, DataType, external, scripts
<1>2. ASSUME NEW w \in Workspaces, Restart(w)
      PROVE  DataType'
  <2>1. secret[Account(w)] \in 0 .. MaxGen /\ Account(w) \in Accounts
    BY AccountType DEF DataType
  <2>2. Idle \in [pc : {"idle", "got"}, gen : Contents]
        /\ Idle \in [pc : {"idle", "due", "answered"}, gen : 0 .. MaxGen]
    BY DEF Idle
  <2>3. lost' \in SUBSET Accounts
    BY <1>2, <2>1 DEF Restart, DataType
  <2>4. seed' \in [Workspaces -> Contents]
    BY <1>2, <2>1 DEF Restart, DataType
  <2>5. cli' \in [Workspaces -> 0 .. MaxGen]
    BY <1>2 DEF Restart, DataType
  <2>6. UNCHANGED <<file, boots, live, secret, rotated, demanded, reused, atBoot>>
    BY <1>2, Zenon DEF Restart
  <2>7. /\ boot' = [boot EXCEPT ![w] = "off"]
        /\ sync' = [sync EXCEPT ![w] = Idle]
        /\ refresh' = [refresh EXCEPT ![w] = Idle]
    BY <1>2, Zenon DEF Restart
  <2> QED
    BY <2>2, <2>3, <2>4, <2>5, <2>6, <2>7 DEF DataType
<1>3. ASSUME NEW w \in Workspaces, SyncStep(w)
      PROVE  DataType'
  <2>1. CASE SyncFails(w)
    BY <2>1, BootStages DEF SyncFails, DataType, scripts, external, history
  <2>2. CASE SyncGets(w)
    BY <2>2, AccountType DEF SyncGets, DataType, external, history
  <2>3. CASE SyncAdopts(w)
    <3>1. Adopted(file[w], sync[w].gen) \in Contents
      BY DEF DataType, Adopted
    <3>2. SyncReturns(w, Adopted(file[w], sync[w].gen))
          /\ LosesTo(w, Adopted(file[w], sync[w].gen))
      BY <2>3, Zenon DEF SyncAdopts
    <3>3. boot' \in [Workspaces -> {"off", "syncing", "priming", "up"}]
      BY <3>2, BootStages
    <3>4. sync' = [sync EXCEPT ![w] = Idle]
          /\ Idle \in [pc : {"idle", "got"}, gen : Contents]
      BY <2>3 DEF SyncAdopts, Idle
    <3>5. file' \in [Workspaces -> Contents]
      BY <2>3, <3>1 DEF SyncAdopts, DataType
    <3>6. lost' \in SUBSET Accounts
      BY <3>2, LosesType DEF DataType
    <3> QED
      BY <2>3, <3>3, <3>4, <3>5, <3>6 DEF SyncAdopts, DataType, external
  <2> QED
    BY <1>3, <2>1, <2>2, <2>3 DEF SyncStep
<1>4. ASSUME NEW w \in Workspaces, RefreshStep(w)
      PROVE  DataType'
  <2> DEFINE a == Account(w)
  <2>0. a \in Accounts /\ live[a] \in 1 .. MaxGen
    BY AccountType DEF DataType
  <2>1. CASE RefreshSkips(w)
    BY <2>1, BootStages DEF RefreshSkips, DataType, scripts, external, history
  <2>2. CASE RefreshDue(w)
    BY <2>2 DEF RefreshDue, MayPost, DataType, external, history
  <2>3. CASE PostSucceeds(w)
    BY <2>0, <2>3 DEF PostSucceeds, Rotate, DataType
  <2>4. CASE PostFails(w)
    <3>1. boot' \in [Workspaces -> {"off", "syncing", "priming", "up"}]
      BY <2>4, BootStages DEF PostFails
    <3>2. /\ live' = live \/ (live[a] < MaxGen /\ live' = [live EXCEPT ![a] = @ + 1])
          /\ reused' = reused \/ reused' = reused \cup {a}
          /\ lost' = lost \/ lost' = lost \cup {a}
      BY <2>4 DEF PostFails, Rotate
    <3>3. live' \in [Accounts -> Gens]
      BY <2>0, <3>2 DEF DataType
    <3>4. reused' \in SUBSET Accounts /\ lost' \in SUBSET Accounts
      BY <2>0, <3>2 DEF DataType
    <3>5. refresh' \in [Workspaces -> [pc : {"idle", "due", "answered"},
                                      gen : 0 .. MaxGen]]
      <4>1. Idle \in [pc : {"idle", "due", "answered"}, gen : 0 .. MaxGen]
        BY DEF Idle
      <4> QED
        BY <2>4, <4>1 DEF PostFails, DataType
    <3> QED
      <4>1. UNCHANGED <<file, seed, boots, sync, cli, secret, rotated, demanded, atBoot>>
        BY <2>4, Zenon DEF PostFails
      <4> QED
        BY <3>1, <3>3, <3>4, <3>5, <4>1 DEF DataType
  <2>5. CASE RefreshApplies(w)
    <3>1. /\ refresh' = [refresh EXCEPT ![w] = Idle]
          /\ Idle \in [pc : {"idle", "due", "answered"}, gen : 0 .. MaxGen]
          /\ file' = file \/ file' = [file EXCEPT ![w] = refresh[w].gen]
          /\ lost' = lost \/ lost' = lost \cup {a}
      BY <2>5 DEF RefreshApplies, Applied, Idle
    <3>2. boot' \in [Workspaces -> {"off", "syncing", "priming", "up"}]
      BY <2>5, BootStages DEF RefreshApplies
    <3>3. UNCHANGED <<seed, boots, sync, cli, live, secret, rotated, demanded, reused,
                      atBoot>>
      BY <2>5, Zenon DEF RefreshApplies, external
    <3>4. lost' \in SUBSET Accounts
      BY <2>0, <3>1 DEF DataType
    <3>5. refresh[w].gen \in Contents
      BY DEF DataType
    <3>6. file' \in [Workspaces -> Contents]
      BY <3>1, <3>5 DEF DataType
    <3> QED
      BY <3>1, <3>2, <3>3, <3>4, <3>6 DEF DataType
  <2> QED
    BY <1>4, <2>1, <2>2, <2>3, <2>4, <2>5 DEF RefreshStep
<1>8. ASSUME NEW w \in Workspaces, CliStep(w)
      PROVE  DataType'
  <2> DEFINE a == Account(w)
  <2>0. a \in Accounts /\ live[a] \in 1 .. MaxGen
    BY AccountType DEF DataType
  <2>1. CASE CliPosts(w)
    <3>1. UNCHANGED <<file, seed, boot, boots, sync, refresh, secret, rotated, lost, atBoot>>
      BY <2>1, Zenon DEF CliPosts, scripts
    <3>2. /\ live' = live \/ (live[a] < MaxGen /\ live' = [live EXCEPT ![a] = @ + 1])
          /\ cli' = cli \/ (live[a] < MaxGen /\ cli' = [cli EXCEPT ![w] = live[a] + 1])
          /\ reused' = reused \/ reused' = reused \cup {a}
          /\ demanded' = demanded \cup {a}
      BY <2>1 DEF CliPosts, Rotate
    <3>3. live' \in [Accounts -> Gens]
      <4>1. live \in [Accounts -> 1 .. MaxGen]
        BY DEF DataType
      <4>2. CASE live' = live
        BY <4>1, <4>2
      <4>3. CASE live[a] < MaxGen /\ live' = [live EXCEPT ![a] = @ + 1]
        <5>1. live[a] + 1 \in 1 .. MaxGen
          BY <2>0, <4>3
        <5> QED BY <2>0, <4>1, <4>3, <5>1
      <4> QED BY <3>2, <4>2, <4>3
    <3>4. cli' \in [Workspaces -> 0 .. MaxGen]
      BY <2>0, <3>2 DEF DataType
    <3>5. demanded' \in SUBSET Accounts /\ reused' \in SUBSET Accounts
      BY <2>0, <3>2 DEF DataType
    <3> QED
      BY <3>1, <3>3, <3>4, <3>5 DEF DataType
  <2>2. CASE CliWrites(w)
    BY <2>2 DEF CliWrites, DataType, scripts, history
  <2> QED
    BY <1>8, <2>1, <2>2 DEF CliStep
<1>5. CASE CentralRotates
  <2>1. Shared \in Accounts
    BY DEF Accounts
  <2> QED
    BY <1>5, <2>1 DEF CentralRotates, Rotate, DataType, scripts
<1>6. CASE CentralSaves
  <2>1. Shared \in Accounts
    BY DEF Accounts
  <2> QED
    BY <1>6, <2>1 DEF CentralSaves, DataType, scripts, history
<1>7. CASE UNCHANGED vars
  BY <1>7 DEF vars, DataType
<1> QED
  BY <1>1, <1>2, <1>3, <1>4, <1>5, <1>6, <1>7, <1>8 DEF Next

\* Every variable of the scripts keeps its type; no refresh is attempted with what
\* does not parse, whatever the platform answers and the containers start with.
THEOREM TypeCorrect == Spec => []TypeOK
<1>1. Init => TypeOK
  BY InitData, WatchedInvariant, TypeParts
<1>2. TypeOK /\ [Next]_vars => TypeOK'
  <2>1. TypeOK' <=> DataType' /\ WatchedType'
    BY Zenon DEF TypeOK, DataType, WatchedType
  <2> QED
    BY <2>1, NextData, WatchedInvariant, TypeParts, Zenon
<1> QED
  BY <1>1, <1>2, PTL DEF Spec


-----------------------------------------------------------------------------
(* Who holds which credential.                                             *)

\* Who owns an account; what the numbers are.
LEMMA OwnerFacts ==
    /\ \A w \in Owners : w \in Workspaces /\ Account(w) = w /\ w # Shared
    /\ \A w \in Workspaces \ Owners : Account(w) = Shared
    /\ Shared \in Accounts /\ Owners \subseteq Accounts
BY AuthAssumption DEF AuthAssumption, Account, Accounts

LEMMA Numbers ==
    ASSUME DataType
    PROVE  /\ \A w \in Workspaces : /\ file[w] \in Nat /\ seed[w] \in Nat
                                    /\ sync[w].gen \in Nat /\ refresh[w].gen \in Nat
                                    /\ cli[w] \in Nat
           /\ \A a \in Accounts : /\ live[a] \in Nat /\ secret[a] \in Nat
                                  /\ live[a] # None /\ secret[a] # None
                                  /\ live[a] <= MaxGen /\ secret[a] <= MaxGen
           /\ MaxGen \in Nat /\ Garbage \in Nat /\ MaxGen < Garbage /\ None = 0
BY AuthAssumption DEF AuthAssumption, DataType, Contents, Garbage, Gens, None

LEMMA InitCopies == Init => CopyInv
<1> SUFFICES ASSUME Init
             PROVE  CopyInv
  OBVIOUS
<1> USE OwnerFacts, AuthAssumption DEF AuthAssumption
<1>1. CentralInv /\ NoReuse
  BY DEF Init, CentralInv, NoReuse
<1>2. ASSUME NEW w \in Workspaces
      PROVE  ScriptInv(w)
  BY <1>2 DEF Init, ScriptInv, Idle
<1>3. ASSUME NEW w \in Workspaces
      PROVE  /\ file[w] \in {None, 1} /\ seed[w] \in {None, 1, Garbage}
             /\ sync[w] = Idle /\ refresh[w] = Idle
             /\ live[Account(w)] = 1 /\ secret[Account(w)] = 1
  BY <1>3, AccountType DEF Init
<1>4. ASSUME NEW w \in Workspaces \ Owners
      PROVE  SharerInv(w)
  BY <1>3, <1>4 DEF SharerInv, AtMost, Idle, None
<1>5. ASSUME NEW w \in Owners
      PROVE  OwnerInv(w)
  BY <1>3, <1>5 DEF OwnerInv, AtMost, Idle, None
<1> QED
  BY <1>1, <1>2, <1>4, <1>5 DEF CopyInv

-----------------------------------------------------------------------------
(* A step of one workspace leaves the others, and the other accounts, alone. *)

OthersStay(w) ==
    /\ UNCHANGED <<secret, rotated>>
    /\ \A v \in Workspaces \ {w} : /\ file'[v] = file[v] /\ seed'[v] = seed[v]
                                   /\ boot'[v] = boot[v] /\ sync'[v] = sync[v]
                                   /\ refresh'[v] = refresh[v] /\ cli'[v] = cli[v]
    /\ \A a \in Accounts \ {Account(w)} : /\ live'[a] = live[a]
                                          /\ a \in lost' <=> a \in lost
                                          /\ a \in demanded' <=> a \in demanded
                                          /\ a \in reused' <=> a \in reused
    /\ lost \subseteq lost' /\ demanded \subseteq demanded'

LEMMA LosesOwn ==
    ASSUME NEW w \in Workspaces, NEW contents, LosesTo(w, contents)
    PROVE  /\ \A a \in Accounts \ {Account(w)} : a \in lost' <=> a \in lost
           /\ lost \subseteq lost'
BY OwnerFacts DEF LosesTo

LEMMA BootOnly ==
    ASSUME DataType, NEW w \in Workspaces, NEW contents,
           SyncReturns(w, contents) \/ RefreshReturns(w)
    PROVE  \A v \in Workspaces \ {w} : boot'[v] = boot[v]
BY DEF DataType, SyncReturns, RefreshReturns

LEMMA BootAlone ==
    ASSUME DataType, NEW w \in Workspaces, Boot(w)
    PROVE  OthersStay(w)
<1>1. LosesTo(w, seed[w])
  BY Zenon DEF Boot
<1>2. UNCHANGED <<seed, sync, refresh, cli, live, secret, rotated, demanded, reused>>
  BY Zenon DEF Boot, scripts, external
<1>3. \A v \in Workspaces \ {w} : file'[v] = file[v] /\ boot'[v] = boot[v]
  BY DEF Boot, DataType
<1> QED
  BY <1>1, <1>2, <1>3, LosesOwn DEF OthersStay

LEMMA RestartAlone ==
    ASSUME DataType, NEW w \in Workspaces, Restart(w)
    PROVE  OthersStay(w)
<1>1. UNCHANGED <<file, live, secret, rotated, demanded, reused>>
  BY Zenon DEF Restart
<1>2. /\ boot' = [boot EXCEPT ![w] = "off"] /\ sync' = [sync EXCEPT ![w] = Idle]
      /\ refresh' = [refresh EXCEPT ![w] = Idle] /\ cli' = [cli EXCEPT ![w] = None]
      /\ seed' = seed \/ seed' = [seed EXCEPT ![w] = secret[Account(w)]]
      /\ lost' = lost \/ lost' = lost \cup {Account(w)}
  BY Zenon DEF Restart
<1>3. \A v \in Workspaces \ {w} : /\ seed'[v] = seed[v] /\ boot'[v] = boot[v]
                                  /\ sync'[v] = sync[v] /\ refresh'[v] = refresh[v]
                                  /\ cli'[v] = cli[v]
  BY <1>2 DEF DataType
<1> QED
  BY <1>1, <1>2, <1>3 DEF OthersStay

LEMMA SyncAlone ==
    ASSUME DataType, NEW w \in Workspaces, SyncStep(w)
    PROVE  OthersStay(w)
<1>1. UNCHANGED <<seed, refresh, cli, live, secret, rotated, demanded, reused>>
  BY Zenon DEF SyncStep, SyncFails, SyncGets, SyncAdopts, scripts, external, history
<1>2. CASE SyncFails(w)
  <2>1. UNCHANGED <<file, sync, lost>> /\ SyncReturns(w, file[w])
    BY <1>2, Zenon DEF SyncFails, scripts, history
  <2> QED
    BY <1>1, <2>1, BootOnly DEF OthersStay
<1>3. CASE SyncGets(w)
  BY <1>1, <1>3 DEF SyncGets, OthersStay, DataType, history
<1>4. CASE SyncAdopts(w)
  <2> DEFINE contents == Adopted(file[w], sync[w].gen)
  <2>1. /\ SyncReturns(w, contents) /\ LosesTo(w, contents)
        /\ file' = [file EXCEPT ![w] = contents] /\ sync' = [sync EXCEPT ![w] = Idle]
    BY <1>4, Zenon DEF SyncAdopts
  <2>2. \A v \in Workspaces \ {w} : file'[v] = file[v] /\ sync'[v] = sync[v]
    BY <2>1 DEF DataType
  <2>3. \A v \in Workspaces \ {w} : boot'[v] = boot[v]
    BY <2>1, BootOnly
  <2> QED
    BY <1>1, <2>1, <2>2, <2>3, LosesOwn DEF OthersStay
<1> QED
  BY <1>2, <1>3, <1>4 DEF SyncStep

LEMMA RefreshAlone ==
    ASSUME DataType, NEW w \in Workspaces, RefreshStep(w)
    PROVE  OthersStay(w)
<1> DEFINE a == Account(w)
<1>1. UNCHANGED <<seed, sync, cli, secret, rotated, demanded>>
  BY Zenon DEF RefreshStep, RefreshSkips, RefreshDue, PostSucceeds, PostFails,
               RefreshApplies, scripts, external
<1>2. boot' = boot \/ RefreshReturns(w)
  BY Zenon DEF RefreshStep, RefreshSkips, RefreshDue, PostSucceeds, PostFails,
               RefreshApplies
<1>3. \A v \in Workspaces \ {w} : boot'[v] = boot[v]
  BY <1>2, BootOnly
<1>4. /\ file' = file \/ file' = [file EXCEPT ![w] = refresh[w].gen]
      /\ refresh' = refresh \/ \E x : refresh' = [refresh EXCEPT ![w] = x]
  BY DEF RefreshStep, RefreshSkips, RefreshDue, PostSucceeds, PostFails,
         RefreshApplies, Applied, scripts
<1>5. /\ live' = live \/ live' = [live EXCEPT ![a] = @ + 1]
      /\ reused' = reused \/ reused' = reused \cup {a}
      /\ lost' = lost \/ lost' = lost \cup {a}
  BY DEF RefreshStep, RefreshSkips, RefreshDue, PostSucceeds, PostFails,
         RefreshApplies, Rotate, external, history
<1>6. \A v \in Workspaces \ {w} : file'[v] = file[v] /\ refresh'[v] = refresh[v]
  BY <1>4 DEF DataType
<1>7. \A b \in Accounts \ {a} : live'[b] = live[b]
  BY <1>5 DEF DataType
<1> QED
  BY <1>1, <1>3, <1>5, <1>6, <1>7 DEF OthersStay

LEMMA CliAlone ==
    ASSUME DataType, NEW w \in Workspaces, CliStep(w)
    PROVE  OthersStay(w)
<1> DEFINE a == Account(w)
<1>1. UNCHANGED <<seed, boot, sync, refresh, secret, rotated, lost>>
  BY Zenon DEF CliStep, CliPosts, CliWrites, scripts, history
<1>2. /\ live' = live \/ live' = [live EXCEPT ![a] = @ + 1]
      /\ reused' = reused \/ reused' = reused \cup {a}
      /\ demanded' = demanded \/ demanded' = demanded \cup {a}
      /\ cli' = cli \/ \E x : cli' = [cli EXCEPT ![w] = x]
      /\ file' = file \/ file' = [file EXCEPT ![w] = cli[w]]
  BY DEF CliStep, CliPosts, CliWrites, Rotate, history
<1>3. \A v \in Workspaces \ {w} : file'[v] = file[v] /\ cli'[v] = cli[v]
  BY <1>2 DEF DataType
<1>4. \A b \in Accounts \ {a} : live'[b] = live[b]
  BY <1>2 DEF DataType
<1> QED
  BY <1>1, <1>2, <1>3, <1>4 DEF OthersStay

\* What is left to show of a step: that it keeps its own workspace in order.
OwnKept(w) ==
    /\ ScriptInv(w)'
    /\ w \in Owners => OwnerInv(w)'
    /\ w \notin Owners =>
          SharerInv(w)' /\ (live'[Shared] = live[Shared] \/ Shared \in demanded')
    /\ Account(w) \in reused' =>
          Account(w) \in reused \cup (lost' \cap Owners) \cup demanded'

LEMMA OthersKept ==
    ASSUME DataType, CopyInv, NEW w \in Workspaces, OthersStay(w), OwnKept(w),
           reused' \in SUBSET Accounts
    PROVE  CopyInv'
<1> USE OwnerFacts
<1>1. CentralInv'
  <2>1. Shared \notin demanded' => live'[Shared] = live[Shared] /\ Shared \notin demanded
    BY DEF OthersStay, OwnKept
  <2> QED
    BY <2>1 DEF CopyInv, CentralInv, OthersStay
<1>2. ASSUME NEW v \in Workspaces, v # w
      PROVE  ScriptInv(v)'
  <2>1. Account(v) \in demanded => Account(v) \in demanded'
    BY DEF OthersStay
  <2> QED
    BY <1>2, <2>1 DEF CopyInv, ScriptInv, OthersStay
<1>3. ASSUME NEW v \in Workspaces \ Owners, v # w
      PROVE  SharerInv(v)'
  <2>1. Shared \in demanded => Shared \in demanded'
    BY DEF OthersStay
  <2> QED
    BY <1>3, <2>1 DEF CopyInv, SharerInv, OthersStay
<1>4. ASSUME NEW v \in Owners, v # w
      PROVE  OwnerInv(v)'
  <2>1. v \in Accounts \ {Account(w)} /\ v \in Workspaces
    BY <1>4 DEF Account
  <2> QED
    BY <1>4, <2>1 DEF CopyInv, OwnerInv, OthersStay
<1>5. NoReuse'
  BY DEF CopyInv, NoReuse, OthersStay, OwnKept
<1> QED
  BY <1>1, <1>2, <1>3, <1>4, <1>5 DEF CopyInv, OwnKept

-----------------------------------------------------------------------------
(* Each step keeps its workspace in order.                                 *)

\* What is known of the workspace that takes the step.
LEMMA Known ==
    ASSUME DataType, CopyInv, NEW w \in Workspaces
    PROVE  /\ ScriptInv(w)
           /\ w \in Owners => OwnerInv(w) /\ Account(w) = w
           /\ w \notin Owners => SharerInv(w) /\ Account(w) = Shared
           /\ Account(w) \in Accounts
BY OwnerFacts, AccountType DEF CopyInv

\* A workspace boots on what it was started with, if anything.
LEMMA BootKeeps ==
    ASSUME DataType, CopyInv, NEW w \in Workspaces, Boot(w)
    PROVE  OwnKept(w) /\ (Regresses(w) => Excused(w))
<1>1. /\ UNCHANGED <<seed, sync, refresh, cli, live, secret, rotated, demanded, reused>>
      /\ LosesTo(w, seed[w]) /\ boot[w] = "off"
  BY Zenon DEF Boot, scripts, external
<1>2. /\ boot'[w] = "syncing"
      /\ file'[w] = IF seed[w] = None THEN file[w] ELSE seed[w]
  BY DEF Boot, DataType
<1>3. sync[w] = Idle /\ refresh[w] = Idle /\ cli[w] = None
  BY <1>1, Known DEF ScriptInv
<1>4. ScriptInv(w)'
  BY <1>1, <1>2, Known DEF ScriptInv
<1>5. ASSUME w \in Owners
      PROVE  OwnerInv(w)'
  <2>1. w \notin lost' =>
            w \notin lost /\ (seed[w] \notin Gens \/ seed[w] = live[w])
    BY <1>1, <1>5 DEF LosesTo
  <2>2. seed[w] \in Gens \cup {None, Garbage}
    BY AuthAssumption DEF AuthAssumption, DataType, Contents, Garbage, Gens, None
  <2> QED
    BY <1>1, <1>2, <1>3, <1>5, <2>1, <2>2, Known DEF OwnerInv, Idle
<1>6. ASSUME w \notin Owners
      PROVE  SharerInv(w)'
  BY <1>1, <1>2, <1>3, <1>6, Known DEF SharerInv, Idle
<1> QED
  BY <1>1, <1>4, <1>5, <1>6 DEF OwnKept, Regresses

\* A box that stops between the POST and the write loses its credential.
LEMMA RestartKeeps ==
    ASSUME DataType, CopyInv, NEW w \in Workspaces, Restart(w)
    PROVE  OwnKept(w) /\ (Regresses(w) => Excused(w))
<1>1. UNCHANGED <<file, live, secret, rotated, demanded, reused>>
  BY Zenon DEF Restart
<1>2. /\ boot'[w] = "off" /\ sync'[w] = Idle /\ refresh'[w] = Idle /\ cli'[w] = None
      /\ seed'[w] \in {seed[w], secret[Account(w)]}
  BY DEF Restart, DataType
<1>3. lost' = IF refresh[w].pc = "answered" THEN lost \cup {Account(w)} ELSE lost
  BY Zenon DEF Restart
<1>4. ScriptInv(w)'
  BY <1>2 DEF ScriptInv, Idle
<1>5. ASSUME w \in Owners
      PROVE  OwnerInv(w)'
  BY <1>1, <1>2, <1>3, <1>5, Known DEF OwnerInv, AtMost, Idle
<1>6. ASSUME w \notin Owners
      PROVE  SharerInv(w)'
  BY <1>1, <1>2, <1>6, Known, Numbers DEF SharerInv, AtMost, Idle
<1> QED
  BY <1>1, <1>4, <1>5, <1>6, Numbers DEF OwnKept, Regresses, Older

\* boot[w] moves on only from a stage where the container runs.
LEMMA StillRunning ==
    ASSUME DataType, NEW w \in Workspaces, NEW contents, boot[w] # "off",
           SyncReturns(w, contents) \/ RefreshReturns(w)
    PROVE  boot'[w] # "off"
BY DEF DataType, SyncReturns, RefreshReturns, StageAfterSync

\* A re-sync adopts the platform's copy, and only one that parses.
LEMMA SyncKeeps ==
    ASSUME DataType, CopyInv, NEW w \in Workspaces, SyncStep(w)
    PROVE  OwnKept(w) /\ (Regresses(w) => Excused(w))
<1>1. UNCHANGED <<seed, refresh, cli, live, secret, rotated, demanded, reused>>
  BY Zenon DEF SyncStep, SyncFails, SyncGets, SyncAdopts, scripts, external, history
<1>2. CASE SyncFails(w)
  <2>1. UNCHANGED <<file, sync, lost>> /\ boot[w] # "off" /\ SyncReturns(w, file[w])
    BY <1>2, Zenon DEF SyncFails, scripts, history
  <2>2. boot'[w] # "off"
    BY <2>1, StillRunning
  <2> QED
    BY <1>1, <2>1, <2>2, Known, Numbers
       DEF OwnKept, ScriptInv, OwnerInv, SharerInv, Regresses, Older
<1>3. CASE SyncGets(w)
  <2>1. UNCHANGED <<file, boot, lost>> /\ boot[w] # "off"
    BY <1>3, Zenon DEF SyncGets, history
  <2>2. PICK answer \in {secret[Account(w)], Garbage} :
            sync' = [sync EXCEPT ![w] = [pc |-> "got", gen |-> answer]]
    BY <1>3 DEF SyncGets
  <2>3. sync'[w] = [pc |-> "got", gen |-> answer]
    BY <2>2 DEF DataType
  <2>4. ScriptInv(w)'
    BY <1>1, <2>1, <2>3, Known, Numbers DEF ScriptInv
  <2>5. w \in Owners => OwnerInv(w)'
    BY <1>1, <2>1, <2>3, Known DEF OwnerInv, AtMost
  <2>6. w \notin Owners => SharerInv(w)'
    BY <1>1, <2>1, <2>3, Known, Numbers DEF SharerInv
  <2> QED
    BY <1>1, <2>1, <2>4, <2>5, <2>6, Known, Numbers DEF OwnKept, Regresses, Older
<1>4. CASE SyncAdopts(w)
  <2> DEFINE contents == Adopted(file[w], sync[w].gen)
  <2>1. /\ sync[w].pc = "got" /\ SyncReturns(w, contents) /\ LosesTo(w, contents)
        /\ file' = [file EXCEPT ![w] = contents] /\ sync' = [sync EXCEPT ![w] = Idle]
    BY <1>4, Zenon DEF SyncAdopts
  <2>2. sync'[w] = Idle /\ file'[w] = contents
    BY <2>1 DEF DataType
  <2>3. boot[w] # "off" /\ boot'[w] # "off"
    <3>1. boot[w] # "off"
      BY <2>1, Known DEF ScriptInv, Idle
    <3> QED
      BY <2>1, <3>1, StillRunning
  <2>4. \/ contents = file[w] /\ sync[w].gen = Garbage
        \/ contents = sync[w].gen /\ sync[w].gen \in Gens
    <3>1. sync[w].gen \in Contents /\ sync[w].gen # None
      BY <2>1, Known DEF ScriptInv, DataType
    <3>2. sync[w].gen = Garbage \/ sync[w].gen \in Gens
      BY <3>1, Numbers DEF Contents, Garbage, Gens
    <3> QED
      BY <3>2, Numbers DEF Adopted, Gens
  <2>5. ScriptInv(w)'
    BY <1>1, <2>2, <2>3, Known DEF ScriptInv, Idle
  <2>6. ASSUME w \in Owners
        PROVE  OwnerInv(w)'
    <3>1. w \notin lost' =>
              w \notin lost /\ (contents \notin Gens \/ contents = live[w])
      BY <2>1, <2>6 DEF LosesTo
    <3> QED
      BY <1>1, <2>1, <2>2, <2>4, <2>6, <3>1, Known DEF OwnerInv, AtMost, Idle
  <2>7. ASSUME w \notin Owners
        PROVE  SharerInv(w)'
    BY <1>1, <2>1, <2>2, <2>4, <2>7, Known, Numbers DEF SharerInv, AtMost, Idle, Gens
  <2>8. ASSUME Regresses(w)
        PROVE  Excused(w)
    <3>1. contents = sync[w].gen /\ sync[w].gen \in Gens /\ sync[w].gen < file[w]
          /\ file[w] \in Gens
      BY <2>2, <2>4, <2>8, Numbers DEF Regresses, Older
    <3>2. CASE w \in Owners
      BY <2>1, <2>2, <3>1, <3>2 DEF Excused
    <3>3. CASE w \notin Owners
      <4>1. Shared \in demanded
        BY <2>1, <3>1, <3>3, Known, Numbers DEF SharerInv, AtMost, Gens
      <4> QED
        BY <2>2, <3>1, <3>3, <4>1, Known DEF Excused
    <3> QED
      BY <3>2, <3>3
  <2> QED
    BY <1>1, <2>5, <2>6, <2>7, <2>8, Known DEF OwnKept
<1> QED
  BY <1>2, <1>3, <1>4 DEF SyncStep

\* The watchdog posts the latest credential of its box and writes what it got,
\* unless the answer or the write fails.
LEMMA RefreshKeeps ==
    ASSUME DataType, CopyInv, NEW w \in Workspaces, RefreshStep(w)
    PROVE  OwnKept(w) /\ (Regresses(w) => Excused(w))
<1>1. UNCHANGED <<seed, sync, cli, secret, rotated, demanded>>
  BY Zenon DEF RefreshStep, RefreshSkips, RefreshDue, PostSucceeds, PostFails,
               RefreshApplies, scripts, external
<1>2. CASE RefreshSkips(w)
  <2>1. UNCHANGED <<file, refresh, live, lost, reused>> /\ boot[w] # "off"
        /\ RefreshReturns(w)
    BY <1>2 DEF RefreshSkips, Primed, scripts, external, history
  <2>2. boot'[w] # "off"
    BY <2>1, StillRunning
  <2> QED
    BY <1>1, <2>1, <2>2, Known, Numbers
       DEF OwnKept, ScriptInv, OwnerInv, SharerInv, Regresses, Older
<1>3. ASSUME ~RefreshSkips(w)
      PROVE  w \in Owners /\ boot[w] # "off"
  <2>1. RefreshDue(w) \/ refresh[w].pc # "idle"
    BY <1>3 DEF RefreshStep, PostSucceeds, PostFails, RefreshApplies
  <2> QED
    BY <2>1, Known DEF RefreshDue, Primed, MayPost, ScriptInv, Idle
<1>4. ASSUME ~RefreshSkips(w), ScriptInv(w)', OwnerInv(w)',
             w \in reused' => w \in reused \cup lost' \cup demanded',
             file'[w] = file[w]
      PROVE  OwnKept(w) /\ (Regresses(w) => Excused(w))
  <2>1. w \in Owners /\ Account(w) = w
    BY <1>3, <1>4, Known
  <2> QED
    BY <1>4, <2>1, Numbers DEF OwnKept, Regresses, Older
<1>5. CASE RefreshDue(w) /\ ~RefreshSkips(w)
  <2>1. /\ UNCHANGED <<file, boot, live, lost, reused>>
        /\ file[w] \in Gens /\ refresh[w].pc = "idle"
    BY <1>5 DEF RefreshDue, Primed, MayPost, external, history
  <2>2. refresh'[w] = [pc |-> "due", gen |-> file[w]]
    BY <1>5 DEF RefreshDue, DataType
  <2>3. ScriptInv(w)'
    BY <1>1, <1>3, <1>5, <2>1, <2>2, Known DEF ScriptInv
  <2>4. OwnerInv(w)'
    BY <1>1, <1>3, <1>5, <2>1, <2>2, Known, Numbers DEF OwnerInv, Gens
  <2> QED
    BY <1>4, <1>5, <2>1, <2>3, <2>4
<1>6. CASE PostSucceeds(w) /\ ~RefreshSkips(w)
  <2>1. /\ UNCHANGED <<file, boot, lost, reused>>
        /\ refresh[w].pc = "due" /\ live' = [live EXCEPT ![w] = @ + 1]
        /\ refresh' = [refresh EXCEPT ![w] = [pc |-> "answered", gen |-> live[w] + 1]]
    BY <1>3, <1>6, Known DEF PostSucceeds, Rotate
  <2>2. refresh'[w] = [pc |-> "answered", gen |-> live[w] + 1] /\ live'[w] = live[w] + 1
    BY <1>3, <1>6, <2>1, OwnerFacts DEF DataType
  <2>3. ScriptInv(w)'
    BY <1>1, <1>3, <1>6, <2>1, <2>2, Known, Numbers DEF ScriptInv, Idle
  <2>4. OwnerInv(w)'
    BY <1>1, <1>3, <1>6, <2>1, <2>2, Known, Numbers, OwnerFacts DEF OwnerInv, AtMost
  <2> QED
    BY <1>4, <1>6, <2>1, <2>3, <2>4
<1>7. CASE PostFails(w) /\ ~RefreshSkips(w)
  <2>1. file' = file /\ refresh[w].pc = "due" /\ RefreshReturns(w)
    BY <1>7 DEF PostFails
  <2>2. refresh'[w] = Idle
    BY <1>7 DEF PostFails, DataType
  <2>3. boot'[w] # "off"
    BY <1>3, <1>7, <2>1, StillRunning
  <2>4. \/ UNCHANGED <<live, reused, lost>>
        \/ refresh[w].gen # live[w] /\ UNCHANGED <<live, lost>>
        \/ live' = [live EXCEPT ![w] = @ + 1] /\ reused' = reused /\ lost' = lost \cup {w}
    BY <1>3, <1>7, Known DEF PostFails, Rotate
  <2>5. \/ live'[w] = live[w] /\ UNCHANGED lost
        \/ live'[w] = live[w] + 1 /\ w \in lost'
    BY <1>3, <1>7, <2>4, OwnerFacts DEF DataType
  <2>6. ScriptInv(w)'
    BY <1>1, <2>2, <2>3, Known DEF ScriptInv, Idle
  <2>7. OwnerInv(w)'
    BY <1>1, <1>3, <1>7, <2>1, <2>2, <2>5, Known, Numbers, OwnerFacts
       DEF OwnerInv, AtMost, Idle
  <2>8. w \in reused' => w \in reused \cup lost' \cup demanded'
    BY <1>1, <1>3, <1>7, <2>1, <2>4, Known DEF OwnerInv
  <2> QED
    BY <1>4, <1>7, <2>1, <2>6, <2>7, <2>8
<1>8. CASE RefreshApplies(w) /\ ~RefreshSkips(w)
  <2>1. /\ UNCHANGED <<live, reused>> /\ refresh[w].pc = "answered" /\ RefreshReturns(w)
        /\ \/ file' = [file EXCEPT ![w] = refresh[w].gen] /\ UNCHANGED lost
           \/ file' = file /\ lost' = lost \cup {w}
    BY <1>3, <1>8, Known DEF RefreshApplies, Applied, external
  <2>2. /\ refresh'[w] = Idle
        /\ \/ file'[w] = refresh[w].gen /\ UNCHANGED lost
           \/ file'[w] = file[w] /\ w \in lost'
    BY <1>8, <2>1 DEF RefreshApplies, DataType
  <2>3. boot'[w] # "off"
    BY <1>3, <1>8, <2>1, StillRunning
  <2>4. ScriptInv(w)'
    BY <1>1, <2>2, <2>3, Known DEF ScriptInv, Idle
  <2>5. OwnerInv(w)'
    BY <1>1, <1>3, <1>8, <2>1, <2>2, Known, Numbers DEF OwnerInv, AtMost, Idle
  <2>6. ASSUME Regresses(w)
        PROVE  Excused(w)
    <3>1. file[w] \in Gens /\ file'[w] = refresh[w].gen /\ refresh[w].gen \in Gens
          /\ refresh[w].gen < file[w]
      BY <2>1, <2>2, <2>6, Known, Numbers DEF Regresses, Older, ScriptInv, Gens, DataType
    <3>2. w \in demanded
      BY <1>3, <1>8, <2>1, <3>1, Known, Numbers DEF OwnerInv, AtMost, Gens
    <3> QED
      BY <1>3, <1>8, <3>1, <3>2, Known DEF Excused
  <2> QED
    BY <1>3, <1>8, <2>1, <2>4, <2>5, <2>6, Known DEF OwnKept
<1> QED
  BY <1>2, <1>5, <1>6, <1>7, <1>8 DEF RefreshStep

\* Once a CLI rotates on its own, nothing is known of the account any more.
LEMMA CliKeeps ==
    ASSUME DataType, CopyInv, NEW w \in Workspaces, CliStep(w)
    PROVE  OwnKept(w) /\ (Regresses(w) => Excused(w))
<1>1. UNCHANGED <<seed, boot, sync, refresh, secret, rotated, lost>>
  BY Zenon DEF CliStep, CliPosts, CliWrites, scripts, history
<1>2. Account(w) \in demanded'
  BY Known DEF CliStep, CliPosts, CliWrites, ScriptInv
<1>3. /\ boot'[w] = "off" => cli'[w] = None
      /\ file'[w] = file[w] \/ (cli[w] # None /\ file'[w] = cli[w])
  BY Known DEF CliStep, CliPosts, CliWrites, ScriptInv, DataType
<1>4. ScriptInv(w)'
  BY <1>1, <1>2, <1>3, Known DEF ScriptInv
<1>5. OwnKept(w)
  BY <1>2, <1>4, Known DEF OwnKept, OwnerInv, SharerInv
<1>6. ASSUME Regresses(w)
      PROVE  Excused(w)
  <2>1. cli[w] # None /\ file'[w] = cli[w]
    BY <1>3, <1>6, Numbers DEF Regresses, Older
  <2>2. file'[w] \in Gens
    BY <2>1 DEF DataType, Gens, None
  <2>3. Account(w) \in demanded
    BY <2>1, Known DEF ScriptInv
  <2> QED
    BY <2>2, <2>3 DEF Excused
<1> QED
  BY <1>5, <1>6

\* The platform's refresher posts what it saved last, and saves what it got.
LEMMA CentralKeeps ==
    ASSUME DataType, CopyInv, CentralRotates \/ CentralSaves
    PROVE  CopyInv' /\ file' = file
<1> USE OwnerFacts, Numbers
<1>1. UNCHANGED <<file, seed, boot, sync, refresh, cli, lost, demanded>>
  BY Zenon DEF CentralRotates, CentralSaves, scripts, history
<1>2. \A a \in Accounts \ {Shared} : /\ live'[a] = live[a] /\ secret'[a] = secret[a]
                                     /\ a \in reused' <=> a \in reused
  BY DEF CentralRotates, CentralSaves, Rotate, DataType, history
<1>3. ASSUME Shared \notin demanded
      PROVE  /\ secret[Shared] <= secret'[Shared] /\ secret'[Shared] <= live'[Shared]
             /\ IF rotated' = None THEN secret'[Shared] = live'[Shared]
                                   ELSE rotated' = live'[Shared]
             /\ reused' = reused
  <2>1. CASE CentralRotates
    <3>1. rotated = None /\ secret' = secret /\ secret[Shared] = live[Shared]
      BY <1>3, <2>1 DEF CentralRotates, CopyInv, CentralInv
    <3>2. live' = [live EXCEPT ![Shared] = @ + 1] /\ reused' = reused
          /\ rotated' = live[Shared] + 1
      BY <2>1, <3>1 DEF CentralRotates, Rotate
    <3>3. live'[Shared] = live[Shared] + 1
      BY <3>2 DEF DataType
    <3> QED
      BY <3>1, <3>2, <3>3
  <2>2. CASE CentralSaves
    <3>1. live' = live /\ reused' = reused /\ rotated' = None /\ rotated # None
          /\ secret' = [secret EXCEPT ![Shared] = rotated]
      BY <2>2 DEF CentralSaves, history
    <3>2. secret'[Shared] = rotated
      BY <3>1 DEF DataType
    <3> QED
      BY <1>3, <3>1, <3>2 DEF CopyInv, CentralInv
  <2> QED
    BY <2>1, <2>2
<1>4. CentralInv'
  BY <1>1, <1>3 DEF CentralInv
<1>5. \A w \in Workspaces : ScriptInv(w)'
  BY <1>1 DEF CopyInv, ScriptInv
<1>6. ASSUME NEW w \in Workspaces \ Owners
      PROVE  SharerInv(w)'
  <2>1. secret'[Shared] \in Nat
    BY DEF CentralRotates, CentralSaves, DataType
  <2>2. SharerInv(w)
    BY DEF CopyInv
  <2> QED
    BY <1>1, <1>3, <2>1, <2>2 DEF SharerInv, AtMost
<1>7. ASSUME NEW w \in Owners
      PROVE  OwnerInv(w)'
  BY <1>1, <1>2 DEF CopyInv, OwnerInv
<1>8. NoReuse'
  <2>1. reused' \subseteq reused \cup {Shared}
    BY DEF CentralRotates, CentralSaves, Rotate, history
  <2> QED
    BY <1>1, <1>3, <2>1 DEF CopyInv, NoReuse
<1> QED
  BY <1>1, <1>4, <1>5, <1>6, <1>7, <1>8 DEF CopyInv

\* Every step keeps the copies of a credential in order.
LEMMA NextCopies ==
    ASSUME DataType, CopyInv, [Next]_vars
    PROVE  CopyInv' /\ \A w \in Workspaces : Regresses(w) => Excused(w)
<1>1. DataType'
  BY NextData
<1>2. ASSUME NEW w \in Workspaces, WorkspaceStep(w)
      PROVE  CopyInv' /\ \A v \in Workspaces : Regresses(v) => Excused(v)
  <2>1. OthersStay(w)
    BY <1>2, BootAlone, RestartAlone, SyncAlone, RefreshAlone, CliAlone DEF WorkspaceStep
  <2>2. OwnKept(w) /\ (Regresses(w) => Excused(w))
    BY <1>2, BootKeeps, RestartKeeps, SyncKeeps, RefreshKeeps, CliKeeps DEF WorkspaceStep
  <2>3. CopyInv'
    BY <1>1, <2>1, <2>2, OthersKept DEF DataType
  <2>4. \A v \in Workspaces \ {w} : ~Regresses(v)
    BY <2>1, Numbers DEF OthersStay, Regresses, Older
  <2> QED
    BY <2>2, <2>3, <2>4
<1>3. CASE CentralRotates \/ CentralSaves
  BY <1>3, CentralKeeps, Numbers DEF Regresses, Older
<1>4. CASE UNCHANGED vars
  <2>1. CentralInv' /\ NoReuse' /\ \A w \in Workspaces : ScriptInv(w)'
    BY <1>4 DEF vars, CopyInv, CentralInv, NoReuse, ScriptInv
  <2>2. \A w \in Workspaces \ Owners : SharerInv(w)'
    BY <1>4 DEF vars, CopyInv, SharerInv
  <2>3. \A w \in Owners : OwnerInv(w)'
    BY <1>4 DEF vars, CopyInv, OwnerInv
  <2>4. \A w \in Workspaces : ~Regresses(w)
    BY <1>4, Numbers DEF vars, Regresses, Older
  <2> QED
    BY <2>1, <2>2, <2>3, <2>4 DEF CopyInv
<1> QED
  BY <1>2, <1>3, <1>4 DEF Next, WorkspaceStep

AuthInv == DataType /\ CopyInv

\* The inductive invariant: who may hold which generation of which account.
THEOREM CopiesInOrder == Spec => []AuthInv
<1>1. Init => AuthInv
  BY InitData, InitCopies DEF AuthInv
<1>2. AuthInv /\ [Next]_vars => AuthInv'
  BY NextData, NextCopies DEF AuthInv
<1> QED
  BY <1>1, <1>2, PTL DEF Spec

\* The scripts and the platform present no spent refresh token, in any number of
\* workspaces and owner boxes, whatever they start with, unless a CLI refreshed
\* on its own or an owner box lost the credential it rotated to.
THEOREM TokensUsedOnce == Spec => []NoReuse
<1>1. AuthInv => NoReuse
  BY DEF AuthInv, CopyInv
<1> QED
  BY <1>1, CopiesInOrder, PTL

\* Between boots nothing puts garbage in the place of a good credential, nor an
\* older one in the place of a newer one, unless a CLI refreshed on its own or
\* the platform's copy is put over the credential of an owner box.
THEOREM FilesNeverGoBack == Spec => SyncIsMonotone
<1>1. AuthInv /\ [Next]_vars
      => [\A w \in Workspaces : Regresses(w) => Excused(w)]_vars
  BY NextCopies DEF AuthInv
<1>2. Spec => []AuthInv
  BY CopiesInOrder
<1> QED
  BY <1>1, <1>2, PTL DEF Spec, SyncIsMonotone
=============================================================================
