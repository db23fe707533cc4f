------------------------------ MODULE AuthSync ------------------------------
(***************************************************************************)
(* Who writes $CODEX_HOME/auth.json and who rotates the single-use refresh *)
(* token in it: the boot script start.sh, the GET-only re-sync             *)
(* codex_auth_sync.sh, and the refresh watchdog codex_auth_refresh.sh,     *)
(* which posts to the OAuth endpoint on an owner box only.  External are   *)
(* the codex CLI, which refreshes on demand in every workspace, the        *)
(* platform's central refresher and the OAuth server.                      *)
(*                                                                         *)
(* A credential is its generation: the OAuth server honours the refresh    *)
(* token of an account's latest one only, and every rotation makes the     *)
(* next.  An owner box has an account of its own, all other workspaces     *)
(* share one.  Any of them may be started with a credential in the         *)
(* environment, which nothing validates.                                   *)
(*                                                                         *)
(* X_Suffix is what a plausible bug would make of X; nothing uses it.      *)
(***************************************************************************)
EXTENDS Naturals, FiniteSets

CONSTANTS
    Workspaces, \* workspaces with a ChatGPT subscription
    Owners,     \* those started with CODEX_AUTH_REFRESH_OWNER=1
    Keyed,      \* those whose secrets on the platform carry CODEX_AUTH_JSON
    Shared,     \* the account of the workspaces that own none
    MaxGen,     \* bound: generations of a credential
    MaxBoots    \* bound: boots of each workspace

ASSUME AuthAssumption ==
    /\ Owners \subseteq Workspaces
    /\ Keyed \subseteq Workspaces
    /\ Shared \notin Workspaces
    /\ MaxGen \in Nat /\ MaxGen > 0
    /\ MaxBoots \in Nat

Accounts   == Owners \cup {Shared}
Account(w) == IF w \in Owners THEN w ELSE Shared

None     == 0               \* no auth.json, no seed, no answer
Gens     == 1 .. MaxGen
Garbage  == MaxGen + 1      \* text that is not JSON
Contents == 0 .. Garbage    \* of a file or of an answer

VARIABLES
    file,     \* the credential in auth.json, on the persistent volume
    seed,     \* CODEX_AUTH_JSON in the container's environment
    boot,     \* where start.sh is: off, syncing, priming, up
    boots,    \* boots so far
    watched,  \* whether start.sh launched the refresh watchdog
    sync,     \* the GET whose answer codex_auth_sync.sh is about to adopt
    refresh,  \* the attempt codex_auth_refresh.sh is making
    cli,      \* the credential the CLI of a workspace got and has yet to write
    live,     \* OAuth server: the generation whose refresh token is honoured
    secret,   \* platform: the credential in its secrets
    rotated,  \* platform: what the central refresher has yet to save
    lost,     \* history: accounts whose owner box no longer has the credential it
              \* rotated to, or had it replaced by a spent one
    demanded, \* history: accounts whose refresh token a CLI posted on its own
    reused,   \* history: accounts of which a spent refresh token was presented
    atBoot    \* history: the platform's credential when each boot began

vars == <<file, seed, boot, boots, watched, sync, refresh, cli, live, secret, rotated,
          lost, demanded, reused, atBoot>>

external == <<cli, live, secret, rotated, demanded>>
scripts  == <<sync, refresh>>
history  == <<lost, reused, atBoot>>

Idle == [pc |-> "idle", gen |-> None]

\* The volume is new, or holds a credential of an earlier container or login.
Init ==
    /\ file \in [Workspaces -> {None, 1}]
    /\ seed \in [Workspaces -> {None, 1, Garbage}]
    /\ boot = [w \in Workspaces |-> "off"]
    /\ boots = [w \in Workspaces |-> 0]
    /\ watched = [w \in Workspaces |-> FALSE]
    /\ sync = [w \in Workspaces |-> Idle]
    /\ refresh = [w \in Workspaces |-> Idle]
    /\ cli = [w \in Workspaces |-> None]
    /\ live = [a \in Accounts |-> 1]
    /\ secret = [a \in Accounts |-> 1]
    /\ rotated = None
    /\ lost = {} /\ demanded = {} /\ reused = {}
    /\ atBoot = [w \in Workspaces |-> None]

-----------------------------------------------------------------------------
(* start.sh.                                                               *)

\* Where boot goes after the synchronous re-sync: the watchdog is primed only
\* if there is an auth.json by now; otherwise molecule-runtime starts.
StageAfterSync(contents) == IF contents # None THEN "priming" ELSE "up"

\* An owner box loses its credential when a spent one takes its place.
LosesTo(w, contents) ==
    lost' = IF w \in Owners /\ contents \in Gens /\ contents # live[w]
            THEN lost \cup {w} ELSE lost

\* The environment's credential, when there is one, replaces auth.json as it is.
Boot(w) ==
    /\ boot[w] = "off" /\ boots[w] < MaxBoots
    /\ boots' = [boots EXCEPT ![w] = @ + 1]
    /\ boot' = [boot EXCEPT ![w] = "syncing"]
    /\ file' = IF seed[w] = None THEN file ELSE [file EXCEPT ![w] = seed[w]]
    /\ watched' = [watched EXCEPT ![w] = FALSE]
    /\ LosesTo(w, seed[w])
    /\ atBoot' = [atBoot EXCEPT ![w] = secret[Account(w)]]
    /\ UNCHANGED <<seed, scripts, external, reused>>

SyncReturns_IfWritten(w, contents) ==
    IF boot[w] = "syncing" /\ contents # file[w]
    THEN /\ boot' = [boot EXCEPT ![w] = StageAfterSync(contents)]
         /\ watched' = [watched EXCEPT ![w] = contents # None]
    ELSE UNCHANGED <<boot, watched>>

\* `--once` returned, whatever its code: the loop is launched and boot goes on.
SyncReturns(w, contents) ==
    IF boot[w] = "syncing"
    THEN /\ boot' = [boot EXCEPT ![w] = StageAfterSync(contents)]
         /\ watched' = [watched EXCEPT ![w] = contents # None]
    ELSE UNCHANGED <<boot, watched>>

\* The priming `--once` of the watchdog returned, whatever its code.
RefreshReturns(w) ==
    boot' = IF boot[w] = "priming" THEN [boot EXCEPT ![w] = "up"] ELSE boot

\* The container stops at any point; it may be provisioned again with the
\* credential the platform holds then.
Restart(w) ==
    /\ boot[w] # "off" /\ boots[w] < MaxBoots
    /\ boot' = [boot EXCEPT ![w] = "off"]
    /\ sync' = [sync EXCEPT ![w] = Idle]
    /\ refresh' = [refresh EXCEPT ![w] = Idle]
    /\ cli' = [cli EXCEPT ![w] = None]
    /\ lost' = IF refresh[w].pc = "answered" THEN lost \cup {Account(w)} ELSE lost
    /\ \/ UNCHANGED seed
       \/ seed[w] # None /\ seed' = [seed EXCEPT ![w] = secret[Account(w)]]
    /\ UNCHANGED <<file, boots, watched, live, secret, rotated, demanded, reused, atBoot>>

-----------------------------------------------------------------------------
(* codex_auth_sync.sh: `--once` during boot, the loop ever after.          *)

\* No answer, no .auth_token, a status other than 2xx, no CODEX_AUTH_JSON in
\* the map: auth.json is left alone.
SyncFails(w) ==
    /\ boot[w] # "off" /\ sync[w].pc = "idle"
    /\ SyncReturns(w, file[w])
    /\ UNCHANGED <<file, seed, boots, scripts, external, history>>

\* 2xx with a CODEX_AUTH_JSON, which is JSON or not.
SyncGets(w) ==
    /\ boot[w] # "off" /\ sync[w].pc = "idle"
    /\ w \in Keyed
    /\ \E answer \in {secret[Account(w)], Garbage} :
          sync' = [sync EXCEPT ![w] = [pc |-> "got", gen |-> answer]]
    /\ UNCHANGED <<file, seed, boot, boots, watched, refresh, external, history>>

Adopted_Unchecked(old, new) == new
Adopted_IfAbsent(old, new) == IF old = None THEN new ELSE old

\* The helper keeps auth.json unless the answer parses.
Adopted(old, new) == IF new = Garbage THEN old ELSE new

SyncAdopts(w) ==
    /\ sync[w].pc = "got"
    /\ LET contents == Adopted(file[w], sync[w].gen)
       IN  /\ file' = [file EXCEPT ![w] = contents]
           /\ SyncReturns(w, contents)
           /\ LosesTo(w, contents)
    /\ sync' = [sync EXCEPT ![w] = Idle]
    /\ UNCHANGED <<seed, boots, refresh, external, reused, atBoot>>

-----------------------------------------------------------------------------
(* codex_auth_refresh.sh: `--once` during boot, the loop ever after.       *)

Primed(w) == boot[w] \in {"priming", "up"} /\ watched[w] /\ refresh[w].pc = "idle"

MayPost_Anyone(w)   == file[w] \in Gens
MayPost_Unparsed(w) == file[w] # None /\ w \in Owners

MayPost(w) == file[w] \in Gens /\ w \in Owners

\* No auth.json or none that parses, not the owner, no refresh token, or still
\* fresh.
RefreshSkips(w) ==
    /\ Primed(w)
    /\ RefreshReturns(w)
    /\ UNCHANGED <<file, seed, boots, watched, scripts, external, history>>

\* The decision: auth.json holds a refresh token that is due.
RefreshDue(w) ==
    /\ Primed(w)
    /\ MayPost(w)
    /\ refresh' = [refresh EXCEPT ![w] = [pc |-> "due", gen |-> file[w]]]
    /\ UNCHANGED <<file, seed, boot, boots, watched, sync, external, history>>

\* The OAuth server (external) takes a refresh token once; whoever presents a
\* spent one gets 401.
Rotate(a, gen) ==
    /\ live' = IF gen = live[a] THEN [live EXCEPT ![a] = @ + 1] ELSE live
    /\ reused' = IF gen = live[a] THEN reused ELSE reused \cup {a}

\* 2xx: the response is on its way to apply_refresh_response().
PostSucceeds(w) ==
    LET a == Account(w)
    IN  /\ refresh[w].pc = "due" /\ refresh[w].gen = live[a]
        /\ live[a] < MaxGen
        /\ Rotate(a, refresh[w].gen)
        /\ refresh' = [refresh EXCEPT ![w] = [pc |-> "answered", gen |-> live[a] + 1]]
        /\ UNCHANGED <<file, seed, boot, boots, watched, sync, cli, secret, rotated, lost,
                       demanded, atBoot>>

\* 401, or no usable answer although the server may have rotated.
PostFails(w) ==
    LET a == Account(w)
    IN  /\ refresh[w].pc = "due"
        /\ \/ refresh[w].gen # live[a] /\ Rotate(a, refresh[w].gen) /\ UNCHANGED lost
           \/ /\ refresh[w].gen = live[a] /\ live[a] < MaxGen
              /\ Rotate(a, refresh[w].gen)
              /\ lost' = lost \cup {a}
           \/ UNCHANGED <<live, reused, lost>>
        /\ refresh' = [refresh EXCEPT ![w] = Idle]
        /\ RefreshReturns(w)
        /\ UNCHANGED <<file, seed, boots, watched, sync, cli, secret, rotated, demanded,
                       atBoot>>

\* The new tokens go into whatever auth.json holds by now.
Applied(w) == [file EXCEPT ![w] = refresh[w].gen]

\* It is kept if it does not parse by now or cannot be written.
RefreshApplies(w) ==
    /\ refresh[w].pc = "answered"
    /\ \/ /\ file[w] # Garbage
          /\ file' = Applied(w)
          /\ UNCHANGED lost
       \/ UNCHANGED file /\ lost' = lost \cup {Account(w)}
    /\ refresh' = [refresh EXCEPT ![w] = Idle]
    /\ RefreshReturns(w)
    /\ UNCHANGED <<seed, boots, watched, sync, external, reused, atBoot>>

-----------------------------------------------------------------------------
(* The codex CLI (external): on demand, and on a 401, it posts the refresh *)
(* token of auth.json and rewrites the file, in any workspace.             *)

\* The answer arrives, or gets lost although the server rotated, or is a 401.
CliPosts(w) ==
    LET a == Account(w)
    IN  /\ boot[w] = "up" /\ cli[w] = None
        /\ file[w] \in Gens
        /\ file[w] = live[a] => live[a] < MaxGen
        /\ Rotate(a, file[w])
        /\ demanded' = demanded \cup {a}
        /\ \/ UNCHANGED cli
           \/ file[w] = live[a] /\ cli' = [cli EXCEPT ![w] = live[a] + 1]
        /\ UNCHANGED <<file, seed, boot, boots, watched, scripts, secret, rotated, lost,
                       atBoot>>

CliWrites(w) ==
    /\ cli[w] # None
    /\ file' = [file EXCEPT ![w] = cli[w]]
    /\ cli' = [cli EXCEPT ![w] = None]
    /\ UNCHANGED <<seed, boot, boots, watched, scripts, live, secret, rotated, demanded,
                   history>>

-----------------------------------------------------------------------------
(* The platform's central refresher (external): rotate, then save.         *)

CentralRotates ==
    /\ rotated = None
    /\ live[Shared] < MaxGen
    /\ Rotate(Shared, secret[Shared])
    /\ rotated' = IF secret[Shared] = live[Shared] THEN live[Shared] + 1 ELSE None
    /\ UNCHANGED <<file, seed, boot, boots, watched, scripts, cli, secret, lost, demanded,
                   atBoot>>

CentralSaves ==
    /\ rotated # None
    /\ secret' = [secret EXCEPT ![Shared] = rotated]
    /\ rotated' = None
    /\ UNCHANGED <<file, seed, boot, boots, watched, scripts, cli, live, demanded, history>>

-----------------------------------------------------------------------------
SyncStep(w)    == SyncFails(w) \/ SyncGets(w) \/ SyncAdopts(w)
RefreshStep(w) == RefreshSkips(w) \/ RefreshDue(w) \/ PostSucceeds(w) \/ PostFails(w)
                  \/ RefreshApplies(w)
CliStep(w)     == CliPosts(w) \/ CliWrites(w)

Next ==
    \/ \E w \in Workspaces :
          Boot(w) \/ Restart(w) \/ SyncStep(w) \/ RefreshStep(w) \/ CliStep(w)
    \/ CentralRotates \/ CentralSaves

Spec == Init /\ [][Next]_vars

\* The scripts run; the platform sends its credential again and again to a
\* loop that keeps asking, and saves what it rotated.  Nothing obliges the CLI.
GetsCredential(w) == SyncGets(w) /\ sync'[w].gen # Garbage

Fairness ==
    /\ \A w \in Workspaces :
        /\ WF_vars(Boot(w))
        /\ SF_vars(SyncFails(w) \/ SyncGets(w)) /\ WF_vars(SyncAdopts(w))
        /\ WF_vars(RefreshStep(w))
    /\ \A w \in Keyed : SF_vars(GetsCredential(w))
    /\ WF_vars(CentralSaves)

FairSpec == Spec /\ Fairness

-----------------------------------------------------------------------------
\* Types of the scripts' state; in particular no one posts from an auth.json that
\* does not parse, such as a seed start.sh wrote unread (needs_refresh_and_payload
\* reports it as unreadable).
TypeOK ==
    /\ file \in [Workspaces -> Contents]
    /\ seed \in [Workspaces -> Contents]
    /\ boot \in [Workspaces -> {"off", "syncing", "priming", "up"}]
    /\ boots \in [Workspaces -> 0 .. MaxBoots]
    /\ watched \in [Workspaces -> BOOLEAN]
    /\ sync \in [Workspaces -> [pc : {"idle", "got"}, gen : Contents]]
    /\ refresh \in [Workspaces -> [pc : {"idle", "due", "answered"}, gen : 0 .. MaxGen]]
    /\ cli \in [Workspaces -> 0 .. MaxGen]
    /\ live \in [Accounts -> Gens] /\ secret \in [Accounts -> Gens]
    /\ rotated \in 0 .. MaxGen
    /\ lost \in SUBSET Accounts /\ demanded \in SUBSET Accounts
    /\ reused \in SUBSET Accounts
    /\ atBoot \in [Workspaces -> 0 .. MaxGen]

\* The scripts and the platform never present a spent refresh token, which would
\* revoke the credential for every workspace that shares it (the owner gate of
\* the watchdog): it takes a CLI that refreshes on its own, or, for the account
\* of an owner box, a box that lost what it rotated to: the answer or the write
\* failed, the container stopped in between, or its seed or a re-sync put the
\* credential it began with back.
NoReuse == reused \subseteq (lost \cap Owners) \cup demanded

\* A good credential replaced by an older one, or by what does not parse.
Older(old, new) == old \in Gens /\ (new \notin Gens \/ new < old)

\* Between boots, re-syncs and refreshes never put an older credential in the
\* place of a newer one, unless a CLI rotated on its own, so that the platform's
\* copy is behind, or the platform has a copy of the credential of an owner box,
\* which it does not rotate; and never garbage in the place of a good one.
Regresses(w) == boot[w] # "off" /\ Older(file[w], file'[w])
Excused(w) ==
    /\ file'[w] \in Gens
    /\ \/ Account(w) \in demanded
       \/ w \in Owners /\ sync[w].pc = "got" /\ file'[w] = sync[w].gen
SyncIsMonotone == [][\A w \in Workspaces : Regresses(w) => Excused(w)]_vars

\* A boot ends, whatever the platform and the OAuth server answer.
BootEnds ==
    \A w \in Workspaces : []<>(boot[w] \in {"up", "off"})

\* Once nobody rotates any more, every workspace that shares the platform's
\* credential has the one of the platform, whatever its CLI wrote.
CatchesUp == \A w \in Keyed \ Owners : <>[](file[w] = secret[Shared])

-----------------------------------------------------------------------------
(* Claims of start.sh that the scripts do not keep.                        *)

\* The app-server starts on the platform's current credential, never on a
\* stale persisted one (start.sh:291-299): at least on the one of when boot
\* began.
StartsStale(w) ==
    /\ boot[w] \in {"syncing", "priming"} /\ boot'[w] = "up"
    /\ file'[w] \notin atBoot[w] .. MaxGen
StartsCurrent == [][\A w \in Workspaces : ~StartsStale(w)]_vars

\* A restart keeps the refreshed auth.json of the volume (start.sh:233-236).
Reverts(w) == boot[w] = "off" /\ Older(file[w], file'[w])
KeepsRefreshedFile == [][\A w \in Workspaces : ~Reverts(w)]_vars

\* The shared refresh token is not burned any more, as every workspace only
\* re-syncs (start.sh:281-290); the CLI's own refresh is still there (370).
SharedTokenLasts == Shared \notin reused
=============================================================================
