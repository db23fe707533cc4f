------------------------ MODULE ConfigProvidersProofs ------------------------
(***************************************************************************)
(* Part 1 is what the precedence of resolve_provider() promises, for every *)
(* registry, model id and set of credentials.  Part 2 is what the          *)
(* registries of a boot hold, part 3 the entry that a name stands for.     *)
(* Part 4 shows that start.sh and setup() pick one provider when they look *)
(* for the same one, and part 5 draws from it, and from the theorem that   *)
(* config.toml follows the pick of setup(), what a workspace gets over any *)
(* number of boots.                                                        *)
(***************************************************************************)
EXTENDS ConfigProviders, ConfigTomlProofs

-----------------------------------------------------------------------------
(* Part 1: precedence.                                                     *)

LEMMA LeastIsLeast ==
    ASSUME NEW S \in SUBSET Nat, S # {}
    PROVE  Least(S) \in S /\ \A j \in S : Least(S) <= j
<1> DEFINE R == StrictSubsetOrdering(Nat)
           T == {1 .. k : k \in S}
<1>1. T \subseteq FiniteSubsetsOf(Nat) /\ T # {}
  <2>1. ASSUME NEW k \in S PROVE IsFiniteSet(1 .. k) /\ 1 .. k \subseteq Nat
    BY FS_Interval
  <2> QED
    BY <2>1 DEF FiniteSubsetsOf
<1>2. PICK t \in T : \A u \in T : ~(<<u, t>> \in R)
  BY <1>1, FS_StrictSubsetOrderingWellFounded, WFMin
<1>3. PICK k \in S : t = 1 .. k
  OBVIOUS
<1>4. ASSUME NEW j \in S PROVE k <= j
  <2>1. ~(<<1 .. j, 1 .. k>> \in R)
    BY <1>2, <1>3
  <2>2. j < k => 1 .. j \subseteq 1 .. k /\ k \in 1 .. k /\ k \notin 1 .. j
    OBVIOUS
  <2>3. {1 .. j, 1 .. k} \subseteq SUBSET Nat
    OBVIOUS
  <2> QED
    BY <2>1, <2>2, <2>3 DEF StrictSubsetOrdering
<1> QED
  BY <1>4 DEF Least

\* A workspace that names no provider gets the best entry: a paid subscription
\* before a paid match of its model, that before an unpaid match, that before
\* any paid entry, and the first in the file among equals.
THEOREM DetectedIsBest ==
    ASSUME NEW reg, DOMAIN reg \in SUBSET Nat, DOMAIN reg # {}, NEW model, NEW creds
    PROVE  \E k \in DOMAIN reg : /\ Detected(reg, model, creds) = reg[k]
                                 /\ Best(reg, k, model, creds)
<1>1. PICK A, B, C, D, E :
          /\ A = OfMode(reg, "sub") \cap Satisfied(reg, creds)
          /\ B = Matching(reg, model) \cap Satisfied(reg, creds)
          /\ C = Matching(reg, model)
          /\ D = Satisfied(reg, creds)
          /\ E = DOMAIN reg
  OBVIOUS
<1> DEFINE S == IF A # {} THEN A ELSE IF B # {} THEN B ELSE IF C # {} THEN C
                ELSE IF D # {} THEN D ELSE E
           choices == <<A, B, C, D, E>>
           live == {i \in DOMAIN choices : choices[i] # {}}
           class(j) == Class(reg[j], model, creds)
<1>2. E \in SUBSET Nat /\ E # {}
  BY <1>1
<1>3. A \subseteq E /\ B \subseteq E /\ C \subseteq E /\ D \subseteq E
  BY <1>1 DEF OfMode, Satisfied, Matching
<1>4. S # {} /\ S \subseteq E
  BY <1>2, <1>3
<1>5. Least(S) \in S /\ \A j \in S : Least(S) <= j
  BY <1>2, <1>4, LeastIsLeast
<1>6. Detected(reg, model, creds) = reg[Least(S)]
  <2>1. Detected(reg, model, creds) = FirstOf(reg, choices)
    BY <1>1 DEF Detected
  <2>2. DOMAIN choices = 1 .. 5 /\ choices[5] = E
    OBVIOUS
  <2>3. live \in SUBSET Nat /\ live # {}
    BY <1>2, <2>2
  <2>4. Least(live) \in live /\ \A i \in live : Least(live) <= i
    BY <2>3, LeastIsLeast
  <2>5. FirstOf(reg, choices) = reg[Least(choices[Least(live)])]
    BY <2>3 DEF FirstOf
  <2>6. choices[Least(live)] = S
    <3>1. /\ choices[1] = A /\ choices[2] = B /\ choices[3] = C
          /\ choices[4] = D /\ choices[5] = E
      OBVIOUS
    <3>2. live \subseteq 1 .. 5 /\ \A i \in 1 .. 5 : i \in live <=> choices[i] # {}
      BY <2>2
    <3> HIDE DEF live, choices
    <3>3. Least(live) \in 1 .. 5
      BY <2>4, <3>2
    <3> DEFINE n == Least(live)
    <3>4. \A i \in {1, 2, 3, 4, 5} : choices[i] # {} => n <= i
      BY <2>4, <3>2
    <3>5. choices[n] # {}
      BY <2>4, <3>2
    <3> HIDE DEF n
    <3>6. n \in {1, 2, 3, 4, 5}
      BY <3>3 DEF n
    <3>7. choices[n] = S
      BY <3>1, <3>4, <3>5, <3>6
    <3> QED
      BY <3>7 DEF n
  <2> QED
    BY <2>1, <2>5, <2>6
\* The classes are the sets, the earlier ones taken away.
<1>7. ASSUME NEW j \in E
      PROVE  class(j) = IF j \in A THEN 1 ELSE IF j \in B THEN 2 ELSE IF j \in C THEN 3
                        ELSE IF j \in D THEN 4 ELSE 5
  BY <1>1 DEF Class, OfMode, Satisfied, Matching
<1>8. ASSUME NEW j \in E
      PROVE  \/ class(Least(S)) < class(j)
             \/ class(Least(S)) = class(j) /\ Least(S) <= j
  <2>1. Least(S) \in E
    BY <1>4, <1>5
  <2> HIDE DEF class
  <2>2. class(Least(S)) = IF Least(S) \in A THEN 1 ELSE IF Least(S) \in B THEN 2
                          ELSE IF Least(S) \in C THEN 3 ELSE IF Least(S) \in D THEN 4 ELSE 5
    BY <1>7, <2>1
  <2> QED
    BY <1>4, <1>5, <1>7, <2>2
<1> QED
  BY <1>1, <1>4, <1>5, <1>6, <1>8 DEF Best

\* An entry added at the end of the file (config.yaml: "Adding a new provider =
\* one entry below") changes no workspace's provider, unless it is better for it
\* than the one the workspace has.
THEOREM AddedEntryIsNeutral ==
    ASSUME NEW Entries, NEW reg \in Seq(Entries), reg # <<>>, NEW e \in Entries,
           NEW model, NEW creds,
           Class(Detected(reg, model, creds), model, creds) <= Class(e, model, creds)
    PROVE  Detected(Append(reg, e), model, creds) = Detected(reg, model, creds)
<1> DEFINE more == Append(reg, e)
           class(x) == Class(x, model, creds)
<1>1. /\ Len(reg) \in Nat /\ DOMAIN reg = 1 .. Len(reg)
      /\ more \in Seq(Entries) /\ more # <<>> /\ DOMAIN more = 1 .. Len(reg) + 1
      /\ more[Len(reg) + 1] = e /\ \A j \in 1 .. Len(reg) : more[j] = reg[j]
      /\ 1 .. Len(reg) # {} /\ 1 .. Len(reg) + 1 # {}
  <2>1. /\ Len(reg) \in Nat /\ DOMAIN reg = 1 .. Len(reg)
        /\ more \in Seq(Entries) /\ more # <<>> /\ DOMAIN more = 1 .. Len(reg) + 1
        /\ more[Len(reg) + 1] = e /\ \A j \in 1 .. Len(reg) : more[j] = reg[j]
    OBVIOUS
  <2>2. Len(reg) # 0
    OBVIOUS
  <2>3. 1 \in 1 .. Len(reg) /\ 1 \in 1 .. Len(reg) + 1
    BY <2>1, <2>2
  <2> QED
    BY <2>1, <2>2, <2>3
<1>2. PICK k \in 1 .. Len(reg) : Detected(reg, model, creds) = reg[k]
                                 /\ Best(reg, k, model, creds)
  <2> DEFINE dom == 1 .. Len(reg)
  <2>1. dom \in SUBSET Nat /\ dom # {} /\ DOMAIN reg = dom
    BY <1>1
  <2> HIDE DEF dom
  <2>2. \E k \in dom : Detected(reg, model, creds) = reg[k] /\ Best(reg, k, model, creds)
    BY <2>1, DetectedIsBest
  <2> QED
    BY <2>2 DEF dom
<1>3. PICK n \in 1 .. Len(reg) + 1 : Detected(more, model, creds) = more[n]
                                     /\ Best(more, n, model, creds)
  <2> DEFINE dom == 1 .. Len(reg) + 1
  <2>1. dom \in SUBSET Nat /\ dom # {} /\ DOMAIN more = dom
    BY <1>1
  <2> HIDE DEF dom, more
  <2>2. \E n \in dom : Detected(more, model, creds) = more[n] /\ Best(more, n, model, creds)
    BY <2>1, DetectedIsBest
  <2> QED
    BY <2>2 DEF dom
<1>4. \A x : class(x) \in 1 .. 5
  BY DEF Class
<1> HIDE DEF more, class
<1>5. \A j \in 1 .. Len(reg) : class(reg[k]) < class(reg[j])
                              \/ (class(reg[k]) = class(reg[j]) /\ k <= j)
  BY <1>1, <1>2 DEF Best, class
<1>6. \A j \in 1 .. Len(reg) + 1 : class(more[n]) < class(more[j])
                                  \/ (class(more[n]) = class(more[j]) /\ n <= j)
  BY <1>1, <1>3 DEF Best, class
<1>7. class(reg[k]) <= class(e)
  BY <1>2 DEF class
<1>8. n = k
  <2>1. n # Len(reg) + 1
    BY <1>1, <1>4, <1>6, <1>7
  <2>2. n \in 1 .. Len(reg)
    BY <1>1, <2>1
  <2>3. more[n] = reg[n] /\ more[k] = reg[k] /\ k \in 1 .. Len(reg) + 1
    BY <1>1, <2>2
  <2>4. class(reg[n]) \in Nat /\ class(reg[k]) \in Nat
    BY <1>4
  <2>5. class(reg[k]) < class(reg[n]) \/ (class(reg[k]) = class(reg[n]) /\ k <= n)
    BY <1>5, <2>2
  <2>6. class(reg[n]) < class(reg[k]) \/ (class(reg[n]) = class(reg[k]) /\ n <= k)
    BY <1>6, <2>3
  <2> QED
    BY <2>2, <2>4, <2>5, <2>6
<1> QED
  BY <1>1, <1>2, <1>3, <1>8 DEF more

-----------------------------------------------------------------------------
(* Part 2: the registries of a boot.                                       *)

ImageNames == {"openai-subscription", "openai-api", "minimax-token-plan", "platform", "vendor"}

\* What the adapter reads, whatever the workspace's own file.
Image == Accepted(ImageFile)

LEMMA BuiltinsShape ==
  /\ DOMAIN Builtins = {1, 2}
  /\ Builtins[1] = Entry("openai-subscription", None, "sub", {"gpt"}, {"CODEX_AUTH_JSON"})
  /\ Builtins[2] = Entry("openai-api", None, "api", {"gpt"}, {"OPENAI_API_KEY"})
  BY DEF Builtins

LEMMA Appended ==
  ASSUME NEW T, NEW s \in Seq(T), NEW e \in T
  PROVE  /\ DOMAIN Append(s, e) = 1 .. Len(s) + 1 /\ Append(s, e)[Len(s) + 1] = e
         /\ \A k \in 1 .. Len(s) : Append(s, e)[k] = s[k]
  OBVIOUS

LEMMA ImageFileShape ==
  /\ DOMAIN ImageFile = IF AppFile = "shipped" THEN {1, 2, 3, 4} ELSE {1, 2, 3, 4, 5}
  /\ ImageFile[1] = Builtins[1] /\ ImageFile[2] = Builtins[2]
  /\ ImageFile[3] = Entry("minimax-token-plan", "minimax", "compat", {"minimax"},
                          {"MINIMAX_API_KEY"})
  /\ ImageFile[4] = Entry("platform", "platform", "compat", {}, {"MOLECULE_LLM_USAGE_TOKEN"})
  /\ AppFile = "extended" => ImageFile[5] = Vendor
  /\ AppFile = "misspelt" => ImageFile[5] = [Vendor EXCEPT !.ok = FALSE]
<1>2. /\ DOMAIN Shipped = {1, 2, 3, 4}
      /\ Shipped[1] = Builtins[1] /\ Shipped[2] = Builtins[2]
      /\ Shipped[3] = Entry("minimax-token-plan", "minimax", "compat", {"minimax"},
                          {"MINIMAX_API_KEY"})
      /\ Shipped[4] = Entry("platform", "platform", "compat", {}, {"MOLECULE_LLM_USAGE_TOKEN"})
  BY DEF Shipped, Builtins
<1>3. ASSUME NEW e
      PROVE  /\ DOMAIN Append(Shipped, e) = {1, 2, 3, 4, 5} /\ Append(Shipped, e)[5] = e
             /\ \A k \in {1, 2, 3, 4} : Append(Shipped, e)[k] = Shipped[k]
  <2>1. PICK a, b, c, d : Shipped = <<a, b, c, d>>
    BY DEF Shipped, Builtins
  <2> DEFINE T == {a, b, c, d, e}
  <2>2. <<a, b, c, d>> \in Seq(T) /\ Len(<<a, b, c, d>>) = 4
    OBVIOUS
  <2>3. Shipped \in Seq(T) /\ e \in T
    BY <2>1, <2>2
  <2>4. Len(Shipped) = 4
    BY <2>1, <2>2
  <2> HIDE DEF T
  <2>5. /\ DOMAIN Append(Shipped, e) = 1 .. Len(Shipped) + 1
        /\ Append(Shipped, e)[Len(Shipped) + 1] = e
        /\ \A k \in 1 .. Len(Shipped) : Append(Shipped, e)[k] = Shipped[k]
    BY <2>3, Appended
  <2>6. 4 + 1 = 5 /\ 1 .. 4 = {1, 2, 3, 4} /\ 1 .. 5 = {1, 2, 3, 4, 5}
    OBVIOUS
  <2> QED BY <2>4, <2>5, <2>6
<1> QED BY <1>2, <1>3, WorldAssumption DEF ImageFile, Extended, Misspelt

LEMMA ImageShape ==
  /\ DOMAIN Image = IF AppFile = "extended" THEN {1, 2, 3, 4, 5} ELSE {1, 2, 3, 4}
  /\ \A k \in DOMAIN Image : Image[k] = ImageFile[k]
  /\ DOMAIN Image \subseteq DOMAIN ImageFile
<1>1. \A k \in DOMAIN ImageFile : ImageFile[k].ok <=> AppFile # "misspelt" \/ k # 5
  BY ImageFileShape, BuiltinsShape, WorldAssumption DEF Entry, Vendor
<1>2. DOMAIN Image = IF AppFile = "extended" THEN {1, 2, 3, 4, 5} ELSE {1, 2, 3, 4}
  BY <1>1, ImageFileShape, WorldAssumption DEF Image, Accepted
<1>3. \A k \in DOMAIN Image : Image[k] = ImageFile[k] /\ k \in DOMAIN ImageFile
  BY DEF Image, Accepted
<1> QED BY <1>2, <1>3

LEMMA CompatHasUrl ==
  ASSUME NEW name, NEW slug, NEW mode, mode = "compat", NEW models, NEW auth
  PROVE  Entry(name, slug, mode, models, auth).url
  BY DEF Entry

LEMMA OverrideOf ==
  ASSUME NEW e, e.name # None
  PROVE  /\ e.mode # "compat" => Override(e) = "builtin"
         /\ e.mode = "compat" /\ e.url /\ e.env \ BuiltinEnv # {} => Override(e) = e.slug
<1>1. e # NoEntry
  BY DEF NoEntry
<1> QED BY <1>1 DEF Override

\* What the entries that the adapter can pick are like.
LEMMA ImageEntries ==
  /\ Image[1].name = "openai-subscription" /\ Image[2].name = "openai-api"
  /\ Image[3].name = "minimax-token-plan" /\ Image[4].name = "platform"
  /\ 5 \in DOMAIN Image => Image[5].name = "vendor" /\ AppFile = "extended"
  /\ Image[1].mode = "sub" /\ Image[2].mode = "api"
  /\ \A k \in DOMAIN Image \ {1, 2} : Image[k].mode = "compat"
  /\ Image[1].env = {"CODEX_AUTH_JSON"} /\ Image[2].env = {"OPENAI_API_KEY"}
  /\ Override(Image[1]) = "builtin" /\ Override(Image[2]) = "builtin"
  /\ \A k \in DOMAIN Image \ {1, 2} : Override(Image[k]) = Image[k].slug
  /\ \A k \in DOMAIN Image \ {1, 2} : Image[k].slug \in {"minimax", "platform", "vendor"}
<1>1. /\ 1 \in DOMAIN Image /\ 2 \in DOMAIN Image /\ 3 \in DOMAIN Image /\ 4 \in DOMAIN Image
      /\ 5 \in DOMAIN Image => AppFile = "extended"
      /\ DOMAIN Image \ {1, 2} \subseteq {3, 4, 5}
  BY ImageShape
<1>2. /\ Image[1] = Entry("openai-subscription", None, "sub", {"gpt"}, {"CODEX_AUTH_JSON"})
      /\ Image[2] = Entry("openai-api", None, "api", {"gpt"}, {"OPENAI_API_KEY"})
      /\ Image[3] = Entry("minimax-token-plan", "minimax", "compat", {"minimax"},
                          {"MINIMAX_API_KEY"})
      /\ Image[4] = Entry("platform", "platform", "compat", {}, {"MOLECULE_LLM_USAGE_TOKEN"})
      /\ 5 \in DOMAIN Image =>
             Image[5] = Entry("vendor", "vendor", "compat", {"gpt"}, {"VENDOR_API_KEY"})
  BY <1>1, ImageShape, ImageFileShape, BuiltinsShape DEF Vendor
<1>3. /\ Image[1].name = "openai-subscription" /\ Image[2].name = "openai-api"
      /\ Image[3].name = "minimax-token-plan" /\ Image[4].name = "platform"
      /\ 5 \in DOMAIN Image => Image[5].name = "vendor"
  BY <1>2 DEF Entry
<1>4. /\ Image[1].mode = "sub" /\ Image[2].mode = "api" /\ Image[3].mode = "compat"
      /\ Image[4].mode = "compat"
      /\ 5 \in DOMAIN Image => Image[5].mode = "compat"
  BY <1>2 DEF Entry
<1>5. /\ Image[3].slug = "minimax" /\ Image[4].slug = "platform"
      /\ 5 \in DOMAIN Image => Image[5].slug = "vendor"
      /\ Image[1].env = {"CODEX_AUTH_JSON"} /\ Image[2].env = {"OPENAI_API_KEY"}
      /\ Image[3].env = {"MINIMAX_API_KEY"} /\ Image[4].env = {"MOLECULE_LLM_USAGE_TOKEN"}
      /\ 5 \in DOMAIN Image => Image[5].env = {"VENDOR_API_KEY"}
  BY <1>2 DEF Entry
<1>6. Image[3].url /\ Image[4].url /\ (5 \in DOMAIN Image => Image[5].url)
  BY <1>2, CompatHasUrl
<1>7. Override(Image[1]) = "builtin" /\ Override(Image[2]) = "builtin"
  BY <1>3, <1>4, OverrideOf DEF None
<1>8. ASSUME NEW k \in DOMAIN Image \ {1, 2}
      PROVE  Override(Image[k]) = Image[k].slug
  <2>1. Image[k].mode = "compat" /\ Image[k].url /\ Image[k].name # None
    BY <1>1, <1>3, <1>4, <1>6 DEF None
  <2>2. Image[k].env \ BuiltinEnv # {}
    BY <1>1, <1>5 DEF BuiltinEnv
  <2> QED BY <2>1, <2>2, OverrideOf
<1> QED BY <1>1, <1>3, <1>4, <1>5, <1>7, <1>8

\* No two entries share a name.
LEMMA NamesDiffer ==
  ASSUME NEW j \in DOMAIN Image, NEW k \in DOMAIN Image, Image[j].name = Image[k].name
  PROVE  j = k
<1>1. j \in {1, 2, 3, 4, 5} /\ k \in {1, 2, 3, 4, 5}
  BY ImageShape
<1> QED BY <1>1, ImageEntries

-----------------------------------------------------------------------------
(* Part 3: the entry that a name stands for.                               *)

LEMMA FirstOfThree ==
  ASSUME NEW reg, NEW A, NEW B, NEW C
  PROVE  FirstOf(reg, <<A, B, C>>) =
             IF A # {} THEN reg[Least(A)] ELSE IF B # {} THEN reg[Least(B)]
             ELSE IF C # {} THEN reg[Least(C)] ELSE NoEntry
<1> DEFINE choices == <<A, B, C>>
           live == {i \in DOMAIN choices : choices[i] # {}}
           n == Least(live)
<1>1. DOMAIN choices = {1, 2, 3} /\ choices[1] = A /\ choices[2] = B /\ choices[3] = C
  OBVIOUS
<1>2. /\ live \subseteq {1, 2, 3} /\ live \in SUBSET Nat
      /\ 1 \in live <=> A # {}
      /\ 2 \in live <=> B # {}
      /\ 3 \in live <=> C # {}
  BY <1>1
<1>3. FirstOf(reg, choices) = IF live = {} THEN NoEntry ELSE reg[Least(choices[n])]
  BY DEF FirstOf
<1> HIDE DEF live, choices
<1>4. CASE live = {}
  BY <1>2, <1>3, <1>4 DEF choices
<1>5. CASE live # {}
  <2>1. n \in live /\ \A i \in live : n <= i
    BY <1>2, <1>5, LeastIsLeast
  <2> HIDE DEF n
  <2>2. n \in {1, 2, 3}
    BY <1>2, <2>1
  <2>3. choices[n] = IF A # {} THEN A ELSE IF B # {} THEN B ELSE C
    BY <1>1, <1>2, <2>1, <2>2
  <2> QED BY <1>2, <1>3, <1>5, <2>3 DEF choices
<1> QED BY <1>4, <1>5

\* The name of exactly one entry stands for it.
LEMMA NameIsEntry ==
  ASSUME NEW reg, NEW k \in Nat, NEW name, Named(reg, name) = {k}, NEW creds
  PROVE  ByName(reg, name, creds) = reg[k]
<1>1. Least({k}) = k
  BY LeastIsLeast
<1>2. PICK B, C : ByName(reg, name, creds) = FirstOf(reg, <<Named(reg, name), B, C>>)
  BY DEF ByName
<1>3. ByName(reg, name, creds) = reg[Least(Named(reg, name))]
  BY <1>2, FirstOfThree
<1> QED BY <1>1, <1>3

\* The canonical openai stands for an entry built into the CLI.
LEMMA OpenaiIsBuiltin ==
  ASSUME NEW reg, DOMAIN reg \in SUBSET Nat, Named(reg, "openai") = {},
         OfMode(reg, "api") # {}, NEW creds
  PROVE  \E k \in DOMAIN reg : ByName(reg, "openai", creds) = reg[k] /\ reg[k].mode # "compat"
<1>1. PICK A, B : A = OfMode(reg, "sub") \cap Satisfied(reg, creds) /\ B = OfMode(reg, "api")
  OBVIOUS
<1>2. /\ A \subseteq DOMAIN reg /\ \A k \in A : reg[k].mode = "sub"
      /\ B \subseteq DOMAIN reg /\ \A k \in B : reg[k].mode = "api"
  BY <1>1 DEF OfMode
<1>3. ByName(reg, "openai", creds) = IF A # {} THEN reg[Least(A)] ELSE reg[Least(B)]
  <2>1. ByName(reg, "openai", creds) = FirstOf(reg, <<Named(reg, "openai"), A, B>>)
    BY <1>1 DEF ByName
  <2> QED BY <1>1, <2>1, FirstOfThree
<1>4. /\ A # {} => Least(A) \in A
      /\ Least(B) \in B
  BY <1>1, <1>2, LeastIsLeast
<1> QED BY <1>2, <1>3, <1>4
-----------------------------------------------------------------------------
(* Part 4: the two resolutions of a boot.                                  *)

\* A world in which start.sh and setup() look for the same provider: the
\* workspace has no registry of its own, one model id, no provider name but
\* MODEL_PROVIDER (or the same one resolved), which names an entry or openai,
\* and a credential that the preflight of setup() knows.
Agreeing(w) ==
    /\ w.files \in {"none", "same"}
    /\ w.envModel = w.model /\ ~IsProviderName(SetupRegistry(w), w.model)
    /\ w.provider = None /\ w.resolved \in {None, w.named}
    /\ \/ w.named \in {None, "openai"}
       \/ Named(SetupRegistry(w), w.named) # {}
    /\ {"CODEX_AUTH_JSON", "OPENAI_API_KEY", "MINIMAX_API_KEY"} \cap w.creds # {}

LEMMA Registries ==
  ASSUME NEW w
  PROVE  /\ SetupRegistry(w) = Image
         /\ w.files = "none" => StartRegistry(w) = Builtins
         /\ w.files = "same" => StartRegistry(w) = Image
<1>1. ImageFile # <<>> /\ DOMAIN Image # {}
  <2>1. 1 \in DOMAIN ImageFile /\ DOMAIN Image # {}
    BY ImageFileShape, ImageShape
  <2>2. 1 \notin DOMAIN <<>>
    OBVIOUS
  <2> QED BY <2>1, <2>2
<1>2. ASSUME NEW files, DOMAIN files \in SUBSET Nat, 1 \in DOMAIN files,
             0 \notin DOMAIN files, files[1] = ImageFile
      PROVE  LoadProviders(files) = Image
  <2> DEFINE lists == {i \in DOMAIN files : files[i] # <<>>}
  <2>1. lists \in SUBSET Nat /\ 1 \in lists /\ 0 \notin lists
    BY <1>1, <1>2
  <2>2. Least(lists) = 1
    <3> HIDE DEF lists
    <3>1. PICK n \in Nat : n = Least(lists) /\ n \in lists /\ n <= 1
      BY <2>1, LeastIsLeast
    <3>2. n # 0
      BY <2>1, <3>1
    <3> QED BY <3>1, <3>2
  <2> QED BY <2>1, <2>2, <1>1, <1>2 DEF LoadProviders, Image
<1>3. SetupRegistry(w) = Image
  <2>1. PICK g : g = WorkspaceFile(w)
    OBVIOUS
  <2>2. DOMAIN <<ImageFile, g>> = {1, 2} /\ <<ImageFile, g>>[1] = ImageFile
    OBVIOUS
  <2> QED BY <2>1, <2>2, <1>2 DEF SetupRegistry
<1>4. w.files = "same" => StartRegistry(w) = Image
  <2>1. DOMAIN <<ImageFile>> = {1} /\ <<ImageFile>>[1] = ImageFile
    OBVIOUS
  <2>2. w.files = "same" => WorkspaceFile(w) = ImageFile
    BY DEF WorkspaceFile
  <2> QED BY <2>1, <2>2, <1>2 DEF StartRegistry
<1>5. w.files = "none" => StartRegistry(w) = Builtins
  <2>1. LoadProviders(<< <<>> >>) = Builtins
    <3>1. {i \in DOMAIN << <<>> >> : << <<>> >>[i] # <<>>} = {}
      OBVIOUS
    <3> QED BY <3>1 DEF LoadProviders
  <2>2. w.files = "none" => WorkspaceFile(w) = <<>>
    BY DEF WorkspaceFile
  <2> QED BY <2>1, <2>2 DEF StartRegistry
<1> QED BY <1>3, <1>4, <1>5

\* setup() gets an entry of the image's file: the one that is named, or the best.
LEMMA SetupResolves ==
  ASSUME NEW w, Agreeing(w), NEW auth \in BOOLEAN
  PROVE  \E k \in DOMAIN Image :
             /\ SetupEntry(w) = Image[k]
             /\ SetupPick(w, auth \/ HasBlob(w)) = Override(Image[k])
             /\ IF Named(Image, w.named) # {} /\ w.named # None
                THEN Named(Image, w.named) = {k}
                ELSE Best(Image, k, w.model, w.creds)
<1>1. SetupRegistry(w) = Image
  BY Registries
<1>2. DOMAIN Image \in SUBSET Nat /\ DOMAIN Image # {}
  BY ImageShape
<1>3. SetupPick(w, auth \/ HasBlob(w)) = Override(SetupEntry(w))
  <2>1. Preflight(w, auth \/ HasBlob(w))
    BY DEF Agreeing, Preflight, HasBlob
  <2> QED BY <2>1 DEF Agreeing, SetupPick
<1>4. CASE Named(Image, w.named) # {} /\ w.named # None
  <2>1. PICK k \in DOMAIN Image : Named(Image, w.named) = {k}
    BY <1>4, NamesDiffer DEF Named
  <2>2. ExplicitName(w) = w.named
    BY <1>1, <1>4 DEF ExplicitName, Agreeing
  <2>3. SetupEntry(w) = ByName(Image, w.named, w.creds)
    BY <1>1, <1>4, <2>2 DEF SetupEntry, Resolve
  <2>4. SetupEntry(w) = Image[k]
    BY <1>2, <2>1, <2>3, NameIsEntry
  <2> QED BY <1>3, <1>4, <2>1, <2>4
<1>5. CASE ~(Named(Image, w.named) # {} /\ w.named # None)
  <2>1. ExplicitName(w) = None
    BY <1>1, <1>5 DEF ExplicitName, Agreeing
  <2>2. SetupEntry(w) = Detected(Image, w.model, w.creds)
    BY <1>1, <2>1 DEF SetupEntry, Resolve
  <2> QED BY <1>2, <1>3, <1>5, <2>2, DetectedIsBest
<1> QED BY <1>4, <1>5

LEMMA OverrideIsSlug ==
  ASSUME NEW k \in DOMAIN Image
  PROVE  /\ Override(Image[k]) \in {"builtin", "minimax", "platform", "vendor"}
         /\ Override(Image[k]) = "builtin" <=> k \in {1, 2}
         /\ Override(Image[k]) = "builtin" <=> Image[k].mode # "compat"
         /\ Override(Image[k]) # "builtin" => Image[k].slug = Override(Image[k])
<1>1. CASE k \in {1, 2}
  BY <1>1, ImageEntries
<1>2. CASE k \notin {1, 2}
  BY <1>2, ImageEntries
<1> QED BY <1>1, <1>2

\* start.sh picks a built-in provider whenever setup() does.
LEMMA StartResolves ==
  ASSUME NEW w, Agreeing(w), Override(SetupEntry(w)) = "builtin"
  PROVE  StartPick(w) = "builtin"
<1> DEFINE reg == StartRegistry(w)
           entry == Resolve(reg, w.envModel, w.named, w.creds)
<1>1. /\ reg = Builtins \/ reg = Image
      /\ DOMAIN reg \in SUBSET Nat /\ {1, 2} \subseteq DOMAIN reg
      /\ reg[1] = Image[1] /\ reg[2] = Image[2]
      /\ DOMAIN Builtins = {1, 2} /\ 1 \in DOMAIN Image /\ 2 \in DOMAIN Image
  BY Registries, BuiltinsShape, ImageShape, ImageFileShape DEF Agreeing
<1>2. PICK k \in DOMAIN Image :
          /\ SetupEntry(w) = Image[k]
          /\ IF Named(Image, w.named) # {} /\ w.named # None
             THEN Named(Image, w.named) = {k} ELSE TRUE
  BY SetupResolves
<1>3. k \in {1, 2}
  BY <1>2, OverrideIsSlug
<1> HIDE DEF reg
<1>4. \E j \in DOMAIN reg : entry = reg[j] /\ (reg = Image => Override(reg[j]) = "builtin")
  <2>1. CASE w.named = None
    <3>1. entry = Detected(reg, w.model, w.creds)
      BY <2>1 DEF Resolve, Agreeing
    <3>2. \E j \in DOMAIN reg : entry = reg[j]
      BY <1>1, <3>1, DetectedIsBest
    <3>3. reg = Image => entry = SetupEntry(w)
      <4>1. ExplicitName(w) = None
        BY <2>1 DEF ExplicitName, Agreeing
      <4> QED BY <3>1, <4>1, Registries DEF SetupEntry, Resolve
    <3> QED BY <3>2, <3>3
  <2>2. CASE w.named # None /\ Named(Image, w.named) # {}
    <3>1. Named(Image, w.named) = {k} /\ k \in DOMAIN reg /\ reg[k] = Image[k]
      BY <1>1, <1>2, <1>3, <2>2
    <3>2. Named(reg, w.named) = {k}
      BY <1>1, <1>3, <3>1 DEF Named
    <3>3. entry = reg[k]
      BY <1>1, <2>2, <3>1, <3>2, NameIsEntry DEF Resolve
    <3> QED BY <1>2, <3>1, <3>3
  <2>3. CASE w.named = "openai" /\ Named(Image, w.named) = {}
    <3>1. Named(reg, "openai") = {}
      BY <1>1, <2>3 DEF Named
    <3>2. OfMode(reg, "api") # {}
      BY <1>1, ImageEntries DEF OfMode
    <3>3. entry = ByName(reg, "openai", w.creds)
      BY <2>3 DEF Resolve, None
    <3>4. PICK j \in DOMAIN reg : entry = reg[j] /\ reg[j].mode # "compat"
      BY <1>1, <3>1, <3>2, <3>3, OpenaiIsBuiltin
    <3> QED BY <3>4, OverrideIsSlug
  <2> QED BY <2>1, <2>2, <2>3, Registries DEF Agreeing
<1>5. Override(entry) = "builtin"
  BY <1>1, <1>4, ImageEntries
<1> QED BY <1>5 DEF StartPick, reg

\* What the programs make of such a world, they make of one provider.
LEMMA ViewCoheres ==
  ASSUME NEW w, Agreeing(w), NEW auth \in BOOLEAN
  PROVE  /\ Picked(View(w, auth)) = Override(SetupEntry(w))
         /\ Coherent(View(w, auth))
<1>1. PICK k \in DOMAIN Image : /\ SetupEntry(w) = Image[k]
                                /\ SetupPick(w, auth \/ HasBlob(w)) = Override(Image[k])
  BY SetupResolves
<1>2. View(w, auth).setup = Override(SetupEntry(w))
  BY <1>1 DEF View
<1>3. Override(SetupEntry(w)) \in {"builtin", "minimax", "platform", "vendor"}
  BY <1>1, OverrideIsSlug
<1>4. Picked(View(w, auth)) = Override(SetupEntry(w))
  BY <1>2, <1>3 DEF Picked
<1>5. StartPick(w) = "builtin" => /\ View(w, auth).start = "builtin"
                                  /\ View(w, auth).renderer = "python"
  BY DEF View
<1>6. View(w, auth).setup # "skips"
  BY <1>2, <1>3
<1> QED BY <1>3, <1>4, <1>5, <1>6, StartResolves DEF Coherent

\* The entries of the file under a name are the ones that setup() knows, unless the
\* name is the one of the entry that is dropped.
LEMMA NamesInFile ==
  ASSUME NEW w, Agreeing(w), Named(ImageFile, w.named) # {}
  PROVE  /\ w.named # None /\ w.named # "openai"
         /\ Named(ImageFile, w.named) = Named(Image, w.named)
<1>1. /\ DOMAIN ImageFile \subseteq {1, 2, 3, 4, 5}
      /\ {1, 2, 3, 4} \subseteq DOMAIN Image /\ DOMAIN Image \subseteq DOMAIN ImageFile
      /\ \A k \in DOMAIN Image : ImageFile[k] = Image[k]
      /\ 5 \in DOMAIN ImageFile => ImageFile[5].name = "vendor"
  <2>1. [Vendor EXCEPT !.ok = FALSE].name = "vendor" /\ Vendor.name = "vendor"
    BY DEF Vendor, Entry
  <2>2. 5 \in DOMAIN ImageFile => ImageFile[5].name = "vendor"
    <3>1. PICK bad : bad = [Vendor EXCEPT !.ok = FALSE]
      OBVIOUS
    <3>2. AppFile # "shipped" => ImageFile[5] \in {Vendor, bad}
      BY <3>1, ImageFileShape, WorldAssumption
    <3>3. AppFile = "shipped" => 5 \notin DOMAIN ImageFile
      BY ImageFileShape
    <3> QED BY <2>1, <3>1, <3>2, <3>3
  <2> QED BY <2>2, ImageShape, ImageFileShape
<1>2. /\ ImageFile[1].name = "openai-subscription" /\ ImageFile[2].name = "openai-api"
      /\ ImageFile[3].name = "minimax-token-plan" /\ ImageFile[4].name = "platform"
  BY <1>1, ImageEntries
<1>3. w.named # None /\ w.named # "openai"
  BY <1>1, <1>2 DEF Named, None
<1>4. Named(Image, w.named) # {}
  BY <1>3, Registries DEF Agreeing
<1>5. Named(ImageFile, w.named) = Named(Image, w.named)
  BY <1>1, <1>2, <1>4 DEF Named
<1> QED BY <1>3, <1>5

-----------------------------------------------------------------------------
(* Part 5: what a workspace gets.                                          *)

\* What a boot found in its environment it made of its world.
WorldInv ==
    /\ authJson \in BOOLEAN
    /\ \E auth \in BOOLEAN : env = View(world, auth)

LEMMA WorldStep ==
  ASSUME WorldInv, [WorldNext]_allVars
  PROVE  WorldInv'
<1>1. CASE BootIn
  BY <1>1 DEF BootIn, WorldInv
<1>2. CASE MaterialiseAuth
  <2>1. authJson' \in BOOLEAN
    BY <1>2 DEF MaterialiseAuth, WorldInv
  <2>2. env' = env /\ world' = world
    BY <1>2 DEF MaterialiseAuth, AuthStoreKey, Step
  <2> QED BY <2>1, <2>2 DEF WorldInv
<1>3. CASE BootStep /\ UNCHANGED <<world, authJson>>
  <2>1. env' = env
    BY <1>3 DEF BootStep, RenderProvider, StripMolecule, AppendMolecule, StripSandbox,
                PrependSandbox, LoginMethodKey, Setup, SetupRaises, SetupSkips,
                RegisterMcpServer, Ready, Restart, Step
  <2> QED BY <1>3, <2>1 DEF WorldInv
<1>4. CASE UNCHANGED allVars
  BY <1>4 DEF allVars, vars, WorldInv
<1> QED BY <1>1, <1>2, <1>3, <1>4 DEF WorldNext

LEMMA WorldsAreBoots == WorldSpec => Spec /\ []WorldInv
<1>1. WorldInit => Init /\ WorldInv
  BY DEF WorldInit, WorldInv
<1>2. [WorldNext]_allVars => [Next]_vars
  BY DEF WorldNext, BootIn, MaterialiseAuth, Next, allVars
<1>3. WorldInv /\ [WorldNext]_allVars => WorldInv'
  BY WorldStep
<1> QED BY <1>1, <1>2, <1>3, PTL DEF WorldSpec, Spec

\* While every boot is complete and its two programs look for the same provider,
\* the override in config.toml is the one of the provider that setup() picked,
\* whatever world the boot before it ran in.
THEOREM SwitchesAreWhole ==
  ASSUME ~Crashes
  PROVE  WorldSpec /\ []Agreeing(world) => []OverrideMatches
<1>1. WorldInv /\ Agreeing(world) => Coherent(env)
  BY ViewCoheres DEF WorldInv
<1> QED BY <1>1, WorldsAreBoots, OverrideFollowsPick, PTL

\* The entry behind the override of a running workspace.
LEMMA FileFollowsEntry ==
  ASSUME WorldInv, Agreeing(world), OverrideMatches, Running
  PROVE  \E k \in DOMAIN Image :
             /\ FileSays = Override(Image[k])
             /\ IF Named(Image, world.named) # {} /\ world.named # None
                THEN Named(Image, world.named) = {k}
                ELSE Best(Image, k, world.model, world.creds)
<1>1. PICK auth \in BOOLEAN : env = View(world, auth)
  BY DEF WorldInv
<1>2. PICK k \in DOMAIN Image :
          /\ SetupEntry(world) = Image[k]
          /\ IF Named(Image, world.named) # {} /\ world.named # None
             THEN Named(Image, world.named) = {k}
             ELSE Best(Image, k, world.model, world.creds)
  BY SetupResolves
<1>3. Picked(env) = Override(Image[k])
  BY <1>1, <1>2, ViewCoheres
<1> DEFINE slugs == {toml[i].of : i \in {j \in DOMAIN toml : toml[j].kind = "modelProvider"}}
<1>4. slugs = {Picked(env)} \ {"builtin"}
  BY DEF OverrideMatches
<1>5. FileSays = IF slugs = {} THEN "builtin" ELSE CHOOSE s \in slugs : TRUE
  BY DEF FileSays
<1> HIDE DEF slugs
<1>6. FileSays = Picked(env)
  BY <1>4, <1>5
<1> QED BY <1>2, <1>3, <1>6

\* The two subscription classes and the paid matches.
LEMMA Classes ==
  ASSUME NEW e, NEW model, NEW creds
  PROVE  /\ Class(e, model, creds) \in 1 .. 5
         /\ Class(e, model, creds) = 1 <=> e.mode = "sub" /\ e.env \cap creds # {}
         /\ Class(e, model, creds) <= 2 => e.env \cap creds # {}
         /\ model # None /\ model \in e.models /\ e.env \cap creds # {} =>
                Class(e, model, creds) <= 2
  BY DEF Class

\* A workspace with a subscription that names no provider keeps running on it.
THEOREM SubscriptionWins ==
  ASSUME ~Crashes
  PROVE  WorldSpec /\ []Agreeing(world) => []SubscriptionKept
<1>1. ASSUME WorldInv, Agreeing(world), OverrideMatches PROVE SubscriptionKept
  <2> SUFFICES ASSUME Running, NoNameGiven, HasBlob(world) PROVE FileSays = "builtin"
    BY DEF SubscriptionKept
  <2>1. PICK k \in DOMAIN Image : /\ FileSays = Override(Image[k])
                                  /\ Best(Image, k, world.model, world.creds)
    BY <1>1, FileFollowsEntry DEF NoNameGiven
  <2>2. 1 \in DOMAIN Image /\ Class(Image[1], world.model, world.creds) = 1
    BY ImageShape, ImageEntries, Classes DEF HasBlob
  <2>3. Class(Image[k], world.model, world.creds) = 1
    BY <2>1, <2>2, Classes DEF Best
  <2>4. Image[k].mode = "sub"
    BY <2>3, Classes
  <2> QED BY <2>1, <2>4, OverrideIsSlug
<1> QED BY <1>1, WorldsAreBoots, SwitchesAreWhole, PTL

\* A workspace that names no provider and has a credential for an entry that
\* serves its model runs on a provider that it has a credential for.
THEOREM RouteIsPaid ==
  ASSUME ~Crashes
  PROVE  WorldSpec /\ []Agreeing(world) => []RoutesToCredential
<1>1. ASSUME WorldInv, Agreeing(world), OverrideMatches PROVE RoutesToCredential
  <2>1. SetupRegistry(world) = Image
    BY Registries
  <2> SUFFICES ASSUME Running, NoNameGiven,
                      Matching(Image, world.model) \cap Satisfied(Image, world.creds) # {}
               PROVE  Usable(FileSays)
    BY <2>1 DEF RoutesToCredential
  <2>2. PICK k \in DOMAIN Image : /\ FileSays = Override(Image[k])
                                  /\ Best(Image, k, world.model, world.creds)
    BY <1>1, FileFollowsEntry DEF NoNameGiven
  <2>3. PICK j \in DOMAIN Image : Class(Image[j], world.model, world.creds) <= 2
    BY Classes DEF Matching, Satisfied
  <2>4. Class(Image[k], world.model, world.creds) <= 2
    BY <2>2, <2>3, Classes DEF Best
  <2>5. Image[k].env \cap world.creds # {}
    BY <2>4, Classes
  <2>6. CASE k \in {1, 2}
    <3>1. Image[k].env \subseteq BuiltinEnv
      BY <2>6, ImageEntries DEF BuiltinEnv
    <3> QED BY <2>2, <2>5, <2>6, <3>1, OverrideIsSlug DEF Usable
  <2>7. CASE k \notin {1, 2}
    <3>1. FileSays # "builtin" /\ Image[k].slug = FileSays
      BY <2>2, <2>7, OverrideIsSlug
    <3> QED BY <2>1, <2>5, <3>1 DEF Usable
  <2> QED BY <2>6, <2>7
<1> QED BY <1>1, WorldsAreBoots, SwitchesAreWhole, PTL

\* What the projection gate lets the registry claim of an entry of config.yaml, a
\* workspace that names the entry and a claimed model gets.
THEOREM ClaimsAreServed ==
  ASSUME ~Crashes
  PROVE  WorldSpec /\ []Agreeing(world) => []ClaimedIsServed
<1>1. ASSUME WorldInv, Agreeing(world), OverrideMatches PROVE ClaimedIsServed
  <2> SUFFICES ASSUME Running, Claimed, Named(ImageFile, world.named) # {}
               PROVE  \E k \in Named(ImageFile, world.named) : Serves(k)
    BY DEF ClaimedIsServed
  <2>1. /\ world.named # None /\ world.named # "openai"
        /\ Named(ImageFile, world.named) = Named(Image, world.named)
    BY <1>1, NamesInFile DEF Agreeing
  <2>2. PICK k \in DOMAIN Image : /\ FileSays = Override(Image[k])
                                  /\ Named(Image, world.named) = {k}
    BY <1>1, <2>1, FileFollowsEntry
  <2>3. k \in DOMAIN ImageFile /\ Image[k] = ImageFile[k] /\ Image[k].name = world.named
    BY <2>2, ImageShape DEF Named
  <2>4. Servable(ImageFile, world.named, world.model)
    <3> DEFINE manifest == [codex |-> {<<world.named, world.model>>}]
               pairs == ProjectRuntime(manifest, "codex").pairs
    <3>1. "codex" \in DOMAIN manifest /\ manifest["codex"] = {<<world.named, world.model>>}
      OBVIOUS
    <3> HIDE DEF manifest
    <3>2. ProjectRuntime(manifest, "codex").listed /\ pairs = {<<world.named, world.model>>}
      BY <3>1 DEF ProjectRuntime
    <3> HIDE DEF pairs
    <3>3. \A pair \in pairs : Servable(ImageFile, pair[1], pair[2])
      BY <3>2 DEF Claimed, CheckSubset, manifest, pairs
    <3> QED BY <3>2, <3>3
  <2>5. world.named = "platform" \/ k \in Matching(ImageFile, world.model)
    BY <2>1, <2>2, <2>4 DEF Servable
  <2>6. Serves(k)
    BY <2>2, <2>3, <2>5 DEF Serves, Matching
  <2> QED BY <2>1, <2>2, <2>6
<1> QED BY <1>1, WorldsAreBoots, SwitchesAreWhole, PTL
=============================================================================
