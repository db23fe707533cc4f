-------------------------- MODULE ConfigTomlProofs --------------------------
(***************************************************************************)
(* Theorems about ConfigToml for any number of boots, any providers, any   *)
(* plugins and, where nothing else is said, boots cut short between any    *)
(* two rewrites of the file.                                               *)
(*                                                                         *)
(* Parts 1 and 2 show what the operators on files do: the programs take    *)
(* lines away, which leaves the others in their order, or add lines at an  *)
(* end.  Part 3 is type correctness and that a plugin's begin marker       *)
(* starts a whole block; part 4 what the CLI needs to find in the file;    *)
(* part 5 that no table or key is defined twice; part 6 that what a person *)
(* wrote survives; part 7 that no stale override does; part 8 that a       *)
(* reboot reproduces the text.  Each of parts 4 to 8 states the condition  *)
(* on the boots under which the programs keep it.                          *)
(***************************************************************************)
EXTENDS ConfigToml, FiniteSetTheorems, TLAPS

-----------------------------------------------------------------------------
(* Part 1: lines taken out of a file.                                      *)

Kinds == Headers \cup Keys \cup
    {"providerComment", "shellComment", "providerKeys", "sandboxComment",
     "moleculeComment", "moleculeKeys", "moleculeEnv", "begin", "pluginKeys", "end",
     "networkAccess", "handEntry", "blank"}

TomlLine == [kind : Kinds, of : {"-"} \cup StartPicks \cup SetupPicks \cup Plugins]
Files    == Seq(TomlLine)

\* e lists the positions in S in their order.
Lists(e, n, S) ==
    /\ e \in [1 .. n -> S]
    /\ \A k, l \in 1 .. n : k < l => e[k] < e[l]
    /\ \A i \in S : \E k \in 1 .. n : e[k] = i

\* g is what is left of f at the positions in S.
Thinned(f, S, g) ==
    \E e : /\ Lists(e, Len(g), S)
           /\ \A k \in 1 .. Len(g) : g[k] = f[e[k]]

Rank(S, i) == Cardinality({j \in S : j <= i})
Places(S)  == [k \in 1 .. Cardinality(S) |-> CHOOSE i \in S : Rank(S, i) = k]

LEMMA RankIsMonotone ==
  ASSUME NEW n \in Nat, NEW S \in SUBSET (1 .. n)
  PROVE  /\ IsFiniteSet(S) /\ Cardinality(S) \in Nat
         /\ \A i \in S : Rank(S, i) \in 1 .. Cardinality(S)
         /\ \A i, j \in S : i < j => Rank(S, i) < Rank(S, j)
<1>0. \A i \in S : i \in 1 .. n
  OBVIOUS
<1>1. IsFiniteSet(S) /\ Cardinality(S) \in Nat
  <2>1. IsFiniteSet(1 .. n)
    BY FS_Interval
  <2>2. IsFiniteSet(S)
    BY <2>1, FS_Subset
  <2> QED BY <2>2, FS_CardinalityType
<1>2. ASSUME NEW i \in S
      PROVE  /\ IsFiniteSet({j \in S : j <= i})
             /\ Rank(S, i) \in 1 .. Cardinality(S)
  <2>1. /\ IsFiniteSet({j \in S : j <= i})
        /\ Cardinality({j \in S : j <= i}) <= Cardinality(S)
    BY <1>1, FS_Subset
  <2>2. /\ Cardinality({j \in S : j <= i}) \in Nat
        /\ Cardinality({j \in S : j <= i}) # 0
    BY <2>1, FS_CardinalityType, FS_EmptySet
  <2> QED BY <1>1, <2>1, <2>2 DEF Rank
<1>3. ASSUME NEW i \in S, NEW j \in S, i < j
      PROVE  Rank(S, i) < Rank(S, j)
  <2> DEFINE A == {k \in S : k <= i}
             B == {k \in S : k <= j}
  <2>0. i \in Int /\ j \in Int /\ \A k \in S : k \in Int
    BY <1>0
  <2>1. A \in SUBSET B /\ j \in B /\ j \notin A
    <3>1. ASSUME NEW k \in A PROVE k \in B
      BY <2>0, <1>3
    <3>2. j \in B /\ j \notin A
      BY <2>0, <1>3
    <3> QED BY <3>1, <3>2
  <2>2. IsFiniteSet(B) /\ Cardinality(A) <= Cardinality(B) /\ Cardinality(A) # Cardinality(B)
    BY <2>1, <1>2, FS_Subset
  <2>3. Rank(S, i) = Cardinality(A) /\ Rank(S, j) = Cardinality(B)
    BY DEF Rank
  <2>4. Rank(S, i) \in 1 .. Cardinality(S) /\ Rank(S, j) \in 1 .. Cardinality(S)
    BY <1>2
  <2> QED BY <1>1, <2>2, <2>3, <2>4
<1> QED BY <1>1, <1>2, <1>3

LEMMA PlacesListed ==
  ASSUME NEW n \in Nat, NEW S \in SUBSET (1 .. n)
  PROVE  Lists(Places(S), Cardinality(S), S)
<1> DEFINE m == Cardinality(S)
           r == [i \in S |-> Rank(S, i)]
<1>0. \A i \in S : i \in 1 .. n
  OBVIOUS
<1>1. /\ IsFiniteSet(S) /\ m \in Nat
      /\ \A i \in S : Rank(S, i) \in 1 .. m
      /\ \A i, j \in S : i < j => Rank(S, i) < Rank(S, j)
  BY RankIsMonotone
<1>2. \A i, j \in S : Rank(S, i) = Rank(S, j) => i = j
  <2> SUFFICES ASSUME NEW i \in S, NEW j \in S, i < j PROVE Rank(S, i) # Rank(S, j)
    OBVIOUS
  <2> QED BY <1>1
<1>3. r \in Surjection(S, 1 .. m)
  <2>1. r \in Injection(S, 1 .. m)
    BY <1>1, <1>2 DEF Injection, IsInjective
  <2>2. IsFiniteSet(1 .. m) /\ Cardinality(1 .. m) = m
    BY <1>1, FS_Interval
  <2> QED BY <2>1, <2>2, FS_Injection
<1>4. \A k \in 1 .. m : \E i \in S : Rank(S, i) = k
  BY <1>3 DEF Surjection
<1>5. \A k \in 1 .. m : Places(S)[k] \in S /\ Rank(S, Places(S)[k]) = k
  BY <1>4 DEF Places
<1>6. Places(S) \in [1 .. m -> S]
  BY <1>5 DEF Places
<1>7. \A k, l \in 1 .. m : k < l => Places(S)[k] < Places(S)[l]
  <2> SUFFICES ASSUME NEW k \in 1 .. m, NEW l \in 1 .. m, k < l,
                      ~(Places(S)[k] < Places(S)[l])
               PROVE  FALSE
    OBVIOUS
  <2>1. /\ Places(S)[k] \in S /\ Rank(S, Places(S)[k]) = k
        /\ Places(S)[l] \in S /\ Rank(S, Places(S)[l]) = l
    BY <1>5
  <2>2. k \in Int /\ l \in Int
    BY <1>1
  <2>3. Places(S)[l] < Places(S)[k] \/ Places(S)[l] = Places(S)[k]
    <3>1. Places(S)[k] \in 1 .. n /\ Places(S)[l] \in 1 .. n
      BY <1>0, <2>1
    <3> QED BY <3>1
  <2>4. Places(S)[l] < Places(S)[k] => l < k
    BY <1>1, <2>1
  <2>5. Places(S)[l] = Places(S)[k] => l = k
    BY <2>1
  <2> QED BY <2>2, <2>3, <2>4, <2>5
<1>8. \A i \in S : \E k \in 1 .. m : Places(S)[k] = i
  BY <1>1, <1>2, <1>5
<1> QED BY <1>6, <1>7, <1>8 DEF Lists

\* The lines of f at positions S are these lines, in the order they have in f.
LEMMA LinesThin ==
  ASSUME NEW f \in Files, NEW S \in SUBSET (DOMAIN f)
  PROVE  Lines(f, S) \in Files /\ Thinned(f, S, Lines(f, S))
<1>1. DOMAIN f = 1 .. Len(f) /\ Len(f) \in Nat
  BY DEF Files
<1>2. Lists(Places(S), Cardinality(S), S) /\ Cardinality(S) \in Nat
  BY <1>1, PlacesListed, RankIsMonotone
<1>3. Lines(f, S) = [k \in 1 .. Cardinality(S) |-> f[Places(S)[k]]]
  BY DEF Lines, Places, Rank
<1>4. \A k \in 1 .. Cardinality(S) : Places(S)[k] \in S /\ f[Places(S)[k]] \in TomlLine
  BY <1>2 DEF Lists, Files
<1>5. Lines(f, S) \in Files /\ Len(Lines(f, S)) = Cardinality(S)
  BY <1>2, <1>3, <1>4 DEF Files
<1> QED BY <1>2, <1>3, <1>5 DEF Thinned

\* Every line that is left is one of f, and every line kept is left.
LEMMA ThinnedLines ==
  ASSUME NEW f \in Files, NEW S \in SUBSET (DOMAIN f), NEW g \in Files, Thinned(f, S, g)
  PROVE  /\ \A k \in DOMAIN g : \E i \in S : g[k] = f[i]
         /\ \A i \in S : \E k \in DOMAIN g : g[k] = f[i]
<1>1. PICK e : /\ Lists(e, Len(g), S)
               /\ \A k \in 1 .. Len(g) : g[k] = f[e[k]]
  BY DEF Thinned
<1>2. DOMAIN g = 1 .. Len(g)
  BY DEF Files
<1> QED BY <1>1, <1>2 DEF Lists

\* Two lines that are left are in their old order.
LEMMA ThinnedOrder ==
  ASSUME NEW f \in Files, NEW S \in SUBSET (DOMAIN f), NEW g \in Files, Thinned(f, S, g),
         NEW k \in DOMAIN g, NEW l \in DOMAIN g, k < l
  PROVE  \E i, j \in S : i < j /\ g[k] = f[i] /\ g[l] = f[j]
<1>1. PICK e : /\ Lists(e, Len(g), S)
               /\ \A n \in 1 .. Len(g) : g[n] = f[e[n]]
  BY DEF Thinned
<1>2. DOMAIN g = 1 .. Len(g)
  BY DEF Files
<1>3. e[k] \in S /\ e[l] \in S /\ e[k] < e[l]
  BY <1>1, <1>2 DEF Lists
<1> QED BY <1>1, <1>2, <1>3

\* Neighbours that are both kept stay neighbours.
LEMMA ListedNeighbours ==
  ASSUME NEW n \in Nat, NEW S \in SUBSET Nat, NEW e, Lists(e, n, S),
         NEW k \in 1 .. n, e[k] + 1 \in S
  PROVE  k + 1 \in 1 .. n /\ e[k + 1] = e[k] + 1
<1> DEFINE a == e[k]
<1>1. PICK l \in 1 .. n : e[l] = a + 1
  BY DEF Lists
<1>2. /\ a \in Nat /\ k \in Nat /\ l \in Nat
      /\ \A i \in 1 .. n : e[i] \in Nat
      /\ \A i, j \in 1 .. n : i < j => e[i] < e[j]
  <2>1. \A i \in 1 .. n : e[i] \in Nat
    BY DEF Lists
  <2> QED BY <2>1 DEF Lists
<1>3. k < l
  <2>1. l # k
    BY <1>1, <1>2
  <2>2. ~(l < k)
    BY <1>1, <1>2
  <2> QED BY <1>2, <2>1, <2>2
<1>4. k + 1 \in 1 .. n /\ e[k] < e[k + 1] /\ e[k + 1] \in Nat
  BY <1>2, <1>3
<1>5. ~(k + 1 < l)
  BY <1>1, <1>2, <1>4
<1>6. l = k + 1
  BY <1>2, <1>3, <1>5
<1> QED BY <1>1, <1>4, <1>6

-----------------------------------------------------------------------------
(* Part 2: the programs take lines away and add lines.                     *)

\* What there is to say of a file w that consists of f and then g.
JoinOf(w, f, g) ==
    /\ w \in Files
    /\ DOMAIN f = 1 .. Len(f) /\ Len(f) \in Nat /\ DOMAIN g = 1 .. Len(g) /\ Len(g) \in Nat
    /\ Len(w) = Len(f) + Len(g) /\ DOMAIN w = 1 .. Len(f) + Len(g)
    /\ \A i \in DOMAIN f : w[i] = f[i]
    /\ \A i \in DOMAIN g : w[Len(f) + i] = g[i]
    /\ \A i \in DOMAIN w :
           \/ i \in DOMAIN f
           \/ i > Len(f) /\ i - Len(f) \in DOMAIN g /\ w[i] = g[i - Len(f)]

LEMMA Joined ==
  ASSUME NEW f \in Files, NEW g \in Files
  PROVE  JoinOf(f \o g, f, g)
  BY DEF Files, JoinOf

LEMMA JoinedFile ==
  ASSUME NEW f \in Files, NEW g \in Files
  PROVE  f \o g \in Files
  BY Joined DEF JoinOf

LEMMA KindsOfLines ==
  ASSUME NEW f \in Files
  PROVE  /\ DOMAIN f = 1 .. Len(f) /\ Len(f) \in Nat
         /\ \A i \in DOMAIN f : f[i] \in TomlLine
  BY DEF Files

Slugs == StartPicks \cup SetupPicks

LEMMA LineTypes ==
  /\ \A k \in Kinds : Line(k) \in TomlLine /\ Line(k).kind = k
  /\ \A k \in Kinds, x \in Slugs \cup Plugins :
        LineOf(k, x) \in TomlLine /\ LineOf(k, x).kind = k /\ LineOf(k, x).of = x
  BY DEF Line, LineOf, TomlLine, Slugs

LEMMA Sandbox ==
  /\ SandboxBlock \in Files /\ Len(SandboxBlock) = 3 /\ DOMAIN SandboxBlock = 1 .. 3
  /\ SandboxBlock[1].kind = "sandboxComment"
  /\ SandboxBlock[2].kind = "sandboxMode"
  /\ SandboxBlock[3].kind = "approvalPolicy"
<1>1. {"sandboxComment", "sandboxMode", "approvalPolicy"} \subseteq Kinds
  BY DEF Kinds, Keys
<1>2. /\ Line("sandboxComment") \in TomlLine /\ Line("sandboxComment").kind = "sandboxComment"
      /\ Line("sandboxMode") \in TomlLine /\ Line("sandboxMode").kind = "sandboxMode"
      /\ Line("approvalPolicy") \in TomlLine /\ Line("approvalPolicy").kind = "approvalPolicy"
  BY <1>1, LineTypes
<1> QED BY <1>2 DEF SandboxBlock, Files

LEMMA Molecule ==
  /\ MoleculeBlock \in Files /\ Len(MoleculeBlock) = 6 /\ DOMAIN MoleculeBlock = 1 .. 6
  /\ MoleculeBlock[1].kind = "blank"
  /\ MoleculeBlock[2].kind = "moleculeComment"
  /\ MoleculeBlock[3].kind = "[molecule]"
  /\ MoleculeBlock[4].kind = "moleculeKeys"
  /\ MoleculeBlock[5].kind = "[molecule.env]"
  /\ MoleculeBlock[6].kind = "moleculeEnv"
<1>1. {"blank", "moleculeComment", "[molecule]", "moleculeKeys", "[molecule.env]",
       "moleculeEnv"} \subseteq Kinds
  BY DEF Kinds, Headers
<1>2. /\ Line("blank") \in TomlLine /\ Line("blank").kind = "blank"
      /\ Line("moleculeComment") \in TomlLine /\ Line("moleculeComment").kind = "moleculeComment"
      /\ Line("[molecule]") \in TomlLine /\ Line("[molecule]").kind = "[molecule]"
      /\ Line("moleculeKeys") \in TomlLine /\ Line("moleculeKeys").kind = "moleculeKeys"
      /\ Line("[molecule.env]") \in TomlLine /\ Line("[molecule.env]").kind = "[molecule.env]"
      /\ Line("moleculeEnv") \in TomlLine /\ Line("moleculeEnv").kind = "moleculeEnv"
  BY <1>1, LineTypes
<1> QED BY <1>2 DEF MoleculeBlock, Files

LEMMA Provider ==
  ASSUME NEW s \in Slugs, NEW b \in {ProviderBlock(s), ShellBlock(s)}
  PROVE  /\ b \in Files /\ Len(b) = 4 /\ DOMAIN b = 1 .. 4
         /\ b[1].kind = IF b = ProviderBlock(s) THEN "providerComment" ELSE "shellComment"
         /\ b[2].kind = "modelProvider" /\ b[2].of = s
         /\ b[3].kind = "[provider]"
         /\ b[4].kind = "providerKeys"
<1>1. {"providerComment", "shellComment", "modelProvider", "[provider]", "providerKeys"}
          \subseteq Kinds
  BY DEF Kinds, Headers, Keys
<1> DEFINE c == IF b = ProviderBlock(s) THEN "providerComment" ELSE "shellComment"
<1>2. /\ Line("providerComment") \in TomlLine /\ Line("shellComment") \in TomlLine
      /\ Line(c).kind = c
      /\ LineOf("modelProvider", s) \in TomlLine
      /\ LineOf("modelProvider", s).kind = "modelProvider" /\ LineOf("modelProvider", s).of = s
      /\ LineOf("[provider]", s) \in TomlLine /\ LineOf("[provider]", s).kind = "[provider]"
      /\ LineOf("providerKeys", s) \in TomlLine
      /\ LineOf("providerKeys", s).kind = "providerKeys"
  BY <1>1, LineTypes
<1>3. /\ ProviderBlock(s) \in Files /\ Len(ProviderBlock(s)) = 4
      /\ ProviderBlock(s)[1] = Line("providerComment")
      /\ ProviderBlock(s)[2] = LineOf("modelProvider", s)
      /\ ProviderBlock(s)[3] = LineOf("[provider]", s)
      /\ ProviderBlock(s)[4] = LineOf("providerKeys", s)
  BY <1>2 DEF ProviderBlock, Files
<1>4. /\ b \in Files /\ Len(b) = 4
      /\ b[1] = Line(c)
      /\ b[2] = LineOf("modelProvider", s)
      /\ b[3] = LineOf("[provider]", s)
      /\ b[4] = LineOf("providerKeys", s)
  <2>1. CASE b = ProviderBlock(s)
    BY <2>1, <1>3
  <2>2. CASE b # ProviderBlock(s)
    <3> DEFINE h == <<Line("shellComment")>>
               t == Tail(ProviderBlock(s))
    <3>1. h \in Files /\ Len(h) = 1 /\ h[1] = Line("shellComment")
      BY <2>2, <1>2 DEF Files
    <3>2. /\ t \in Files /\ Len(t) = 3
          /\ t[1] = ProviderBlock(s)[2] /\ t[2] = ProviderBlock(s)[3]
          /\ t[3] = ProviderBlock(s)[4]
      BY <1>3 DEF Files
    <3>3. JoinOf(b, h, t)
      BY <2>2, <3>1, <3>2, Joined DEF ShellBlock
    <3> HIDE DEF h, t
    <3>4. /\ b \in Files /\ Len(b) = Len(h) + Len(t)
          /\ DOMAIN h = 1 .. Len(h) /\ DOMAIN t = 1 .. Len(t)
          /\ \A i \in DOMAIN h : b[i] = h[i]
          /\ \A i \in DOMAIN t : b[Len(h) + i] = t[i]
      BY <3>1, <3>2, <3>3 DEF JoinOf
    <3>5. b[1] = h[1] /\ b[1 + 1] = t[1] /\ b[1 + 2] = t[2] /\ b[1 + 3] = t[3]
      BY <3>1, <3>2, <3>4
    <3> QED BY <2>2, <1>3, <3>1, <3>2, <3>4, <3>5
  <2> QED BY <2>1, <2>2
<1> HIDE DEF c
<1>5. /\ b \in Files /\ Len(b) = 4 /\ DOMAIN b = 1 .. 4
      /\ b[1].kind = c
      /\ b[2].kind = "modelProvider" /\ b[2].of = s
      /\ b[3].kind = "[provider]"
      /\ b[4].kind = "providerKeys"
  BY <1>2, <1>4 DEF Files
<1> QED BY <1>5 DEF c

LEMMA Hand ==
  /\ HandBlock \in Files /\ Len(HandBlock) = 5 /\ DOMAIN HandBlock = 1 .. 5
  /\ HandBlock[1].kind = "handKey"
  /\ HandBlock[2].kind = "[sandbox_workspace_write]"
  /\ HandBlock[3].kind = "networkAccess"
  /\ HandBlock[4].kind = "[hand]"
  /\ HandBlock[5].kind = "handEntry"
<1>1. {"handKey", "[sandbox_workspace_write]", "networkAccess", "[hand]", "handEntry"}
          \subseteq Kinds
  BY DEF Kinds, Headers, Keys
<1>2. /\ Line("handKey") \in TomlLine /\ Line("handKey").kind = "handKey"
      /\ Line("[sandbox_workspace_write]") \in TomlLine
      /\ Line("[sandbox_workspace_write]").kind = "[sandbox_workspace_write]"
      /\ Line("networkAccess") \in TomlLine /\ Line("networkAccess").kind = "networkAccess"
      /\ Line("[hand]") \in TomlLine /\ Line("[hand]").kind = "[hand]"
      /\ Line("handEntry") \in TomlLine /\ Line("handEntry").kind = "handEntry"
  BY <1>1, LineTypes
<1> QED BY <1>2 DEF HandBlock, Files

BlockAt(f, i) ==
    /\ i + 3 <= Len(f)
    /\ f[i + 1] = LineOf("[plugin]", f[i].of)
    /\ f[i + 2] = LineOf("pluginKeys", f[i].of)
    /\ f[i + 3] = LineOf("end", f[i].of)

\* A begin marker is the first line of a whole block.
Whole(f) == \A i \in DOMAIN f : f[i].kind = "begin" => BlockAt(f, i)

LEMMA Plugin ==
  ASSUME NEW x \in Plugins
  PROVE  /\ PluginBlock(x) \in Files /\ Len(PluginBlock(x)) = 4
         /\ DOMAIN PluginBlock(x) = 1 .. 4
         /\ PluginBlock(x)[1].kind = "begin"
         /\ PluginBlock(x)[2].kind = "[plugin]"
         /\ PluginBlock(x)[3].kind = "pluginKeys"
         /\ PluginBlock(x)[4].kind = "end"
         /\ Whole(PluginBlock(x))
<1>1. {"begin", "[plugin]", "pluginKeys", "end"} \subseteq Kinds
  BY DEF Kinds, Headers
<1>2. /\ LineOf("begin", x) \in TomlLine /\ LineOf("begin", x).kind = "begin"
      /\ LineOf("begin", x).of = x
      /\ LineOf("[plugin]", x) \in TomlLine /\ LineOf("[plugin]", x).kind = "[plugin]"
      /\ LineOf("pluginKeys", x) \in TomlLine /\ LineOf("pluginKeys", x).kind = "pluginKeys"
      /\ LineOf("end", x) \in TomlLine /\ LineOf("end", x).kind = "end"
  BY <1>1, LineTypes
<1>3. /\ PluginBlock(x) \in Files /\ Len(PluginBlock(x)) = 4
      /\ DOMAIN PluginBlock(x) = 1 .. 4
      /\ PluginBlock(x)[1] = LineOf("begin", x)
      /\ PluginBlock(x)[2] = LineOf("[plugin]", x)
      /\ PluginBlock(x)[3] = LineOf("pluginKeys", x)
      /\ PluginBlock(x)[4] = LineOf("end", x)
  BY <1>2 DEF PluginBlock, Files
<1>4. BlockAt(PluginBlock(x), 1)
  BY <1>2, <1>3 DEF BlockAt
<1> QED BY <1>2, <1>3, <1>4 DEF Whole

LEMMA ThinnedAll ==
  ASSUME NEW f \in Files
  PROVE  Thinned(f, DOMAIN f, f)
<1> DEFINE e == [k \in 1 .. Len(f) |-> k]
<1>1. DOMAIN f = 1 .. Len(f)
  BY DEF Files
<1>2. Lists(e, Len(f), DOMAIN f)
  BY <1>1 DEF Lists
<1> QED BY <1>2 DEF Thinned

LEMMA LeastPlace ==
  ASSUME NEW n \in Nat, NEW S \in SUBSET (1 .. n), S # {}
  PROVE  \E i \in S : \A j \in S : i <= j
<1>1. /\ Lists(Places(S), Cardinality(S), S)
      /\ Cardinality(S) \in Nat /\ Cardinality(S) # 0
  BY PlacesListed, RankIsMonotone, FS_EmptySet
<1>2. 1 \in 1 .. Cardinality(S)
  BY <1>1
<1>3. \A i \in S : i \in 1 .. n
  OBVIOUS
<1>4. Places(S)[1] \in S
  BY <1>1, <1>2 DEF Lists
<1>5. ASSUME NEW j \in S PROVE Places(S)[1] <= j
  <2>1. PICK k \in 1 .. Cardinality(S) : Places(S)[k] = j
    BY <1>1 DEF Lists
  <2>2. Places(S)[1] \in 1 .. n /\ j \in 1 .. n
    BY <1>3, <1>4
  <2>3. CASE k = 1
    BY <2>1, <2>2, <2>3
  <2>4. CASE k # 1
    <3>1. 1 < k
      BY <1>1, <2>4
    <3>2. Places(S)[1] < Places(S)[k]
      BY <1>1, <1>2, <3>1 DEF Lists
    <3> QED BY <2>1, <2>2, <3>2
  <2> QED BY <2>3, <2>4
<1> QED BY <1>4, <1>5

LEMMA FirstFound ==
  ASSUME NEW f \in Files, NEW kind, NEW x, NEW i \in DOMAIN f, f[i] = LineOf(kind, x)
  PROVE  LET b == First(f, kind, x)
         IN  /\ b \in DOMAIN f /\ f[b] = LineOf(kind, x)
             /\ \A j \in 1 .. b - 1 : f[j] # LineOf(kind, x)
<1> DEFINE S == {j \in DOMAIN f : f[j] = LineOf(kind, x)}
<1>1. DOMAIN f = 1 .. Len(f) /\ Len(f) \in Nat
  BY DEF Files
<1>2. S \in SUBSET (1 .. Len(f)) /\ S # {}
  BY <1>1
<1>3. PICK b \in S : \A j \in S : b <= j
  <2> HIDE DEF S
  <2> QED BY <1>1, <1>2, LeastPlace
<1>4. b \in DOMAIN f /\ f[b] = LineOf(kind, x)
  BY <1>3
<1>5. ASSUME NEW j \in 1 .. b - 1 PROVE f[j] # LineOf(kind, x)
  <2>1. j \in 1 .. Len(f) /\ ~(b <= j)
    BY <1>1, <1>4
  <2> QED BY <1>1, <1>3, <2>1
<1> QED BY <1>4, <1>5 DEF First

PluginKinds == {"begin", "[plugin]", "pluginKeys", "end"}
PluginTaken == PluginKinds \cup {"blank"}

\* No block is kept in part.
KeepsBlocks(f, S) ==
    \A i \in S : f[i].kind = "begin" => i + 1 \in S /\ i + 2 \in S /\ i + 3 \in S

\* _render_codex_config() takes one whole block away with the blank lines around
\* it, or nothing, and appends one.
LEMMA PluginThins ==
  ASSUME NEW f \in Files, Whole(f), NEW x \in Plugins
  PROVE  \E S \in SUBSET (DOMAIN f), g \in Files :
             /\ PluginRendered(f, x) = g \o PluginBlock(x)
             /\ Thinned(f, S, g)
             /\ KeepsBlocks(f, S)
             /\ \A i \in DOMAIN f : i \notin S => f[i].kind \in PluginTaken
<1>1. DOMAIN f = 1 .. Len(f) /\ Len(f) \in Nat
  BY DEF Files
<1>2. CASE ~(Contains(f, LineOf("begin", x)) /\ Contains(f, LineOf("end", x)))
  <2>1. PluginRendered(f, x) = f \o PluginBlock(x)
    BY <1>2 DEF PluginRendered
  <2>2. KeepsBlocks(f, DOMAIN f)
    BY <1>1 DEF KeepsBlocks, Whole, BlockAt
  <2> QED BY <2>1, <2>2, ThinnedAll
<1>3. CASE Contains(f, LineOf("begin", x)) /\ Contains(f, LineOf("end", x))
  <2> DEFINE b == First(f, "begin", x)
             ends == {i \in b + 1 .. Len(f) : f[i] = LineOf("end", x)}
             e == IF ends = {} THEN Len(f) ELSE CHOOSE i \in ends : \A j \in ends : i <= j
             Blank(i, j) == \A k \in i .. j : f[k].kind = "blank"
             S == {i \in 1 .. b - 1 : ~Blank(i, b - 1)}
                      \cup {i \in e + 1 .. Len(f) : ~Blank(e + 1, i)}
             g == Lines(f, S)
  <2>1. PICK p \in DOMAIN f : f[p] = LineOf("begin", x)
    BY <1>1, <1>3 DEF Contains
  <2>2. b \in DOMAIN f /\ f[b] = LineOf("begin", x)
    BY <2>1, FirstFound
  <2>10. PluginRendered(f, x) = g \o PluginBlock(x)
    <3>1. BlockStripped(f, x) = g
      BY Zenon DEF BlockStripped
    <3> HIDE DEF g
    <3> QED BY <1>3, <3>1 DEF PluginRendered
  <2> HIDE DEF b
  <2>3. f[b].kind = "begin" /\ f[b].of = x
    BY <2>2 DEF LineOf
  <2>4. /\ b + 3 <= Len(f)
        /\ f[b + 1] = LineOf("[plugin]", x)
        /\ f[b + 2] = LineOf("pluginKeys", x)
        /\ f[b + 3] = LineOf("end", x)
    BY <2>2, <2>3 DEF Whole, BlockAt
  <2>5. f[b + 1] # LineOf("end", x) /\ f[b + 2] # LineOf("end", x)
    BY <2>4 DEF LineOf
  <2>6. e = b + 3
    <3>1. b + 3 \in ends /\ \A j \in ends : b + 3 <= j
      <4>1. b + 3 \in ends
        BY <1>1, <2>2, <2>4
      <4>2. ASSUME NEW j \in ends PROVE b + 3 <= j
        <5>1. j \in b + 1 .. Len(f) /\ j # b + 1 /\ j # b + 2
          BY <2>5
        <5> QED BY <1>1, <2>2, <5>1
      <4> QED BY <4>1, <4>2
    <3>2. \A i \in ends : (\A j \in ends : i <= j) => i = b + 3
      <4> SUFFICES ASSUME NEW i_1 \in ends, \A j \in ends : i_1 <= j PROVE i_1 = b + 3
        OBVIOUS
      <4>1. i_1 <= b + 3 /\ b + 3 <= i_1 /\ i_1 \in b + 1 .. Len(f)
        BY <3>1
      <4> QED BY <1>1, <2>2, <4>1
    <3> QED BY <3>1, <3>2
  <2> HIDE DEF e
  <2>7. S \in SUBSET (DOMAIN f)
    BY <1>1, <2>2, <2>4, <2>6
  <2>8. g \in Files /\ Thinned(f, S, g)
    <3> HIDE DEF S
    <3> QED BY <2>7, LinesThin
  <2>9. \A j \in DOMAIN f : j \notin S => f[j].kind \in PluginTaken
    <3> SUFFICES ASSUME NEW j \in DOMAIN f, j \notin S PROVE f[j].kind \in PluginTaken
      OBVIOUS
    <3>1. CASE j < b
      <4>1. j \in 1 .. b - 1 /\ j \in j .. b - 1
        BY <1>1, <2>2, <3>1
      <4> QED BY <4>1 DEF PluginTaken
    <3>2. CASE b + 3 < j
      <4>1. j \in e + 1 .. Len(f) /\ j \in e + 1 .. j
        BY <1>1, <2>2, <2>6, <3>2
      <4> QED BY <4>1 DEF PluginTaken
    <3>3. CASE j \in b .. b + 3
      <4>1. j \in {b, b + 1, b + 2, b + 3}
        BY <1>1, <2>2, <3>3
      <4> QED BY <4>1, <2>2, <2>4 DEF LineOf, PluginKinds, PluginTaken
    <3> QED BY <1>1, <2>2, <3>1, <3>2, <3>3
  <2>11. KeepsBlocks(f, S)
    <3> SUFFICES ASSUME NEW j \in S, f[j].kind = "begin"
                 PROVE  j + 1 \in S /\ j + 2 \in S /\ j + 3 \in S
      BY DEF KeepsBlocks
    <3>0. j \in DOMAIN f
      BY <2>7
    <3>1. BlockAt(f, j)
      BY <3>0 DEF Whole
    <3>2. /\ f[j + 1].kind = "[plugin]" /\ f[j + 2].kind = "pluginKeys"
          /\ f[j + 3].kind = "end" /\ j + 3 <= Len(f)
      BY <3>1 DEF BlockAt, LineOf
    <3>3. CASE j < b
      <4>1. j + 3 < b
        BY <1>1, <2>2, <2>3, <3>0, <3>2, <3>3
      <4>2. ASSUME NEW k \in {j + 1, j + 2, j + 3} PROVE k \in S
        <5>1. k \in 1 .. b - 1 /\ k \in k .. b - 1 /\ f[k].kind # "blank"
          BY <1>1, <2>2, <3>0, <3>2, <4>1
        <5> QED BY <5>1
      <4> QED BY <4>2
    <3>4. CASE ~(j < b)
      <4>1. j \in e + 1 .. Len(f)
        BY <1>1, <2>2, <3>4
      <4>2. ASSUME NEW k \in {j + 1, j + 2, j + 3} PROVE k \in S
        <5>1. k \in e + 1 .. Len(f) /\ j \in e + 1 .. k /\ f[j].kind # "blank"
          BY <1>1, <2>2, <2>6, <3>0, <3>2, <4>1
        <5> QED BY <5>1
      <4> QED BY <4>2
    <3> QED BY <3>3, <3>4
  <2> QED BY <2>7, <2>8, <2>9, <2>10, <2>11
<1> QED BY <1>2, <1>3

\* Line i is under the header at h, or under none.
Under(f, h, i) == h \in 1 .. i /\ IsHeader(f, h) /\ \A k \in h + 1 .. i : ~IsHeader(f, k)
Headless(f, i) == \A k \in 1 .. i : ~IsHeader(f, k)

LEMMA TableUnder ==
  ASSUME NEW f \in Files, NEW i \in DOMAIN f, NEW h \in Nat, Under(f, h, i)
  PROVE  TableOf(f, i) = h
<1> DEFINE above == {j \in 1 .. i : IsHeader(f, j)}
<1>1. i \in Nat /\ h \in 1 .. i
  BY DEF Files, Under
<1>2. h \in above
  BY <1>1 DEF Under
<1>3. \A k \in above : k <= h
  <2> SUFFICES ASSUME NEW k \in 1 .. i, IsHeader(f, k) PROVE k <= h
    OBVIOUS
  <2>1. k \notin h + 1 .. i
    BY DEF Under
  <2> QED BY <1>1, <2>1
<1>4. \A k \in above : k \in Nat
  BY <1>1
<1>5. \A j \in above : (\A k \in above : k <= j) => j = h
  <2> SUFFICES ASSUME NEW j \in above, h <= j, j <= h PROVE j = h
    BY <1>2, <1>3
  <2> QED BY <1>1, <1>4
<1>6. h = CHOOSE j \in above : \A k \in above : k <= j
  <2> HIDE DEF above
  <2> QED BY <1>2, <1>3, <1>5
<1>7. above # {}
  BY <1>2
<1> QED BY <1>6, <1>7 DEF TableOf

LEMMA TableNone ==
  ASSUME NEW f \in Files, NEW i \in DOMAIN f, Headless(f, i)
  PROVE  TableOf(f, i) = 0
  BY DEF TableOf, Headless

LEMMA OwnTable ==
  ASSUME NEW f \in Files, NEW i \in DOMAIN f, IsHeader(f, i)
  PROVE  Under(f, i, i)
  BY DEF Under, Files

\* Lines of other kinds than C stay, under no header and under a header of
\* another kind than H.
Spares(f, S, H, C) ==
    \A i \in DOMAIN f :
        /\ f[i].kind \notin C
        /\ Headless(f, i) \/ \E h \in 1 .. i : Under(f, h, i) /\ f[h].kind \notin H
        => i \in S

MoleculeComments == {"moleculeComment", "sandboxComment"}
MoleculeKept(f) ==
    {i \in DOMAIN f : IF Buffered(f, i) THEN ~Forgotten(f, i) ELSE ~InMolecule(f, i)}

\* What the first awk program takes away.
LEMMA MoleculeThins ==
  ASSUME NEW f \in Files
  PROVE  /\ MoleculeStripped(f) \in Files
         /\ Thinned(f, MoleculeKept(f), MoleculeStripped(f))
         /\ Spares(f, MoleculeKept(f), MoleculeHeaders, MoleculeComments)
         /\ \A i \in MoleculeKept(f) : f[i].kind \notin MoleculeHeaders
<1>1. MoleculeStripped(f) \in Files /\ Thinned(f, MoleculeKept(f), MoleculeStripped(f))
  <2>1. MoleculeKept(f) \in SUBSET (DOMAIN f)
    BY DEF MoleculeKept
  <2>2. MoleculeStripped(f) = Lines(f, MoleculeKept(f))
    BY DEF MoleculeStripped, MoleculeKept
  <2> QED BY <2>1, <2>2, LinesThin
<1>2. Spares(f, MoleculeKept(f), MoleculeHeaders, MoleculeComments)
  <2> SUFFICES ASSUME NEW i \in DOMAIN f, f[i].kind \notin MoleculeComments,
                      Headless(f, i)
                      \/ \E h \in 1 .. i : Under(f, h, i) /\ f[h].kind \notin MoleculeHeaders
               PROVE  i \in MoleculeKept(f)
    BY DEF Spares
  <2>1. ~Buffered(f, i)
    BY DEF Buffered, MoleculeComments
  <2>2. CASE Headless(f, i)
    BY <2>1, <2>2, TableNone DEF InMolecule, MoleculeKept
  <2>3. ASSUME NEW h \in 1 .. i, Under(f, h, i), f[h].kind \notin MoleculeHeaders
        PROVE  i \in MoleculeKept(f)
    <3>1. TableOf(f, i) = h
      BY <2>3, TableUnder DEF Files
    <3> QED BY <2>1, <2>3, <3>1 DEF InMolecule, MoleculeKept
  <2> QED BY <2>2, <2>3
<1>3. \A i \in MoleculeKept(f) : f[i].kind \notin MoleculeHeaders
  <2> SUFFICES ASSUME NEW i \in DOMAIN f, f[i].kind \in MoleculeHeaders
               PROVE  i \notin MoleculeKept(f)
    BY DEF MoleculeKept
  <2>1. IsHeader(f, i) /\ ~Buffered(f, i)
    BY DEF IsHeader, Headers, MoleculeHeaders, Buffered
  <2>2. i \in Nat /\ i # 0
    BY DEF Files
  <2>3. TableOf(f, i) = i
    BY <2>1, <2>2, OwnTable, TableUnder
  <2> QED BY <2>1, <2>2, <2>3 DEF InMolecule, MoleculeKept
<1> QED BY <1>1, <1>2, <1>3

SandboxKinds == {"sandboxComment", "sandboxMode", "approvalPolicy"}
SandboxTable == {"[sandbox_workspace_write]"}
SandboxKept(f) ==
    {i \in DOMAIN f :
        /\ f[i].kind \notin SandboxKinds
        /\ ~(TableOf(f, i) # 0 /\ f[TableOf(f, i)].kind = "[sandbox_workspace_write]")}

\* What the second one takes away.
LEMMA SandboxThins ==
  ASSUME NEW f \in Files
  PROVE  /\ SandboxStripped(f) \in Files
         /\ Thinned(f, SandboxKept(f), SandboxStripped(f))
         /\ Spares(f, SandboxKept(f), SandboxTable, SandboxKinds)
         /\ \A i \in SandboxKept(f) : f[i].kind \notin SandboxTable \cup SandboxKinds
<1>1. SandboxStripped(f) \in Files /\ Thinned(f, SandboxKept(f), SandboxStripped(f))
  <2>1. SandboxKept(f) \in SUBSET (DOMAIN f)
    BY DEF SandboxKept
  <2>2. SandboxStripped(f) = Lines(f, SandboxKept(f))
    BY DEF SandboxStripped, SandboxKept, SandboxKinds
  <2> QED BY <2>1, <2>2, LinesThin
<1>2. Spares(f, SandboxKept(f), SandboxTable, SandboxKinds)
  <2> SUFFICES ASSUME NEW i \in DOMAIN f, f[i].kind \notin SandboxKinds,
                      Headless(f, i)
                      \/ \E h \in 1 .. i : Under(f, h, i) /\ f[h].kind \notin SandboxTable
               PROVE  i \in SandboxKept(f)
    BY DEF Spares
  <2>1. CASE Headless(f, i)
    BY <2>1, TableNone DEF SandboxKept
  <2>2. ASSUME NEW h \in 1 .. i, Under(f, h, i), f[h].kind \notin SandboxTable
        PROVE  i \in SandboxKept(f)
    <3>1. TableOf(f, i) = h
      BY <2>2, TableUnder DEF Files
    <3> QED BY <2>2, <3>1 DEF SandboxKept, SandboxTable
  <2> QED BY <2>1, <2>2
<1>3. \A i \in SandboxKept(f) : f[i].kind \notin SandboxTable \cup SandboxKinds
  <2> SUFFICES ASSUME NEW i \in DOMAIN f, f[i].kind \in SandboxTable
               PROVE  i \notin SandboxKept(f)
    BY DEF SandboxKept
  <2>1. IsHeader(f, i)
    BY DEF IsHeader, Headers, SandboxTable
  <2>2. i \in Nat /\ i # 0
    BY DEF Files
  <2>3. TableOf(f, i) = i
    BY <2>1, <2>2, OwnTable, TableUnder
  <2> QED BY <2>2, <2>3 DEF SandboxKept, SandboxTable
<1> QED BY <1>1, <1>2, <1>3

-----------------------------------------------------------------------------
(* Part 3: plugin blocks stay whole, and the types.                        *)

LEMMA BlocksKept ==
  ASSUME NEW f \in Files, Whole(f), NEW S \in SUBSET (DOMAIN f), NEW H, NEW C,
         Spares(f, S, H, C), "[plugin]" \notin H, PluginKinds \cap C = {}
  PROVE  KeepsBlocks(f, S)
<1> SUFFICES ASSUME NEW i \in S, f[i].kind = "begin"
             PROVE  i + 1 \in S /\ i + 2 \in S /\ i + 3 \in S
  BY DEF KeepsBlocks
<1>1. DOMAIN f = 1 .. Len(f) /\ Len(f) \in Nat /\ i \in DOMAIN f
  BY KindsOfLines
<1>2. i + 3 <= Len(f)
  BY <1>1 DEF Whole, BlockAt
<1>3. /\ f[i + 1].kind = "[plugin]" /\ f[i + 2].kind = "pluginKeys"
      /\ f[i + 3].kind = "end"
  <2>1. BlockAt(f, i)
    BY <1>1 DEF Whole
  <2> QED BY <2>1 DEF BlockAt, LineOf
<1>4. /\ {i + 1, i + 2, i + 3} \subseteq DOMAIN f
      /\ IsHeader(f, i + 1) /\ ~IsHeader(f, i + 2) /\ ~IsHeader(f, i + 3)
  <2>1. {i + 1, i + 2, i + 3} \subseteq DOMAIN f
    BY <1>1, <1>2
  <2> QED BY <2>1, <1>3 DEF IsHeader, Headers
<1>5. Under(f, i + 1, i + 1) /\ Under(f, i + 1, i + 2) /\ Under(f, i + 1, i + 3)
  BY <1>1, <1>2, <1>4 DEF Under
<1>6. \A k \in {i + 1, i + 2, i + 3} : f[k].kind \notin C
  BY <1>3 DEF PluginKinds
<1>7. \A k \in {i + 1, i + 2, i + 3} : i + 1 \in 1 .. k
  BY <1>1
<1>8. f[i + 1].kind \notin H
  BY <1>3
<1> QED BY <1>4, <1>5, <1>6, <1>7, <1>8 DEF Spares

LEMMA WholeThinned ==
  ASSUME NEW f \in Files, Whole(f), NEW S \in SUBSET (DOMAIN f), KeepsBlocks(f, S),
         NEW g \in Files, Thinned(f, S, g)
  PROVE  Whole(g)
<1> SUFFICES ASSUME NEW k \in DOMAIN g, g[k].kind = "begin"
             PROVE  BlockAt(g, k)
  BY DEF Whole
<1>1. /\ DOMAIN f = 1 .. Len(f) /\ Len(f) \in Nat
      /\ DOMAIN g = 1 .. Len(g) /\ Len(g) \in Nat
  BY KindsOfLines
<1>2. PICK e : /\ Lists(e, Len(g), S)
               /\ \A n \in 1 .. Len(g) : g[n] = f[e[n]]
  BY DEF Thinned
<1>3. \A i \in S : i \in Nat
  BY <1>1
<1> DEFINE i == e[k]
<1>4. i \in S /\ g[k] = f[i] /\ i \in Nat /\ k \in Nat
  BY <1>1, <1>2, <1>3 DEF Lists
<1>5. i + 1 \in S /\ i + 2 \in S /\ i + 3 \in S
  BY <1>4 DEF KeepsBlocks
<1>6. k + 1 \in 1 .. Len(g) /\ e[k + 1] = i + 1
  BY <1>1, <1>2, <1>3, <1>5, ListedNeighbours
<1>7. (k + 1) + 1 \in 1 .. Len(g) /\ e[(k + 1) + 1] = e[k + 1] + 1
  <2>1. e[k + 1] + 1 \in S
    BY <1>4, <1>5, <1>6
  <2> QED BY <1>1, <1>2, <1>3, <1>6, <2>1, ListedNeighbours
<1>8. ((k + 1) + 1) + 1 \in 1 .. Len(g) /\ e[((k + 1) + 1) + 1] = e[(k + 1) + 1] + 1
  <2>1. e[(k + 1) + 1] + 1 \in S
    BY <1>4, <1>5, <1>6, <1>7
  <2> QED BY <1>1, <1>2, <1>3, <1>7, <2>1, ListedNeighbours
<1>9. /\ (k + 1) + 1 = k + 2 /\ ((k + 1) + 1) + 1 = k + 3
      /\ (i + 1) + 1 = i + 2 /\ ((i + 1) + 1) + 1 = i + 3
  BY <1>4
<1>10. /\ k + 3 <= Len(g)
       /\ g[k + 1] = f[i + 1] /\ g[k + 2] = f[i + 2] /\ g[k + 3] = f[i + 3]
  BY <1>1, <1>2, <1>6, <1>7, <1>8, <1>9, SMTT(30)
<1>11. BlockAt(f, i)
  BY <1>4 DEF Whole
<1> QED BY <1>4, <1>10, <1>11 DEF BlockAt

LEMMA WholeJoined ==
  ASSUME NEW f \in Files, Whole(f), NEW g \in Files, Whole(g)
  PROVE  Whole(f \o g)
<1> DEFINE h == f \o g
<1> SUFFICES ASSUME NEW i \in DOMAIN h, h[i].kind = "begin" PROVE BlockAt(h, i)
  BY DEF Whole
<1>0. JoinOf(h, f, g)
  BY Joined
<1> HIDE DEF h
<1>1. /\ DOMAIN f = 1 .. Len(f) /\ Len(f) \in Nat /\ DOMAIN g = 1 .. Len(g) /\ Len(g) \in Nat
      /\ Len(h) = Len(f) + Len(g)
      /\ \A k \in DOMAIN f : h[k] = f[k]
      /\ \A k \in DOMAIN g : h[Len(f) + k] = g[k]
      /\ \/ i \in DOMAIN f
         \/ i > Len(f) /\ i - Len(f) \in DOMAIN g /\ h[i] = g[i - Len(f)]
  BY <1>0 DEF JoinOf
<1> HIDE DEF h
<1>2. CASE i \in DOMAIN f
  <2>1. BlockAt(f, i)
    BY <1>1, <1>2 DEF Whole
  <2>2. {i, i + 1, i + 2, i + 3} \subseteq DOMAIN f /\ i + 3 <= Len(h)
    BY <1>1, <1>2, <2>1 DEF BlockAt
  <2> QED BY <1>1, <2>1, <2>2 DEF BlockAt
<1>3. CASE i > Len(f) /\ i - Len(f) \in DOMAIN g /\ h[i] = g[i - Len(f)]
  <2> DEFINE j == i - Len(f)
  <2>1. BlockAt(g, j) /\ j \in Nat
    BY <1>1, <1>3 DEF Whole
  <2>2. {j + 1, j + 2, j + 3} \subseteq DOMAIN g
    BY <1>1, <1>3, <2>1 DEF BlockAt
  <2>3. /\ Len(f) + (j + 1) = i + 1 /\ Len(f) + (j + 2) = i + 2 /\ Len(f) + (j + 3) = i + 3
        /\ i + 3 <= Len(h)
    BY <1>1, <1>3, <2>2, SMTT(30)
  <2>4. \A k \in {j + 1, j + 2, j + 3} : h[Len(f) + k] = g[k]
    BY <1>1, <2>2
  <2>5. h[i + 1] = g[j + 1] /\ h[i + 2] = g[j + 2] /\ h[i + 3] = g[j + 3] /\ h[i] = g[j]
    BY <1>3, <2>3, <2>4
  <2> QED BY <2>1, <2>3, <2>5 DEF BlockAt
<1> QED BY <1>1, <1>2, <1>3

LEMMA NoBeginIsWhole ==
  ASSUME NEW f \in Files, \A i \in DOMAIN f : f[i].kind # "begin"
  PROVE  Whole(f)
  BY DEF Whole

LEMMA AppendJoins ==
  ASSUME NEW f \in Files, NEW l \in TomlLine
  PROVE  Append(f, l) = f \o <<l>> /\ <<l>> \in Files /\ Len(<<l>>) = 1 /\ <<l>>[1] = l
  BY DEF Files

LEMMA RenderedFile ==
  ASSUME NEW f \in Files, Whole(f), NEW p \in Slugs
  PROVE  Rendered(f, p) \in Files /\ Whole(Rendered(f, p))
<1>1. ProviderBlock(p) \in Files /\ Whole(ProviderBlock(p))
  <2>1. \A i \in DOMAIN ProviderBlock(p) : ProviderBlock(p)[i].kind # "begin"
    BY Provider
  <2> QED BY <2>1, Provider, NoBeginIsWhole
<1>2. <<>> \in Files /\ Whole(<<>>)
  BY DEF Files, Whole
<1> QED BY <1>1, <1>2 DEF Rendered

LEMMA StartFile ==
  ASSUME NEW f \in Files, Whole(f), NEW e \in Envs
  PROVE  StartRendered(f, e) \in Files /\ Whole(StartRendered(f, e))
<1>1. e.start \in Slugs
  BY DEF Envs, Slugs
<1>2. ShellBlock(e.start) \in Files /\ Whole(ShellBlock(e.start))
  <2>1. \A i \in DOMAIN ShellBlock(e.start) : ShellBlock(e.start)[i].kind # "begin"
    BY <1>1, Provider
  <2> QED BY <1>1, <2>1, Provider, NoBeginIsWhole
<1> QED BY <1>1, <1>2, RenderedFile DEF StartRendered, ShellRendered

LEMMA MoleculeFile ==
  ASSUME NEW f \in Files, Whole(f)
  PROVE  /\ MoleculeStripped(f) \in Files /\ Whole(MoleculeStripped(f))
         /\ f \o MoleculeBlock \in Files /\ Whole(f \o MoleculeBlock)
<1>1. /\ MoleculeStripped(f) \in Files
      /\ Thinned(f, MoleculeKept(f), MoleculeStripped(f))
      /\ Spares(f, MoleculeKept(f), MoleculeHeaders, MoleculeComments)
      /\ MoleculeKept(f) \in SUBSET (DOMAIN f)
  BY MoleculeThins DEF MoleculeKept
<1>2. KeepsBlocks(f, MoleculeKept(f))
  <2>1. "[plugin]" \notin MoleculeHeaders /\ PluginKinds \cap MoleculeComments = {}
    BY DEF MoleculeHeaders, PluginKinds, MoleculeComments
  <2> QED BY <1>1, <2>1, BlocksKept
<1>3. Whole(MoleculeStripped(f))
  BY <1>1, <1>2, WholeThinned
<1>4. MoleculeBlock \in Files /\ Whole(MoleculeBlock)
  <2>1. \A i \in DOMAIN MoleculeBlock : MoleculeBlock[i].kind # "begin"
    BY Molecule
  <2> QED BY <2>1, Molecule, NoBeginIsWhole
<1> QED BY <1>1, <1>3, <1>4, JoinedFile, WholeJoined

LEMMA SandboxFile ==
  ASSUME NEW f \in Files, Whole(f)
  PROVE  /\ SandboxStripped(f) \in Files /\ Whole(SandboxStripped(f))
         /\ SandboxBlock \o f \in Files /\ Whole(SandboxBlock \o f)
<1>1. /\ SandboxStripped(f) \in Files
      /\ Thinned(f, SandboxKept(f), SandboxStripped(f))
      /\ Spares(f, SandboxKept(f), SandboxTable, SandboxKinds)
      /\ SandboxKept(f) \in SUBSET (DOMAIN f)
  BY SandboxThins DEF SandboxKept
<1>2. KeepsBlocks(f, SandboxKept(f))
  <2>1. "[plugin]" \notin SandboxTable /\ PluginKinds \cap SandboxKinds = {}
    BY DEF SandboxTable, PluginKinds, SandboxKinds
  <2> QED BY <1>1, <2>1, BlocksKept
<1>3. Whole(SandboxStripped(f))
  BY <1>1, <1>2, WholeThinned
<1>4. SandboxBlock \in Files /\ Whole(SandboxBlock)
  <2>1. \A i \in DOMAIN SandboxBlock : SandboxBlock[i].kind # "begin"
    BY Sandbox
  <2> QED BY <2>1, Sandbox, NoBeginIsWhole
<1> QED BY <1>1, <1>3, <1>4, JoinedFile, WholeJoined

AuthKinds == {"authStore", "loginMethod"}

LEMMA AuthLines ==
  ASSUME NEW kind \in AuthKinds
  PROVE  Line(kind) \in TomlLine /\ Line(kind).kind = kind
<1>1. kind \in Kinds
  BY DEF AuthKinds, Kinds, Keys
<1> QED BY <1>1, LineTypes

\* start.sh appends one of its keys, or leaves the file alone.
KeyAdded(w, f, l) ==
    /\ w = f \o <<l>> /\ <<l>> \in Files /\ DOMAIN <<l>> = {1} /\ <<l>>[1] = l
    /\ l \in TomlLine /\ ~Holds(f, l.kind)

LEMMA AuthAdds ==
  ASSUME NEW f \in Files, NEW kind \in AuthKinds, NEW w, w = AuthKeyAdded(f, kind)
  PROVE  w = f \/ (KeyAdded(w, f, Line(kind)) /\ Line(kind).kind = kind)
<1> DEFINE l == Line(kind)
<1>1. l \in TomlLine /\ l.kind = kind
  BY AuthLines
<1>2. w = f \/ (~Holds(f, kind) /\ w = Append(f, l))
  BY DEF AuthKeyAdded
<1> HIDE DEF l
<1>3. Append(f, l) = f \o <<l>> /\ <<l>> \in Files /\ DOMAIN <<l>> = {1} /\ <<l>>[1] = l
  BY <1>1, AppendJoins DEF Files
<1>4. w = f \/ (KeyAdded(w, f, l) /\ l.kind = kind)
  BY <1>1, <1>2, <1>3 DEF KeyAdded
<1> QED BY <1>4 DEF l

LEMMA AuthFile ==
  ASSUME NEW f \in Files, Whole(f), NEW kind \in AuthKinds, NEW w, w = AuthKeyAdded(f, kind)
  PROVE  w \in Files /\ Whole(w)
<1> DEFINE l == Line(kind)
<1> HIDE DEF l
<1>1. w = f \/ (KeyAdded(w, f, l) /\ l.kind = kind)
  BY AuthAdds DEF l
<1>2. CASE KeyAdded(w, f, l) /\ l.kind = kind
  <2>1. \A i \in DOMAIN <<l>> : <<l>>[i].kind # "begin"
    BY <1>2 DEF KeyAdded, AuthKinds
  <2>2. <<l>> \in Files /\ w = f \o <<l>>
    BY <1>2 DEF KeyAdded
  <2> QED BY <2>1, <2>2, NoBeginIsWhole, JoinedFile, WholeJoined
<1> QED BY <1>1, <1>2

LEMMA PluginFile ==
  ASSUME NEW f \in Files, Whole(f), NEW x \in Plugins
  PROVE  PluginRendered(f, x) \in Files /\ Whole(PluginRendered(f, x))
<1>1. PICK S \in SUBSET (DOMAIN f), g \in Files :
             /\ PluginRendered(f, x) = g \o PluginBlock(x)
             /\ Thinned(f, S, g)
             /\ KeepsBlocks(f, S)
  BY PluginThins
<1>2. Whole(g)
  BY <1>1, WholeThinned
<1> QED BY <1>1, <1>2, Plugin, JoinedFile, WholeJoined

PcStates == {"off", "render", "strip", "append", "sandbox", "prepend", "auth", "login",
             "setup", "plugins", "up", "failed"}

FileInv ==
    /\ toml \in Files /\ Whole(toml)
    /\ pc \in PcStates
    /\ env \in Envs
    /\ todo \subseteq Plugins

LEMMA FileInit == Init => FileInv
<1> SUFFICES ASSUME Init PROVE FileInv
  OBVIOUS
<1>1. HandBlock \in Files /\ Whole(HandBlock)
  <2>1. \A i \in DOMAIN HandBlock : HandBlock[i].kind # "begin"
    BY Hand
  <2> QED BY <2>1, Hand, NoBeginIsWhole
<1>2. <<>> \in Files /\ Whole(<<>>)
  BY DEF Files, Whole
<1> QED BY <1>1, <1>2 DEF Init, FileInv, PcStates

LEMMA PickedSlug ==
  ASSUME NEW e \in Envs
  PROVE  Picked(e) \in Slugs
  BY DEF Picked, Envs, Slugs

LEMMA FileStep ==
  ASSUME FileInv, [Next]_vars
  PROVE  FileInv'
<1> USE DEF FileInv, PcStates
<1>1. CASE Boot
  BY <1>1 DEF Boot
<1>2. CASE RenderProvider
  BY <1>2, StartFile DEF RenderProvider, Step
<1>3. CASE StripMolecule
  BY <1>3, MoleculeFile DEF StripMolecule, Step
<1>4. CASE AppendMolecule
  BY <1>4, MoleculeFile DEF AppendMolecule, Step
<1>11. CASE StripSandbox
  BY <1>11, SandboxFile DEF StripSandbox, Step
<1>12. CASE PrependSandbox
  BY <1>12, SandboxFile DEF PrependSandbox, Step
<1>13. CASE AuthStoreKey
  BY <1>13, AuthFile DEF AuthStoreKey, Step, AuthKinds
<1>14. CASE LoginMethodKey
  BY <1>14, AuthFile DEF LoginMethodKey, Step, AuthKinds
<1>5. CASE Setup
  BY <1>5, RenderedFile, PickedSlug DEF Setup, Step
<1>6. CASE SetupRaises
  BY <1>6 DEF SetupRaises, Step
<1>15. CASE SetupSkips
  BY <1>15 DEF SetupSkips, Step
<1>7. ASSUME NEW x \in Plugins, RegisterMcpServer(x) PROVE FileInv'
  BY <1>7, PluginFile DEF RegisterMcpServer, Step
<1>8. CASE Ready
  BY <1>8 DEF Ready
<1>9. CASE Restart
  BY <1>9 DEF Restart
<1>10. CASE UNCHANGED vars
  BY <1>10 DEF vars
<1> QED
  BY <1>1, <1>2, <1>3, <1>4, <1>5, <1>6, <1>7, <1>8, <1>9, <1>10, <1>11, <1>12, <1>13,
     <1>14, <1>15
     DEF Next, BootStep

\* Between programs config.toml is a file of known lines in which every begin
\* marker starts a whole plugin block, whatever boots were cut short.
THEOREM PluginBlocksWhole == Spec => []FileInv
  BY FileInit, FileStep, PTL DEF Spec

\* Between taking its old lines away and writing its new ones codex_mcp_config.sh
\* has a file without them.
ClearedInv ==
    /\ pc = "append" => \A k \in DOMAIN toml : toml[k].kind \notin MoleculeHeaders
    /\ pc = "prepend" => \A k \in DOMAIN toml : toml[k].kind \notin SandboxTable \cup SandboxKinds

LEMMA MoleculeCleared ==
  ASSUME NEW f \in Files
  PROVE  \A k \in DOMAIN MoleculeStripped(f) : MoleculeStripped(f)[k].kind \notin MoleculeHeaders
<1>1. /\ MoleculeStripped(f) \in Files
      /\ Thinned(f, MoleculeKept(f), MoleculeStripped(f))
      /\ MoleculeKept(f) \in SUBSET (DOMAIN f)
      /\ \A i \in MoleculeKept(f) : f[i].kind \notin MoleculeHeaders
  BY MoleculeThins DEF MoleculeKept
<1>2. \A k \in DOMAIN MoleculeStripped(f) : \E i \in MoleculeKept(f) : MoleculeStripped(f)[k] = f[i]
  BY <1>1, ThinnedLines
<1> QED BY <1>1, <1>2

LEMMA SandboxCleared ==
  ASSUME NEW f \in Files
  PROVE  \A k \in DOMAIN SandboxStripped(f) :
            SandboxStripped(f)[k].kind \notin SandboxTable \cup SandboxKinds
<1>1. /\ SandboxStripped(f) \in Files
      /\ Thinned(f, SandboxKept(f), SandboxStripped(f))
      /\ SandboxKept(f) \in SUBSET (DOMAIN f)
      /\ \A i \in SandboxKept(f) : f[i].kind \notin SandboxTable \cup SandboxKinds
  BY SandboxThins DEF SandboxKept
<1>2. \A k \in DOMAIN SandboxStripped(f) : \E i \in SandboxKept(f) : SandboxStripped(f)[k] = f[i]
  BY <1>1, ThinnedLines
<1> QED BY <1>1, <1>2

LEMMA ClearedStep ==
  ASSUME FileInv, ClearedInv, [Next]_vars
  PROVE  ClearedInv'
<1> USE DEF FileInv, ClearedInv
<1>1. CASE StripMolecule
  BY <1>1, MoleculeCleared DEF StripMolecule, Step
<1>2. CASE StripSandbox
  BY <1>2, SandboxCleared DEF StripSandbox, Step
<1>3. CASE UNCHANGED vars
  BY <1>3 DEF vars
<1>4. CASE ~StripMolecule /\ ~StripSandbox /\ Next
  <2>1. pc' # "append" /\ pc' # "prepend"
    BY <1>4
       DEF Next, BootStep, Boot, RenderProvider, AppendMolecule, PrependSandbox, AuthStoreKey,
           LoginMethodKey, Setup, SetupRaises, SetupSkips, RegisterMcpServer, Ready, Restart, Step
  <2> QED BY <2>1
<1> QED BY <1>1, <1>2, <1>3, <1>4

LEMMA Cleared == Spec => []ClearedInv
<1>1. Init => ClearedInv
  BY DEF Init, ClearedInv
<1> QED BY <1>1, ClearedStep, PluginBlocksWhole, PTL DEF Spec

-----------------------------------------------------------------------------
(* Part 4: what the CLI finds in the file.                                 *)

\* The molecule server's tables.
Served(f) == Holds(f, "[molecule]") /\ Holds(f, "[molecule.env]")

Wired(f) ==
    /\ Len(f) >= 3
    /\ f[1].kind = "sandboxComment"
    /\ f[2].kind = "sandboxMode"
    /\ f[3].kind = "approvalPolicy"
    /\ ~Holds(f, "[sandbox_workspace_write]")
    /\ Holds(f, "[molecule]") /\ Holds(f, "[molecule.env]")

LEMMA WiredIsReady ==
  ASSUME NEW f \in Files, Wired(f)
  PROVE  /\ TopLevel(f, "sandboxMode") /\ TopLevel(f, "approvalPolicy")
         /\ ~Holds(f, "[sandbox_workspace_write]")
         /\ Holds(f, "[molecule]") /\ Holds(f, "[molecule.env]")
<1>1. {1, 2, 3} \subseteq DOMAIN f
  BY DEF Files, Wired
<1>2. ~IsHeader(f, 1) /\ ~IsHeader(f, 2) /\ ~IsHeader(f, 3)
  BY DEF Wired, IsHeader, Headers
<1>3. Headless(f, 2) /\ Headless(f, 3)
  BY <1>2 DEF Headless
<1>4. TableOf(f, 2) = 0 /\ TableOf(f, 3) = 0
  BY <1>1, <1>3, TableNone
<1> QED BY <1>1, <1>4 DEF TopLevel, Wired

\* The molecule block is there from the second rewrite of codex_mcp_config.sh on.
LEMMA MoleculeServed ==
  ASSUME NEW f \in Files
  PROVE  Served(f \o MoleculeBlock)
<1> DEFINE b == MoleculeBlock
           w == f \o b
<1>1. /\ b \in Files /\ {3, 5} \subseteq DOMAIN b
      /\ b[3].kind = "[molecule]" /\ b[5].kind = "[molecule.env]"
  BY Molecule
<1> HIDE DEF b
<1>2. JoinOf(w, f, b)
  BY <1>1, Joined
<1> HIDE DEF w
<1>3. \A i \in {3, 5} : Len(f) + i \in DOMAIN w /\ w[Len(f) + i] = b[i]
  BY <1>1, <1>2 DEF JoinOf
<1> QED BY <1>1, <1>3 DEF Served, Holds, w, b

LEMMA SandboxServed ==
  ASSUME NEW f \in Files, Served(f)
  PROVE  Served(SandboxStripped(f))
<1> DEFINE s == SandboxStripped(f)
           S == SandboxKept(f)
<1>1. /\ s \in Files /\ Thinned(f, S, s) /\ Spares(f, S, SandboxTable, SandboxKinds)
      /\ S \in SUBSET (DOMAIN f)
  BY SandboxThins DEF SandboxKept
<1> HIDE DEF s, S
<1>2. ASSUME NEW k \in MoleculeHeaders, Holds(f, k) PROVE Holds(s, k)
  <2>1. PICK i \in DOMAIN f : f[i].kind = k
    BY <1>2 DEF Holds
  <2>2. Under(f, i, i) /\ i \in 1 .. i
    BY <2>1, OwnTable, KindsOfLines DEF IsHeader, Headers, MoleculeHeaders
  <2>3. f[i].kind \notin SandboxKinds /\ f[i].kind \notin SandboxTable
    BY <2>1 DEF MoleculeHeaders, SandboxKinds, SandboxTable
  <2>4. i \in S
    BY <1>1, <2>1, <2>2, <2>3 DEF Spares
  <2>5. \E l \in DOMAIN s : s[l] = f[i]
    BY <1>1, <2>4, ThinnedLines
  <2> QED BY <2>1, <2>5 DEF Holds
<1> QED BY <1>2 DEF Served, MoleculeHeaders, s

LEMMA PrependWires ==
  ASSUME NEW f \in Files, Served(f), ~Holds(f, "[sandbox_workspace_write]")
  PROVE  Wired(SandboxBlock \o f)
<1> DEFINE b == SandboxBlock
           c == b \o f
<1>1. /\ b \in Files /\ Len(b) = 3 /\ DOMAIN b = 1 .. 3
      /\ b[1].kind = "sandboxComment" /\ b[2].kind = "sandboxMode"
      /\ b[3].kind = "approvalPolicy"
  BY Sandbox
<1> HIDE DEF b
<1>2. JoinOf(c, b, f)
  BY <1>1, Joined
<1> HIDE DEF c
<1>3. /\ Len(c) = 3 + Len(f) /\ Len(f) \in Nat /\ DOMAIN c = 1 .. 3 + Len(f)
      /\ DOMAIN f = 1 .. Len(f)
      /\ \A i \in 1 .. 3 : c[i] = b[i]
      /\ \A k \in DOMAIN f : c[3 + k] = f[k]
      /\ \A i \in DOMAIN c : i \in 1 .. 3 \/ (i - 3 \in DOMAIN f /\ c[i] = f[i - 3])
  BY <1>1, <1>2 DEF JoinOf
<1>4. c[1].kind = "sandboxComment" /\ c[2].kind = "sandboxMode" /\ c[3].kind = "approvalPolicy"
  BY <1>1, <1>3
<1>5. ~Holds(c, "[sandbox_workspace_write]")
  <2> SUFFICES ASSUME NEW i \in DOMAIN c PROVE c[i].kind # "[sandbox_workspace_write]"
    BY DEF Holds
  <2>1. CASE i \in 1 .. 3
    BY <1>4, <2>1
  <2>2. CASE i - 3 \in DOMAIN f /\ c[i] = f[i - 3]
    BY <2>2 DEF Holds
  <2> QED BY <1>3, <2>1, <2>2
<1>6. ASSUME NEW k, Holds(f, k) PROVE Holds(c, k)
  <2>1. PICK i \in DOMAIN f : f[i].kind = k
    BY <1>6 DEF Holds
  <2>2. 3 + i \in DOMAIN c /\ c[3 + i] = f[i]
    BY <1>3
  <2> QED BY <2>1, <2>2 DEF Holds
<1>7. Len(c) >= 3
  BY <1>3
<1> QED BY <1>4, <1>5, <1>6, <1>7 DEF Wired, Served, c, b

LEMMA WiredJoined ==
  ASSUME NEW f \in Files, Wired(f), NEW g \in Files,
         \A i \in DOMAIN g : g[i].kind # "[sandbox_workspace_write]"
  PROVE  Wired(f \o g)
<1> DEFINE h == f \o g
<1>0. JoinOf(h, f, g)
  BY Joined
<1> HIDE DEF h
<1>1. /\ DOMAIN f = 1 .. Len(f) /\ Len(f) \in Nat /\ Len(g) \in Nat
      /\ Len(h) = Len(f) + Len(g) /\ DOMAIN h = 1 .. Len(h)
      /\ \A i \in DOMAIN f : h[i] = f[i]
      /\ \A i \in DOMAIN h :
            i \in DOMAIN f \/ (i - Len(f) \in DOMAIN g /\ h[i] = g[i - Len(f)])
  BY <1>0 DEF JoinOf
<1> HIDE DEF h
<1>2. Len(h) >= 3 /\ h[1] = f[1] /\ h[2] = f[2] /\ h[3] = f[3] /\ DOMAIN f \subseteq DOMAIN h
  BY <1>1 DEF Wired
<1>3. Holds(h, "[molecule]") /\ Holds(h, "[molecule.env]")
  BY <1>1, <1>2 DEF Wired, Holds
<1>4. ~Holds(h, "[sandbox_workspace_write]")
  BY <1>1 DEF Wired, Holds
<1> QED BY <1>2, <1>3, <1>4 DEF Wired, h

\* The first line stays the first.
LEMMA ThinnedHead ==
  ASSUME NEW n \in Nat, NEW S \in SUBSET (Nat \ {0}), NEW e, Lists(e, n, S), 1 \in S
  PROVE  1 \in 1 .. n /\ e[1] = 1
<1>1. PICK k \in 1 .. n : e[k] = 1
  BY DEF Lists
<1>2. 1 \in 1 .. n /\ k \in Nat
  BY <1>1
<1>3. e[1] \in Nat \ {0}
  BY <1>2 DEF Lists
<1>4. ~(1 < k)
  <2> SUFFICES ASSUME 1 < k PROVE FALSE
    OBVIOUS
  <2>1. e[1] < e[k]
    BY <1>1, <1>2 DEF Lists
  <2> QED BY <1>1, <1>3, <2>1
<1> QED BY <1>1, <1>2, <1>4

LEMMA WiredPlugin ==
  ASSUME NEW f \in Files, Whole(f), Wired(f), NEW x \in Plugins
  PROVE  Wired(PluginRendered(f, x))
<1>1. PICK S \in SUBSET (DOMAIN f), g \in Files :
             /\ PluginRendered(f, x) = g \o PluginBlock(x)
             /\ Thinned(f, S, g)
             /\ KeepsBlocks(f, S)
             /\ \A i \in DOMAIN f : i \notin S => f[i].kind \in PluginTaken
  BY PluginThins
<1>2. PICK e : /\ Lists(e, Len(g), S)
               /\ \A k \in 1 .. Len(g) : g[k] = f[e[k]]
  BY <1>1 DEF Thinned
<1>3. /\ DOMAIN f = 1 .. Len(f) /\ Len(f) \in Nat /\ Len(g) \in Nat
      /\ DOMAIN g = 1 .. Len(g)
  BY KindsOfLines
<1>4. {1, 2, 3} \subseteq S
  <2>1. {1, 2, 3} \subseteq DOMAIN f
    BY <1>3 DEF Wired
  <2>2. \A i \in {1, 2, 3} : f[i].kind \notin PluginTaken
    BY DEF Wired, PluginKinds, PluginTaken
  <2> QED BY <1>1, <2>1, <2>2
<1>5. S \in SUBSET Nat /\ S \in SUBSET (Nat \ {0})
  <2>1. \A i \in S : i \in 1 .. Len(f)
    BY <1>3
  <2> QED BY <1>3, <2>1
<1>6. 1 \in 1 .. Len(g) /\ e[1] = 1
  BY <1>2, <1>3, <1>4, <1>5, ThinnedHead
<1>a. \A k \in 1 .. Len(g) :
          e[k] + 1 \in S => k + 1 \in 1 .. Len(g) /\ e[k + 1] = e[k] + 1
  BY <1>2, <1>3, <1>5, ListedNeighbours
<1>7. 2 \in 1 .. Len(g) /\ e[2] = 2
  <2>1. 1 + 1 \in S /\ 1 + 1 = 2
    BY <1>4
  <2> QED BY <1>6, <1>a, <2>1
<1>8. 3 \in 1 .. Len(g) /\ e[3] = 3
  <2>1. 2 + 1 \in S /\ 2 + 1 = 3
    BY <1>4
  <2> QED BY <1>7, <1>a, <2>1
<1>9. Len(g) >= 3 /\ g[1] = f[1] /\ g[2] = f[2] /\ g[3] = f[3]
  <2>1. Len(g) >= 3
    BY <1>3, <1>8
  <2> QED BY <1>2, <1>6, <1>7, <1>8, <2>1
<1>10. ~Holds(g, "[sandbox_workspace_write]")
  <2>1. \A k \in DOMAIN g : \E i \in S : g[k] = f[i]
    BY <1>1, ThinnedLines
  <2> QED BY <2>1 DEF Wired, Holds
<1>11. ASSUME NEW k \in MoleculeHeaders, Holds(f, k) PROVE Holds(g, k)
  <2>1. PICK i \in DOMAIN f : f[i].kind = k
    BY <1>11 DEF Holds
  <2>2. i \in S
    BY <1>1, <2>1 DEF PluginKinds, PluginTaken, MoleculeHeaders
  <2> QED BY <1>1, <2>1, <2>2, ThinnedLines DEF Holds
<1>12. Wired(g)
  BY <1>9, <1>10, <1>11 DEF Wired, MoleculeHeaders
<1>13. \A i \in DOMAIN PluginBlock(x) : PluginBlock(x)[i].kind # "[sandbox_workspace_write]"
  BY Plugin
<1> QED BY <1>1, <1>12, <1>13, Plugin, WiredJoined

LEMMA WiredAuth ==
  ASSUME NEW f \in Files, Wired(f), NEW kind \in AuthKinds, NEW w, w = AuthKeyAdded(f, kind)
  PROVE  Wired(w)
<1> DEFINE l == Line(kind)
<1> HIDE DEF l
<1>1. w = f \/ (KeyAdded(w, f, l) /\ l.kind = kind)
  BY AuthAdds DEF l
<1>2. CASE KeyAdded(w, f, l) /\ l.kind = kind
  <2>1. \A i \in DOMAIN <<l>> : <<l>>[i].kind # "[sandbox_workspace_write]"
    BY <1>2 DEF KeyAdded, AuthKinds
  <2>2. <<l>> \in Files /\ w = f \o <<l>>
    BY <1>2 DEF KeyAdded
  <2> QED BY <2>1, <2>2, WiredJoined
<1> QED BY <1>1, <1>2

\* From codex_mcp_config.sh on the file is wired, unless a compatible
\* provider's block replaces it.
WiredInv ==
    /\ pc \in {"sandbox", "prepend"} => Served(toml)
    /\ pc \in {"auth", "login", "setup"} => Wired(toml)
    /\ pc \in {"plugins", "up"} /\ Picked(env) \in {"builtin", "skips"} => Wired(toml)

LEMMA WiredStep ==
  ASSUME FileInv, ClearedInv, WiredInv, [Next]_vars
  PROVE  WiredInv'
<1> USE DEF FileInv, WiredInv
<1>1. CASE Boot
  BY <1>1 DEF Boot
<1>2. CASE RenderProvider
  BY <1>2 DEF RenderProvider, Step
<1>3. CASE StripMolecule
  BY <1>3 DEF StripMolecule, Step
<1>4. CASE AppendMolecule
  BY <1>4, MoleculeServed DEF AppendMolecule, Step
<1>11. CASE StripSandbox
  BY <1>11, SandboxServed DEF StripSandbox, Step
<1>12. CASE PrependSandbox
  <2>1. pc = "prepend" /\ pc' = "auth" /\ toml' = SandboxBlock \o toml
    BY <1>12 DEF PrependSandbox, Step
  <2>2. ~Holds(toml, "[sandbox_workspace_write]")
    BY <2>1 DEF ClearedInv, Holds, SandboxTable
  <2> QED BY <2>1, <2>2, PrependWires
<1>13. CASE AuthStoreKey
  BY <1>13, WiredAuth DEF AuthStoreKey, Step, AuthKinds
<1>14. CASE LoginMethodKey
  BY <1>14, WiredAuth DEF LoginMethodKey, Step, AuthKinds
<1>5. CASE Setup
  <2>1. /\ pc = "setup" /\ pc' = "plugins" /\ env' = env
        /\ toml' = Rendered(toml, Picked(env))
    BY <1>5 DEF Setup, Step
  <2>2. Picked(env) = "builtin" => toml' = toml
    BY <2>1 DEF Rendered, Wired
  <2>3. Picked(env) # "skips"
    BY <1>5, ConfigAssumption DEF Setup, Picked, Envs
  <2> QED BY <2>1, <2>2, <2>3
<1>6. CASE SetupRaises
  BY <1>6 DEF SetupRaises, Step
<1>15. CASE SetupSkips
  BY <1>15 DEF SetupSkips, Step
<1>7. ASSUME NEW x \in Plugins, RegisterMcpServer(x) PROVE WiredInv'
  BY <1>7, WiredPlugin DEF RegisterMcpServer, Step
<1>8. CASE Ready
  BY <1>8 DEF Ready
<1>9. CASE Restart
  BY <1>9 DEF Restart
<1>10. CASE UNCHANGED vars
  BY <1>10 DEF vars
<1> QED
  BY <1>1, <1>2, <1>3, <1>4, <1>5, <1>6, <1>7, <1>8, <1>9, <1>10, <1>11, <1>12, <1>13,
     <1>14, <1>15
     DEF Next, BootStep

\* A workspace that setup() gives a built-in provider, or none because it cannot
\* resolve one, never runs with the CLI's inner sandbox on or without its molecule
\* server, whatever the file held before, whatever ran in start.sh and whichever
\* plugins setup() registers.
THEOREM BuiltinIsReady == Spec => [](Picked(env) \in {"builtin", "skips"} => RuntimeReady)
<1>1. Init => WiredInv
  BY DEF Init, WiredInv
<1>2. Spec => []WiredInv
  BY <1>1, WiredStep, PluginBlocksWhole, Cleared, PTL DEF Spec
<1>3. FileInv /\ WiredInv => (Picked(env) \in {"builtin", "skips"} => RuntimeReady)
  BY WiredIsReady DEF FileInv, WiredInv, RuntimeReady, Running
<1> QED BY <1>2, <1>3, PluginBlocksWhole, PTL

-----------------------------------------------------------------------------
(* Part 5: nothing is defined twice, but plugins.                          *)

Single == (Headers \cup Keys) \ (IF Plugins = {} THEN {} ELSE {"[plugin]"})

Distinct(f) ==
    \A i, j \in DOMAIN f : i < j /\ f[i].kind \in Single => f[i].kind # f[j].kind

LEMMA DistinctThinned ==
  ASSUME NEW f \in Files, Distinct(f), NEW S \in SUBSET (DOMAIN f),
         NEW g \in Files, Thinned(f, S, g)
  PROVE  Distinct(g)
<1> SUFFICES ASSUME NEW k \in DOMAIN g, NEW l \in DOMAIN g, k < l, g[k].kind \in Single
             PROVE  g[k].kind # g[l].kind
  BY DEF Distinct
<1>1. PICK i, j \in S : i < j /\ g[k] = f[i] /\ g[l] = f[j]
  BY ThinnedOrder
<1> QED BY <1>1 DEF Distinct

LEMMA DistinctJoined ==
  ASSUME NEW f \in Files, Distinct(f), NEW g \in Files, Distinct(g),
         \A i \in DOMAIN f, j \in DOMAIN g : f[i].kind \in Single => f[i].kind # g[j].kind
  PROVE  Distinct(f \o g)
<1> DEFINE h == f \o g
<1> SUFFICES ASSUME NEW i \in DOMAIN h, NEW j \in DOMAIN h, i < j, h[i].kind \in Single
             PROVE  h[i].kind # h[j].kind
  BY DEF Distinct
<1>0. JoinOf(h, f, g)
  BY Joined
<1> HIDE DEF h
<1>1. /\ DOMAIN f = 1 .. Len(f) /\ Len(f) \in Nat /\ DOMAIN g = 1 .. Len(g) /\ Len(g) \in Nat
      /\ DOMAIN h = 1 .. Len(f) + Len(g)
      /\ \A k \in DOMAIN f : h[k] = f[k]
      /\ \A k \in DOMAIN h :
            \/ k \in DOMAIN f
            \/ k > Len(f) /\ k - Len(f) \in DOMAIN g /\ h[k] = g[k - Len(f)]
  BY <1>0 DEF JoinOf
<1> HIDE DEF h
<1>2. CASE i \in DOMAIN f /\ j \in DOMAIN f
  BY <1>1, <1>2 DEF Distinct
<1>3. CASE i \in DOMAIN f /\ j \notin DOMAIN f
  BY <1>1, <1>3
<1>4. CASE i \notin DOMAIN f
  <2>1. j \notin DOMAIN f /\ i \in Nat /\ j \in Nat
    BY <1>1, <1>4
  <2>2. /\ i - Len(f) \in DOMAIN g /\ h[i] = g[i - Len(f)]
        /\ j - Len(f) \in DOMAIN g /\ h[j] = g[j - Len(f)]
        /\ i - Len(f) < j - Len(f)
    BY <1>1, <1>4, <2>1
  <2> QED BY <2>2 DEF Distinct
<1> QED BY <1>2, <1>3, <1>4

LEMMA BlocksDistinct ==
  /\ Distinct(<<>>) /\ Distinct(SandboxBlock) /\ Distinct(MoleculeBlock) /\ Distinct(HandBlock)
  /\ \A s \in Slugs : Distinct(ProviderBlock(s)) /\ Distinct(ShellBlock(s))
  /\ \A x \in Plugins : Distinct(PluginBlock(x))
<1>1. Distinct(<<>>)
  BY DEF Distinct
<1>2. Distinct(SandboxBlock)
  BY Sandbox DEF Distinct
<1>3. Distinct(MoleculeBlock)
  BY Molecule DEF Distinct
<1>4. Distinct(HandBlock)
  BY Hand DEF Distinct
<1>5. ASSUME NEW s \in Slugs PROVE Distinct(ProviderBlock(s)) /\ Distinct(ShellBlock(s))
  <2>1. ASSUME NEW b \in {ProviderBlock(s), ShellBlock(s)} PROVE Distinct(b)
    <3>1. /\ DOMAIN b = 1 .. 4
          /\ b[1].kind \in {"providerComment", "shellComment"}
          /\ b[2].kind = "modelProvider" /\ b[3].kind = "[provider]"
          /\ b[4].kind = "providerKeys"
      BY Provider
    <3> QED BY <3>1 DEF Distinct
  <2> QED BY <2>1
<1>6. ASSUME NEW x \in Plugins PROVE Distinct(PluginBlock(x))
  BY Plugin DEF Distinct
<1> QED BY <1>1, <1>2, <1>3, <1>4, <1>5, <1>6

LEMMA DistinctRendered ==
  ASSUME NEW f \in Files, Distinct(f), NEW p \in Slugs
  PROVE  Distinct(Rendered(f, p))
  BY BlocksDistinct DEF Rendered

LEMMA DistinctStart ==
  ASSUME NEW f \in Files, Distinct(f), NEW e \in Envs
  PROVE  Distinct(StartRendered(f, e))
<1>1. e.start \in Slugs
  BY DEF Envs, Slugs
<1> QED BY <1>1, BlocksDistinct, DistinctRendered DEF StartRendered, ShellRendered

LEMMA DistinctMolecule ==
  ASSUME NEW f \in Files, Distinct(f)
  PROVE  /\ Distinct(MoleculeStripped(f))
         /\ (\A k \in DOMAIN f : f[k].kind \notin MoleculeHeaders) => Distinct(f \o MoleculeBlock)
<1>1. /\ Thinned(f, MoleculeKept(f), MoleculeStripped(f)) /\ MoleculeStripped(f) \in Files
      /\ MoleculeKept(f) \in SUBSET (DOMAIN f)
  BY MoleculeThins DEF MoleculeKept
<1>2. Distinct(MoleculeStripped(f))
  BY <1>1, DistinctThinned
<1>3. \A j \in DOMAIN MoleculeBlock :
          MoleculeBlock[j].kind \in MoleculeHeaders \/ MoleculeBlock[j].kind \notin Single
  BY Molecule DEF MoleculeHeaders, Single, Headers, Keys
<1> QED BY <1>2, <1>3, Molecule, BlocksDistinct, DistinctJoined

LEMMA DistinctSandbox ==
  ASSUME NEW f \in Files, Distinct(f)
  PROVE  /\ Distinct(SandboxStripped(f))
         /\ (\A k \in DOMAIN f : f[k].kind \notin SandboxKinds) => Distinct(SandboxBlock \o f)
<1>1. /\ Thinned(f, SandboxKept(f), SandboxStripped(f)) /\ SandboxStripped(f) \in Files
      /\ SandboxKept(f) \in SUBSET (DOMAIN f)
  BY SandboxThins DEF SandboxKept
<1>2. Distinct(SandboxStripped(f))
  BY <1>1, DistinctThinned
<1>3. \A i \in DOMAIN SandboxBlock : SandboxBlock[i].kind \in SandboxKinds
  BY Sandbox DEF SandboxKinds
<1> QED BY <1>2, <1>3, Sandbox, BlocksDistinct, DistinctJoined

LEMMA DistinctAuth ==
  ASSUME NEW f \in Files, Distinct(f), NEW kind \in AuthKinds, NEW w, w = AuthKeyAdded(f, kind)
  PROVE  Distinct(w)
<1> DEFINE l == Line(kind)
<1> HIDE DEF l
<1>1. w = f \/ (KeyAdded(w, f, l) /\ l.kind = kind)
  BY AuthAdds DEF l
<1>2. CASE KeyAdded(w, f, l) /\ l.kind = kind
  <2>1. \A i \in DOMAIN f, j \in DOMAIN <<l>> : f[i].kind # <<l>>[j].kind
    BY <1>2 DEF KeyAdded, Holds
  <2>2. Distinct(<<l>>)
    BY <1>2 DEF KeyAdded, Distinct
  <2>3. <<l>> \in Files /\ w = f \o <<l>>
    BY <1>2 DEF KeyAdded
  <2> QED BY <2>1, <2>2, <2>3, DistinctJoined
<1> QED BY <1>1, <1>2

LEMMA DistinctPlugin ==
  ASSUME NEW f \in Files, Whole(f), Distinct(f), NEW x \in Plugins
  PROVE  Distinct(PluginRendered(f, x))
<1>1. PICK S \in SUBSET (DOMAIN f), g \in Files :
             PluginRendered(f, x) = g \o PluginBlock(x) /\ Thinned(f, S, g)
  BY PluginThins
<1>2. Distinct(g)
  BY <1>1, DistinctThinned
<1>3. \A j \in DOMAIN PluginBlock(x) : PluginBlock(x)[j].kind \notin Single
  BY Plugin DEF Single, Headers, Keys
<1> QED BY <1>1, <1>2, <1>3, Plugin, BlocksDistinct, DistinctJoined

LEMMA DistinctStep ==
  ASSUME FileInv, ClearedInv, Distinct(toml), [Next]_vars
  PROVE  Distinct(toml)'
<1> SUFFICES Distinct(toml')
  OBVIOUS
<1> USE DEF FileInv
<1>1. CASE Boot
  BY <1>1 DEF Boot
<1>2. CASE RenderProvider
  BY <1>2, DistinctStart DEF RenderProvider, Step
<1>3. CASE StripMolecule
  BY <1>3, DistinctMolecule DEF StripMolecule, Step
<1>4. CASE AppendMolecule
  BY <1>4, DistinctMolecule DEF AppendMolecule, Step, ClearedInv
<1>11. CASE StripSandbox
  BY <1>11, DistinctSandbox DEF StripSandbox, Step
<1>12. CASE PrependSandbox
  BY <1>12, DistinctSandbox DEF PrependSandbox, Step, ClearedInv
<1>13. CASE AuthStoreKey
  BY <1>13, DistinctAuth DEF AuthStoreKey, Step, AuthKinds
<1>14. CASE LoginMethodKey
  BY <1>14, DistinctAuth DEF LoginMethodKey, Step, AuthKinds
<1>5. CASE Setup
  BY <1>5, DistinctRendered, PickedSlug DEF Setup, Step
<1>6. CASE SetupRaises
  BY <1>6 DEF SetupRaises, Step
<1>15. CASE SetupSkips
  BY <1>15 DEF SetupSkips, Step
<1>7. ASSUME NEW x \in Plugins, RegisterMcpServer(x) PROVE Distinct(toml')
  BY <1>7, DistinctPlugin DEF RegisterMcpServer, Step
<1>8. CASE Ready
  BY <1>8 DEF Ready
<1>9. CASE Restart
  BY <1>9 DEF Restart
<1>10. CASE UNCHANGED vars
  BY <1>10 DEF vars
<1> QED
  BY <1>1, <1>2, <1>3, <1>4, <1>5, <1>6, <1>7, <1>8, <1>9, <1>10, <1>11, <1>12, <1>13,
     <1>14, <1>15
     DEF Next, BootStep

\* The programs never define a table or a key twice, each however often it runs
\* and wherever a boot was cut short; with plugins, only their tables repeat.
THEOREM OnlyPluginsRepeat == Spec => []Distinct(toml)
<1>1. Init => Distinct(toml)
  BY BlocksDistinct DEF Init
<1> QED BY <1>1, DistinctStep, PluginBlocksWhole, Cleared, PTL DEF Spec

\* Without plugins config.toml parses after every step of every boot.
THEOREM ParsesWithoutPlugins ==
  ASSUME Plugins = {}
  PROVE  Spec => []Parses
<1>1. FileInv /\ Distinct(toml) => Parses
  <2>1. Headers \cup Keys = Single
    BY DEF Single
  <2>2. ASSUME Distinct(toml), NEW i \in DOMAIN toml, NEW j \in DOMAIN toml, i < j,
               toml[i].kind \in Headers \cup Keys
        PROVE  toml[i].kind # toml[j].kind
    BY <2>1, <2>2 DEF Distinct
  <2> QED BY <2>2 DEF Parses, IsHeader
<1> QED BY <1>1, OnlyPluginsRepeat, PluginBlocksWhole, PTL

-----------------------------------------------------------------------------
(* Part 6: what a person wrote.                                            *)

\* The three lines that make up HandEditsKept.
HandAt(f, i, h, j) ==
    /\ f[i].kind = "handKey" /\ Headless(f, i)
    /\ f[h].kind = "[hand]"
    /\ f[j].kind = "handEntry" /\ Under(f, h, j)

HandLines(f) == \E i, h, j \in DOMAIN f : HandAt(f, i, h, j)

LEMMA HandThinned ==
  ASSUME NEW f \in Files, NEW S \in SUBSET (DOMAIN f), NEW g \in Files, Thinned(f, S, g),
         NEW i \in S, NEW h \in S, NEW j \in S, HandAt(f, i, h, j)
  PROVE  HandLines(g)
<1>1. /\ DOMAIN f = 1 .. Len(f) /\ Len(f) \in Nat
      /\ DOMAIN g = 1 .. Len(g) /\ Len(g) \in Nat
  BY KindsOfLines
<1>2. PICK e : /\ Lists(e, Len(g), S)
               /\ \A k \in 1 .. Len(g) : g[k] = f[e[k]]
  BY DEF Thinned
<1>3. \A k \in S : k \in 1 .. Len(f)
  BY <1>1
<1>4. /\ \A k \in 1 .. Len(g) : e[k] \in 1 .. Len(f)
      /\ \A k, l \in 1 .. Len(g) : k < l => e[k] < e[l]
  BY <1>2, <1>3 DEF Lists
<1>5. PICK a \in 1 .. Len(g), b \in 1 .. Len(g), c \in 1 .. Len(g) :
          e[a] = i /\ e[b] = h /\ e[c] = j
  BY <1>2 DEF Lists
<1>6. g[a] = f[i] /\ g[b] = f[h] /\ g[c] = f[j]
  BY <1>2, <1>5
<1>7. Headless(g, a)
  <2> SUFFICES ASSUME NEW k \in 1 .. a PROVE ~IsHeader(g, k)
    BY DEF Headless
  <2>1. k \in 1 .. Len(g) /\ (k < a \/ k = a)
    BY <1>1
  <2>2. e[k] \in 1 .. i
    BY <1>1, <1>3, <1>4, <1>5, <2>1
  <2>3. ~IsHeader(f, e[k])
    BY <2>2 DEF HandAt, Headless
  <2> QED BY <1>2, <2>1, <2>3 DEF IsHeader
<1>8. Under(g, b, c)
  <2>0. i \in Nat /\ h \in Nat /\ j \in Nat /\ h <= j
    BY <1>1, <1>3 DEF HandAt, Under
  <2>1. b \in 1 .. c
    <3>1. ~(c < b)
      <4> SUFFICES ASSUME c < b PROVE FALSE
        OBVIOUS
      <4>1. e[c] < e[b]
        BY <1>4
      <4> QED BY <1>5, <2>0, <4>1
    <3> QED BY <1>1, <3>1
  <2>2. IsHeader(g, b)
    BY <1>6 DEF HandAt, IsHeader, Headers
  <2>3. ASSUME NEW k \in b + 1 .. c PROVE ~IsHeader(g, k)
    <3>1. k \in 1 .. Len(g) /\ b < k /\ (k < c \/ k = c)
      BY <1>1
    <3>2. e[b] < e[k] /\ (e[k] < e[c] \/ e[k] = e[c]) /\ e[k] \in 1 .. Len(f)
      BY <1>4, <3>1
    <3>3. e[k] \in h + 1 .. j
      BY <1>1, <1>5, <2>0, <3>2
    <3>4. ~IsHeader(f, e[k])
      BY <3>3 DEF HandAt, Under
    <3> QED BY <1>2, <3>1, <3>4 DEF IsHeader
  <2> QED BY <2>1, <2>2, <2>3 DEF Under
<1>9. HandAt(g, a, b, c)
  BY <1>6, <1>7, <1>8 DEF HandAt
<1> QED BY <1>1, <1>9 DEF HandLines

LEMMA HandSpared ==
  ASSUME NEW f \in Files, HandLines(f), NEW S \in SUBSET (DOMAIN f), NEW H, NEW C,
         Spares(f, S, H, C), "[hand]" \notin H, {"handKey", "[hand]", "handEntry"} \cap C = {},
         NEW g \in Files, Thinned(f, S, g)
  PROVE  HandLines(g)
<1>1. PICK i \in DOMAIN f, h \in DOMAIN f, j \in DOMAIN f : HandAt(f, i, h, j)
  BY DEF HandLines
<1>2. i \in S
  BY <1>1 DEF HandAt, Spares
<1>3. h \in S
  <2>1. Under(f, h, h) /\ h \in 1 .. h
    BY <1>1, OwnTable DEF HandAt, IsHeader, Headers, Under
  <2> QED BY <1>1, <2>1 DEF HandAt, Spares
<1>4. j \in S
  <2>1. Under(f, h, j) /\ h \in 1 .. j
    BY <1>1 DEF HandAt, Under
  <2> QED BY <1>1, <2>1 DEF HandAt, Spares
<1> QED BY <1>1, <1>2, <1>3, <1>4, HandThinned

LEMMA HandAppended ==
  ASSUME NEW f \in Files, HandLines(f), NEW g \in Files
  PROVE  HandLines(f \o g)
<1> DEFINE w == f \o g
<1>1. PICK i \in DOMAIN f, h \in DOMAIN f, j \in DOMAIN f : HandAt(f, i, h, j)
  BY DEF HandLines
<1>0. JoinOf(w, f, g)
  BY Joined
<1> HIDE DEF w
<1>2. /\ DOMAIN f = 1 .. Len(f) /\ Len(f) \in Nat /\ Len(g) \in Nat
      /\ DOMAIN w = 1 .. Len(f) + Len(g)
      /\ \A k \in DOMAIN f : w[k] = f[k]
  BY <1>0 DEF JoinOf
<1> HIDE DEF w
<1>3. \A k \in 1 .. Len(f) : IsHeader(w, k) <=> IsHeader(f, k)
  BY <1>2 DEF IsHeader
<1>4. Headless(w, i)
  <2>1. \A k \in 1 .. i : k \in 1 .. Len(f)
    BY <1>2
  <2> QED BY <1>1, <1>3, <2>1 DEF HandAt, Headless
<1>5. Under(w, h, j)
  <2>1. h \in 1 .. Len(f) /\ \A k \in h + 1 .. j : k \in 1 .. Len(f)
    BY <1>2
  <2> QED BY <1>1, <1>3, <2>1 DEF HandAt, Under
<1>6. HandAt(w, i, h, j)
  BY <1>1, <1>2, <1>4, <1>5 DEF HandAt
<1>7. i \in DOMAIN w /\ h \in DOMAIN w /\ j \in DOMAIN w
  BY <1>2
<1> QED BY <1>6, <1>7 DEF HandLines, w

LEMMA HandPrefixed ==
  ASSUME NEW f \in Files, HandLines(f), NEW g \in Files, \A k \in DOMAIN g : ~IsHeader(g, k)
  PROVE  HandLines(g \o f)
<1> DEFINE w == g \o f
           n == Len(g)
<1>1. PICK i \in DOMAIN f, h \in DOMAIN f, j \in DOMAIN f : HandAt(f, i, h, j)
  BY DEF HandLines
<1>0. JoinOf(w, g, f)
  BY Joined
<1> HIDE DEF w
<1>2. /\ DOMAIN f = 1 .. Len(f) /\ Len(f) \in Nat
      /\ DOMAIN g = 1 .. n /\ n \in Nat
      /\ DOMAIN w = 1 .. n + Len(f)
      /\ \A k \in DOMAIN g : w[k] = g[k]
      /\ \A k \in DOMAIN f : w[n + k] = f[k]
  BY <1>0 DEF JoinOf
<1> HIDE DEF w, n
<1>3. i \in Nat /\ h \in Nat /\ j \in Nat /\ h \in 1 .. j
  BY <1>1, <1>2 DEF HandAt, Under
<1>4. \A k \in 1 .. n + i : ~IsHeader(w, k)
  <2> SUFFICES ASSUME NEW k \in 1 .. n + i PROVE ~IsHeader(w, k)
    OBVIOUS
  <2>1. CASE k \in 1 .. n
    BY <1>2, <2>1 DEF IsHeader
  <2>2. CASE k \notin 1 .. n
    <3>1. k - n \in 1 .. i /\ k - n \in DOMAIN f /\ n + (k - n) = k
      BY <1>2, <1>3, <2>2
    <3>2. ~IsHeader(f, k - n)
      BY <1>1, <3>1 DEF HandAt, Headless
    <3>3. w[k] = f[k - n]
      BY <1>2, <3>1
    <3> QED BY <3>2, <3>3 DEF IsHeader
  <2> QED BY <2>1, <2>2
<1>5. Under(w, n + h, n + j)
  <2>1. n + h \in 1 .. n + j
    BY <1>2, <1>3
  <2>2. IsHeader(w, n + h)
    BY <1>1, <1>2 DEF HandAt, IsHeader, Headers
  <2>3. ASSUME NEW k \in (n + h) + 1 .. n + j PROVE ~IsHeader(w, k)
    <3>1. k - n \in h + 1 .. j /\ k - n \in DOMAIN f /\ n + (k - n) = k
      BY <1>2, <1>3
    <3>2. ~IsHeader(f, k - n)
      BY <1>1, <3>1 DEF HandAt, Under
    <3>3. w[k] = f[k - n]
      BY <1>2, <3>1
    <3> QED BY <3>2, <3>3 DEF IsHeader
  <2> QED BY <2>1, <2>2, <2>3 DEF Under
<1>6. HandAt(w, n + i, n + h, n + j)
  <2>1. w[n + i] = f[i] /\ w[n + h] = f[h] /\ w[n + j] = f[j]
    BY <1>2
  <2> QED BY <1>1, <1>4, <1>5, <2>1 DEF HandAt, Headless
<1>7. n + i \in DOMAIN w /\ n + h \in DOMAIN w /\ n + j \in DOMAIN w
  BY <1>2, <1>3
<1> QED BY <1>6, <1>7 DEF HandLines, w

LEMMA HandMolecule ==
  ASSUME NEW f \in Files, HandLines(f)
  PROVE  HandLines(MoleculeStripped(f)) /\ HandLines(f \o MoleculeBlock)
<1>1. HandLines(MoleculeStripped(f))
  <2>1. "[hand]" \notin MoleculeHeaders
        /\ {"handKey", "[hand]", "handEntry"} \cap MoleculeComments = {}
    BY DEF MoleculeHeaders, MoleculeComments
  <2>2. /\ Thinned(f, MoleculeKept(f), MoleculeStripped(f))
        /\ MoleculeStripped(f) \in Files
        /\ Spares(f, MoleculeKept(f), MoleculeHeaders, MoleculeComments)
        /\ MoleculeKept(f) \in SUBSET (DOMAIN f)
    BY MoleculeThins DEF MoleculeKept
  <2> QED BY <2>1, <2>2, HandSpared
<1> QED BY <1>1, Molecule, HandAppended

LEMMA HandSandbox ==
  ASSUME NEW f \in Files, HandLines(f)
  PROVE  HandLines(SandboxStripped(f)) /\ HandLines(SandboxBlock \o f)
<1>1. HandLines(SandboxStripped(f))
  <2>1. "[hand]" \notin SandboxTable
        /\ {"handKey", "[hand]", "handEntry"} \cap SandboxKinds = {}
    BY DEF SandboxTable, SandboxKinds
  <2>2. /\ Thinned(f, SandboxKept(f), SandboxStripped(f))
        /\ SandboxStripped(f) \in Files
        /\ Spares(f, SandboxKept(f), SandboxTable, SandboxKinds)
        /\ SandboxKept(f) \in SUBSET (DOMAIN f)
    BY SandboxThins DEF SandboxKept
  <2> QED BY <2>1, <2>2, HandSpared
<1>2. \A k \in DOMAIN SandboxBlock : ~IsHeader(SandboxBlock, k)
  BY Sandbox DEF IsHeader, Headers
<1> QED BY <1>1, <1>2, Sandbox, HandPrefixed

LEMMA HandAuth ==
  ASSUME NEW f \in Files, HandLines(f), NEW kind \in AuthKinds, NEW w,
         w = AuthKeyAdded(f, kind)
  PROVE  HandLines(w)
<1> DEFINE l == Line(kind)
<1> HIDE DEF l
<1>1. w = f \/ (KeyAdded(w, f, l) /\ l.kind = kind)
  BY AuthAdds DEF l
<1>2. KeyAdded(w, f, l) => <<l>> \in Files /\ w = f \o <<l>>
  BY DEF KeyAdded
<1> QED BY <1>1, <1>2, HandAppended

LEMMA HandPlugin ==
  ASSUME NEW f \in Files, Whole(f), HandLines(f), NEW x \in Plugins
  PROVE  HandLines(PluginRendered(f, x))
<1>1. PICK S \in SUBSET (DOMAIN f), g \in Files :
             /\ PluginRendered(f, x) = g \o PluginBlock(x)
             /\ Thinned(f, S, g)
             /\ \A i \in DOMAIN f : i \notin S => f[i].kind \in PluginTaken
  BY PluginThins
<1>2. PICK i \in DOMAIN f, h \in DOMAIN f, j \in DOMAIN f : HandAt(f, i, h, j)
  BY DEF HandLines
<1>3. i \in S /\ h \in S /\ j \in S
  BY <1>1, <1>2 DEF HandAt, PluginKinds, PluginTaken
<1>4. HandLines(g)
  BY <1>1, <1>2, <1>3, HandThinned
<1> QED BY <1>1, <1>4, Plugin, HandAppended

\* Neither program picks a compatible provider.
BuiltinBoot(e) ==
    e.start = "builtin" /\ (e.setup \in {"raises", "skips"} \/ Picked(e) = "builtin")

ProviderKinds == {"providerComment", "modelProvider"}

\* Only the renderers write a provider's lines.
LEMMA NotJoined ==
  ASSUME NEW f \in Files, NEW g \in Files, NEW k, ~Holds(f, k), ~Holds(g, k)
  PROVE  ~Holds(f \o g, k)
<1> DEFINE w == f \o g
<1>1. JoinOf(w, f, g)
  BY Joined
<1> HIDE DEF w
<1>2. \A i \in DOMAIN w :
          \/ i \in DOMAIN f /\ w[i] = f[i]
          \/ i - Len(f) \in DOMAIN g /\ w[i] = g[i - Len(f)]
  BY <1>1 DEF JoinOf
<1>3. ~Holds(w, k)
  BY <1>2 DEF Holds
<1> QED BY <1>3 DEF w

LEMMA NotThinned ==
  ASSUME NEW f \in Files, NEW S \in SUBSET (DOMAIN f), NEW g \in Files, Thinned(f, S, g),
         NEW k, ~Holds(f, k)
  PROVE  ~Holds(g, k)
<1>1. \A i \in DOMAIN g : \E j \in S : g[i] = f[j]
  BY ThinnedLines
<1> QED BY <1>1 DEF Holds

LEMMA NotMcp ==
  ASSUME NEW f \in Files, NEW k \in ProviderKinds, ~Holds(f, k)
  PROVE  /\ ~Holds(MoleculeStripped(f), k) /\ ~Holds(f \o MoleculeBlock, k)
         /\ ~Holds(SandboxStripped(f), k) /\ ~Holds(SandboxBlock \o f, k)
<1>1. ~Holds(MoleculeStripped(f), k)
  BY MoleculeThins, NotThinned DEF MoleculeKept
<1>2. ~Holds(SandboxStripped(f), k)
  BY SandboxThins, NotThinned DEF SandboxKept
<1>3. ~Holds(MoleculeBlock, k) /\ ~Holds(SandboxBlock, k)
  BY Molecule, Sandbox DEF Holds, ProviderKinds
<1>4. ~Holds(f \o MoleculeBlock, k) /\ ~Holds(SandboxBlock \o f, k)
  BY <1>3, Molecule, Sandbox, NotJoined
<1> QED BY <1>1, <1>2, <1>4

LEMMA NotAuth ==
  ASSUME NEW f \in Files, NEW k \in ProviderKinds, ~Holds(f, k), NEW kind \in AuthKinds,
         NEW w, w = AuthKeyAdded(f, kind)
  PROVE  ~Holds(w, k)
<1> DEFINE l == Line(kind)
<1> HIDE DEF l
<1>1. w = f \/ (KeyAdded(w, f, l) /\ l.kind = kind)
  BY AuthAdds DEF l
<1>2. CASE KeyAdded(w, f, l) /\ l.kind = kind
  <2>1. ~Holds(<<l>>, k)
    BY <1>2 DEF KeyAdded, Holds, AuthKinds, ProviderKinds
  <2>2. <<l>> \in Files /\ w = f \o <<l>>
    BY <1>2 DEF KeyAdded
  <2> QED BY <2>1, <2>2, NotJoined
<1> QED BY <1>1, <1>2

LEMMA NotPlugin ==
  ASSUME NEW f \in Files, Whole(f), NEW x \in Plugins, NEW k \in ProviderKinds, ~Holds(f, k)
  PROVE  ~Holds(PluginRendered(f, x), k)
<1>1. PICK S \in SUBSET (DOMAIN f), g \in Files :
             PluginRendered(f, x) = g \o PluginBlock(x) /\ Thinned(f, S, g)
  BY PluginThins
<1>2. ~Holds(g, k)
  BY <1>1, NotThinned
<1>3. ~Holds(PluginBlock(x), k)
  BY Plugin DEF Holds, ProviderKinds
<1> QED BY <1>1, <1>2, <1>3, Plugin, NotJoined

\* A built-in pick only takes away a file that the renderer's comment begins,
\* and no boot of a built-in provider writes that comment.
HandInv == HandEdited => HandLines(toml) /\ ~Holds(toml, "providerComment")

LEMMA HandStep ==
  ASSUME FileInv, HandInv, BuiltinBoot(env), [Next]_vars
  PROVE  HandInv'
<1> SUFFICES ASSUME HandEdited, HandLines(toml), ~Holds(toml, "providerComment")
             PROVE  HandLines(toml') /\ ~Holds(toml', "providerComment")
  BY DEF HandInv
<1> USE DEF FileInv
<1>0. "providerComment" \in ProviderKinds
  BY DEF ProviderKinds
<1>1. CASE Boot
  BY <1>1 DEF Boot
<1>2. CASE RenderProvider
  <2>1. toml' = StartRendered(toml, env) /\ env.start = "builtin"
    BY <1>2 DEF RenderProvider, Step, BuiltinBoot
  <2>2. Rendered(toml, "builtin") = toml
    BY DEF Rendered, Holds, Files
  <2>3. toml' = toml
    BY <2>1, <2>2 DEF StartRendered, ShellRendered
  <2> QED BY <2>3
<1>3. CASE StripMolecule
  BY <1>0, <1>3, HandMolecule, NotMcp DEF StripMolecule, Step
<1>4. CASE AppendMolecule
  BY <1>0, <1>4, HandMolecule, NotMcp DEF AppendMolecule, Step
<1>11. CASE StripSandbox
  BY <1>0, <1>11, HandSandbox, NotMcp DEF StripSandbox, Step
<1>12. CASE PrependSandbox
  BY <1>0, <1>12, HandSandbox, NotMcp DEF PrependSandbox, Step
<1>13. CASE AuthStoreKey
  BY <1>0, <1>13, HandAuth, NotAuth DEF AuthStoreKey, Step, AuthKinds
<1>14. CASE LoginMethodKey
  BY <1>0, <1>14, HandAuth, NotAuth DEF LoginMethodKey, Step, AuthKinds
<1>5. CASE Setup
  <2>1. toml' = Rendered(toml, Picked(env)) /\ Picked(env) = "builtin"
    BY <1>5 DEF Setup, Step, BuiltinBoot
  <2>2. Rendered(toml, "builtin") = toml
    BY DEF Rendered, Holds, Files
  <2> QED BY <2>1, <2>2
<1>6. CASE SetupRaises
  BY <1>6 DEF SetupRaises, Step
<1>15. CASE SetupSkips
  BY <1>15 DEF SetupSkips, Step
<1>7. ASSUME NEW x \in Plugins, RegisterMcpServer(x)
      PROVE  HandLines(toml') /\ ~Holds(toml', "providerComment")
  BY <1>0, <1>7, HandPlugin, NotPlugin DEF RegisterMcpServer, Step
<1>8. CASE Ready
  BY <1>8 DEF Ready
<1>9. CASE Restart
  BY <1>9 DEF Restart
<1>10. CASE UNCHANGED vars
  BY <1>10 DEF vars
<1> QED
  BY <1>1, <1>2, <1>3, <1>4, <1>5, <1>6, <1>7, <1>8, <1>9, <1>10, <1>11, <1>12, <1>13,
     <1>14, <1>15
     DEF Next, BootStep

\* As long as every boot is one of a built-in provider, what a person wrote
\* stays in the file, the key at the top level and the entry in its table, with
\* any plugins and wherever boots are cut short.
THEOREM HandEditsSurvive == Spec /\ []BuiltinBoot(env) => []HandEditsKept
<1>1. Init => HandInv
  <2>1. HandEdited /\ Init => toml = HandBlock
    BY DEF Init
  <2>2. ~IsHeader(HandBlock, 1) /\ IsHeader(HandBlock, 4) /\ ~IsHeader(HandBlock, 5)
    BY Hand DEF IsHeader, Headers
  <2>3. Headless(HandBlock, 1) /\ Under(HandBlock, 4, 5)
    BY <2>2 DEF Headless, Under
  <2>4. HandAt(HandBlock, 1, 4, 5)
    BY <2>3, Hand DEF HandAt
  <2>5. HandLines(HandBlock)
    BY <2>4, Hand DEF HandLines
  <2>6. ~Holds(HandBlock, "providerComment")
    BY Hand DEF Holds
  <2> QED BY <2>1, <2>5, <2>6 DEF HandInv
<1>2. Spec /\ []BuiltinBoot(env) => []HandInv
  BY <1>1, HandStep, PluginBlocksWhole, PTL DEF Spec
<1>3. FileInv /\ HandInv => HandEditsKept
  <2> SUFFICES ASSUME FileInv, HandEdited, HandLines(toml) PROVE HandEditsKept
    BY DEF HandInv, HandEditsKept
  <2>1. PICK i \in DOMAIN toml, h \in DOMAIN toml, j \in DOMAIN toml : HandAt(toml, i, h, j)
    BY DEF HandLines
  <2>2. toml \in Files /\ h \in Nat /\ h # 0
    BY <2>1 DEF FileInv, Files
  <2>3. TableOf(toml, i) = 0 /\ TableOf(toml, j) = h
    BY <2>1, <2>2, TableNone, TableUnder DEF HandAt
  <2> QED BY <2>1, <2>2, <2>3 DEF HandAt, HandEditsKept
<1> QED BY <1>2, <1>3, PluginBlocksWhole, PTL

-----------------------------------------------------------------------------
(* Part 7: the override in the file.                                       *)

Overrides(f) == {f[i].of : i \in {j \in DOMAIN f : f[j].kind = "modelProvider"}}

\* An override that a boot leaves behind is one that the next renderer sees.
AtRest(f) == Holds(f, "modelProvider") => f[1].kind = "providerComment"

\* setup() comes to a pick or refuses, and does not count on start.sh to have left
\* the file without an override unless start.sh has.
Coherent(e) ==
    /\ e.setup # "skips"
    /\ Picked(e) \in {"builtin", "raises"} => e.start = "builtin" /\ e.renderer = "python"

LEMMA OverridesNone ==
  ASSUME NEW f \in Files
  PROVE  Overrides(f) = {} <=> ~Holds(f, "modelProvider")
  BY DEF Overrides, Holds

LEMMA OverridesPlugin ==
  ASSUME NEW f \in Files, Whole(f), AtRest(f), NEW x \in Plugins
  PROVE  /\ Overrides(PluginRendered(f, x)) = Overrides(f)
         /\ AtRest(PluginRendered(f, x))
<1>1. PICK S \in SUBSET (DOMAIN f), g \in Files :
             /\ PluginRendered(f, x) = g \o PluginBlock(x)
             /\ Thinned(f, S, g)
             /\ \A i \in DOMAIN f : i \notin S => f[i].kind \in PluginTaken
  BY PluginThins
<1> DEFINE b == PluginBlock(x)
           w == g \o b
<1>2. b \in Files /\ \A i \in DOMAIN b : b[i].kind \in PluginKinds
  BY Plugin DEF PluginKinds
<1> HIDE DEF b
<1>3. /\ w \in Files
      /\ \A i \in DOMAIN g : i \in DOMAIN w /\ w[i] = g[i]
      /\ \A i \in DOMAIN w :
            (i \in DOMAIN g /\ w[i] = g[i]) \/ (\E j \in DOMAIN b : w[i] = b[j])
  <2>0. JoinOf(w, g, b)
    BY <1>2, Joined
  <2> HIDE DEF w
  <2>1. /\ w \in Files
        /\ DOMAIN g = 1 .. Len(g) /\ Len(g) \in Nat /\ Len(b) \in Nat
        /\ DOMAIN w = 1 .. Len(g) + Len(b)
        /\ \A i \in DOMAIN g : w[i] = g[i]
        /\ \A i \in DOMAIN w :
              i \in DOMAIN g \/ (i - Len(g) \in DOMAIN b /\ w[i] = b[i - Len(g)])
    BY <1>2, <2>0 DEF JoinOf
  <2>2. DOMAIN g \subseteq DOMAIN w
    BY <2>1
  <2> QED BY <2>1, <2>2
<1> HIDE DEF w
<1>4. /\ \A k \in DOMAIN g : \E i \in S : g[k] = f[i]
      /\ \A i \in S : \E k \in DOMAIN g : g[k] = f[i]
  BY <1>1, ThinnedLines
<1>5. \A i \in DOMAIN f : f[i].kind \in ProviderKinds => i \in S
  BY <1>1 DEF PluginKinds, PluginTaken, ProviderKinds
<1>6. Overrides(w) = Overrides(f)
  <2>1. ASSUME NEW o \in Overrides(w) PROVE o \in Overrides(f)
    <3>1. PICK i \in DOMAIN w : w[i].kind = "modelProvider" /\ o = w[i].of
      BY DEF Overrides
    <3>2. i \in DOMAIN g /\ w[i] = g[i]
      BY <1>2, <1>3, <3>1 DEF PluginKinds
    <3> QED BY <1>4, <3>1, <3>2 DEF Overrides
  <2>2. ASSUME NEW o \in Overrides(f) PROVE o \in Overrides(w)
    <3>1. PICK i \in DOMAIN f : f[i].kind = "modelProvider" /\ o = f[i].of
      BY DEF Overrides
    <3>2. PICK k \in DOMAIN g : g[k] = f[i]
      BY <1>4, <1>5, <3>1 DEF ProviderKinds
    <3> QED BY <1>3, <3>1, <3>2 DEF Overrides
  <2> QED BY <2>1, <2>2
<1>7. AtRest(w)
  <2> SUFFICES ASSUME Holds(w, "modelProvider") PROVE w[1].kind = "providerComment"
    BY DEF AtRest
  <2>1. Holds(f, "modelProvider")
    BY <1>3, <1>6, OverridesNone
  <2>2. f[1].kind = "providerComment" /\ 1 \in DOMAIN f
    BY <2>1 DEF AtRest, Holds, Files
  <2>3. 1 \in S
    BY <1>5, <2>2 DEF ProviderKinds
  <2>4. PICK e : /\ Lists(e, Len(g), S)
                 /\ \A k \in 1 .. Len(g) : g[k] = f[e[k]]
    BY <1>1 DEF Thinned
  <2>5. S \in SUBSET (Nat \ {0})
    <3>1. \A i \in S : i \in 1 .. Len(f)
      BY KindsOfLines
    <3> QED BY <3>1, KindsOfLines
  <2>6. 1 \in 1 .. Len(g) /\ e[1] = 1
    BY <2>3, <2>4, <2>5, KindsOfLines, ThinnedHead
  <2>7. 1 \in DOMAIN g /\ g[1] = f[1]
    BY <2>4, <2>6, KindsOfLines
  <2> QED BY <1>3, <2>2, <2>7
<1> QED BY <1>1, <1>6, <1>7 DEF w, b

LEMMA OverridesRendered ==
  ASSUME NEW f \in Files, NEW p \in Slugs,
         p = "builtin" => ~Holds(f, "modelProvider")
  PROVE  /\ Overrides(Rendered(f, p)) = {p} \ {"builtin"}
         /\ AtRest(Rendered(f, p))
<1>1. CASE p = "builtin"
  <2>1. Rendered(f, p) \in {f, <<>>}
    BY <1>1 DEF Rendered
  <2>2. ~Holds(<<>>, "modelProvider") /\ <<>> \in Files
    BY DEF Holds, Files
  <2>3. ~Holds(Rendered(f, p), "modelProvider") /\ Rendered(f, p) \in Files
    BY <1>1, <2>1, <2>2
  <2> QED BY <1>1, <2>3, OverridesNone DEF AtRest
<1>2. CASE p # "builtin"
  <2> DEFINE b == ProviderBlock(p)
  <2>1. Rendered(f, p) = b
    BY <1>2 DEF Rendered
  <2>2. /\ DOMAIN b = 1 .. 4 /\ b[1].kind = "providerComment"
        /\ b[2].kind = "modelProvider" /\ b[2].of = p
        /\ b[3].kind = "[provider]" /\ b[4].kind = "providerKeys"
    BY Provider
  <2> HIDE DEF b
  <2>3. {j \in DOMAIN b : b[j].kind = "modelProvider"} = {2}
    BY <2>2
  <2>4. Overrides(b) = {p} /\ AtRest(b)
    BY <2>2, <2>3 DEF Overrides, AtRest
  <2> QED BY <1>2, <2>1, <2>4
<1> QED BY <1>1, <1>2

OverrideInv ==
    /\ pc \in {"off", "render"} => AtRest(toml)
    /\ pc \in {"strip", "append", "sandbox", "prepend", "auth", "login", "setup"}
       /\ Picked(env) \in {"builtin", "raises"} =>
           ~Holds(toml, "modelProvider")
    /\ pc = "failed" => ~Holds(toml, "modelProvider")
    /\ pc \in {"plugins", "up"} =>
           AtRest(toml) /\ Overrides(toml) = {Picked(env)} \ {"builtin"}

LEMMA OverrideStep ==
  ASSUME ~Crashes, FileInv, OverrideInv, Coherent(env), [Next]_vars
  PROVE  OverrideInv'
<1> USE DEF FileInv, OverrideInv
<1>0. "modelProvider" \in ProviderKinds
  BY DEF ProviderKinds
<1>1. CASE Boot
  BY <1>1 DEF Boot
<1>2. CASE RenderProvider
  <2>1. /\ pc = "render" /\ pc' = "strip" /\ env' = env
        /\ toml' = StartRendered(toml, env)
    BY <1>2 DEF RenderProvider, Step
  <2>2. ASSUME Picked(env) \in {"builtin", "raises"}
        PROVE  ~Holds(toml', "modelProvider")
    <3>1. toml' = Rendered(toml, "builtin")
      BY <2>1, <2>2 DEF Coherent, StartRendered
    <3>2. CASE toml # <<>> /\ toml[1].kind = "providerComment"
      BY <3>1, <3>2 DEF Rendered, Holds
    <3>3. CASE toml = <<>> \/ toml[1].kind # "providerComment"
      <4>1. toml' = toml
        BY <3>1, <3>3 DEF Rendered
      <4>2. CASE toml = <<>>
        BY <4>1, <4>2 DEF Holds
      <4>3. CASE toml # <<>>
        BY <2>1, <3>3, <4>1, <4>3 DEF AtRest
      <4> QED BY <4>2, <4>3
    <3> QED BY <3>2, <3>3
  <2> QED BY <2>1, <2>2
<1>3. CASE StripMolecule
  BY <1>0, <1>3, NotMcp DEF StripMolecule, Step
<1>4. CASE AppendMolecule
  BY <1>0, <1>4, NotMcp DEF AppendMolecule, Step
<1>11. CASE StripSandbox
  BY <1>0, <1>11, NotMcp DEF StripSandbox, Step
<1>12. CASE PrependSandbox
  BY <1>0, <1>12, NotMcp DEF PrependSandbox, Step
<1>13. CASE AuthStoreKey
  BY <1>0, <1>13, NotAuth DEF AuthStoreKey, Step, AuthKinds
<1>14. CASE LoginMethodKey
  BY <1>0, <1>14, NotAuth DEF LoginMethodKey, Step, AuthKinds
<1>5. CASE Setup
  <2>1. /\ pc = "setup" /\ pc' = "plugins" /\ env' = env
        /\ toml' = Rendered(toml, Picked(env))
    BY <1>5 DEF Setup, Step
  <2>2. Picked(env) = "builtin" => ~Holds(toml, "modelProvider")
    BY <2>1
  <2>3. Overrides(toml') = {Picked(env)} \ {"builtin"} /\ AtRest(toml')
    BY <2>1, <2>2, PickedSlug, OverridesRendered
  <2> QED BY <2>1, <2>3
<1>6. CASE SetupRaises
  <2>1. /\ pc = "setup" /\ pc' = "failed" /\ env' = env /\ toml' = toml
        /\ env.setup = "raises"
    BY <1>6 DEF SetupRaises, Step
  <2>2. Picked(env) = "raises"
    BY <2>1 DEF Picked
  <2> QED BY <2>1, <2>2
<1>15. CASE SetupSkips
  BY <1>15 DEF SetupSkips, Coherent
<1>7. ASSUME NEW x \in Plugins, RegisterMcpServer(x) PROVE OverrideInv'
  BY <1>7, OverridesPlugin DEF RegisterMcpServer, Step
<1>8. CASE Ready
  BY <1>8 DEF Ready
<1>9. CASE Restart
  <2>1. pc \in {"up", "failed"} /\ pc' = "off" /\ toml' = toml
    BY <1>9 DEF Restart
  <2> QED BY <2>1 DEF AtRest
<1>10. CASE UNCHANGED vars
  BY <1>10 DEF vars
<1> QED
  BY <1>1, <1>2, <1>3, <1>4, <1>5, <1>6, <1>7, <1>8, <1>9, <1>10, <1>11, <1>12, <1>13,
     <1>14, <1>15
     DEF Next, BootStep

\* When no boot is cut short, and setup() comes to a built-in provider, or to
\* none, only where the renderer of start.sh came to a built-in one, then the
\* override in the file is always that of the provider setup() picked, whatever
\* providers the boots before it picked.
THEOREM OverrideFollowsPick ==
  ASSUME ~Crashes
  PROVE  Spec /\ []Coherent(env) => []OverrideMatches
<1>1. Init => OverrideInv
  <2>1. ~Holds(HandBlock, "modelProvider") /\ ~Holds(<<>>, "modelProvider")
    BY Hand DEF Holds
  <2> QED BY <2>1 DEF Init, OverrideInv, AtRest
<1>2. FileInv /\ OverrideInv /\ Coherent(env) /\ [Next]_vars => OverrideInv'
  BY OverrideStep
<1>3. Spec /\ []Coherent(env) => []OverrideInv
  BY <1>1, <1>2, PluginBlocksWhole, PTL DEF Spec
<1>4. OverrideInv => OverrideMatches
  BY DEF OverrideInv, OverrideMatches, Running, Overrides
<1> QED BY <1>3, <1>4, PTL

-----------------------------------------------------------------------------
(* Part 8: a reboot reproduces the file, but for blank lines.              *)

LEMMA TableLast ==
  ASSUME NEW f \in Files, NEW i \in DOMAIN f, NEW h \in 1 .. i, IsHeader(f, h)
  PROVE  \E t \in h .. i : IsHeader(f, t) /\ TableOf(f, i) = t
<1> DEFINE T == {j \in 1 .. i : IsHeader(f, i + 1 - j)}
<1>1. i \in Nat /\ i # 0
  BY DEF Files
<1>2. i + 1 - h \in T
  <2>1. i + 1 - h \in 1 .. i /\ i + 1 - (i + 1 - h) = h
    BY <1>1
  <2> QED BY <2>1
<1>3. PICK j \in T : \A k \in T : j <= k
  <2>1. T \in SUBSET (1 .. i) /\ T # {}
    BY <1>2
  <2> HIDE DEF T
  <2> QED BY <1>1, <2>1, LeastPlace
<1> DEFINE t == i + 1 - j
<1>4. t \in h .. i
  BY <1>1, <1>2, <1>3
<1>5. \A k \in t + 1 .. i : ~IsHeader(f, k)
  <2> SUFFICES ASSUME NEW k \in t + 1 .. i, IsHeader(f, k) PROVE FALSE
    OBVIOUS
  <2>1. i + 1 - k \in 1 .. i /\ i + 1 - (i + 1 - k) = k
    BY <1>1, <1>4
  <2>2. j <= i + 1 - k
    BY <1>3, <2>1
  <2> QED BY <1>1, <1>3, <2>2
<1>6. IsHeader(f, t)
  BY <1>3
<1> HIDE DEF t
<1>7. Under(f, t, i) /\ t \in Nat
  BY <1>1, <1>4, <1>5, <1>6 DEF Under
<1> QED BY <1>4, <1>6, <1>7, TableUnder

\* There is only one way to list a set of positions.
LEMMA ListedOnce ==
  ASSUME NEW n \in Nat, NEW S \in SUBSET (1 .. n), NEW m \in Nat, NEW e, Lists(e, m, S)
  PROVE  m = Cardinality(S) /\ \A k \in 1 .. m : e[k] \in S /\ Rank(S, e[k]) = k
<1>1. /\ IsFiniteSet(S) /\ Cardinality(S) \in Nat
      /\ \A i, j \in S : i < j => Rank(S, i) < Rank(S, j)
      /\ \A i \in S : Rank(S, i) \in 1 .. Cardinality(S)
  BY RankIsMonotone
<1>2. \A i \in S : i \in 1 .. n
  OBVIOUS
<1>3. /\ \A k \in 1 .. m : e[k] \in S /\ e[k] \in Nat
      /\ \A k, l \in 1 .. m : k < l => e[k] < e[l]
      /\ \A i \in S : \E k \in 1 .. m : e[k] = i
  <2>1. \A k \in 1 .. m : e[k] \in S
    BY DEF Lists
  <2>2. \A k \in 1 .. m : e[k] \in 1 .. n
    BY <1>2, <2>1
  <2> QED BY <2>1, <2>2 DEF Lists
<1>4. \A k, l \in 1 .. m : e[k] <= e[l] <=> k <= l
  <2> SUFFICES ASSUME NEW k \in 1 .. m, NEW l \in 1 .. m PROVE e[k] <= e[l] <=> k <= l
    OBVIOUS
  <2>1. k < l \/ k = l \/ l < k
    OBVIOUS
  <2>2. e[k] \in Nat /\ e[l] \in Nat /\ (k < l => e[k] < e[l]) /\ (l < k => e[l] < e[k])
    BY <1>3
  <2> QED BY <2>1, <2>2
<1>5. ASSUME NEW k \in 1 .. m PROVE Rank(S, e[k]) = k
  <2> DEFINE T == {j \in S : j <= e[k]}
             b == [l \in 1 .. k |-> e[l]]
  <2>1. \A l \in 1 .. k : l \in 1 .. m /\ e[l] \in T
    BY <1>3, <1>4
  <2>2. b \in [1 .. k -> T]
    BY <2>1
  <2>3. \A i, j \in 1 .. k : b[i] = b[j] => i = j
    <3> SUFFICES ASSUME NEW i \in 1 .. k, NEW j \in 1 .. k, e[i] = e[j] PROVE i = j
      OBVIOUS
    <3>1. e[i] <= e[j] /\ e[j] <= e[i] /\ i \in 1 .. m /\ j \in 1 .. m
      BY <1>3, <2>1
    <3> QED BY <1>4, <3>1
  <2>4. \A j \in T : \E l \in 1 .. k : b[l] = j
    <3> SUFFICES ASSUME NEW j \in S, j <= e[k] PROVE \E l \in 1 .. k : e[l] = j
      OBVIOUS
    <3>1. PICK l \in 1 .. m : e[l] = j
      BY <1>3
    <3>2. l <= k
      BY <1>4, <3>1
    <3> QED BY <3>1, <3>2
  <2>5. b \in Bijection(1 .. k, T)
    BY <2>2, <2>3, <2>4 DEF Bijection, Injection, Surjection, IsInjective
  <2>6. ExistsBijection(1 .. k, T)
    BY <2>5, Zenon DEF ExistsBijection
  <2>7. Cardinality(T) = k
    <3>1. k \in Nat
      OBVIOUS
    <3> HIDE DEF T
    <3> QED BY <2>6, <3>1, FS_CountingElements
  <2> QED BY <2>7 DEF Rank
<1>6. Cardinality(S) = m
  <2>1. e \in Bijection(1 .. m, S)
    <3>1. e \in [1 .. m -> S]
      BY DEF Lists
    <3>2. \A k, l \in 1 .. m : e[k] = e[l] => k = l
      BY <1>5
    <3> QED BY <1>3, <3>1, <3>2 DEF Bijection, Injection, Surjection, IsInjective
  <2>2. ExistsBijection(1 .. m, S)
    BY <2>1 DEF ExistsBijection
  <2> QED BY <2>2, FS_CountingElements
<1> QED BY <1>3, <1>5, <1>6

\* The order in which the lines are found in the file, however often blank ones.
Phase(k) ==
    CASE k = "sandboxComment" -> 1 [] k = "sandboxMode" -> 2 [] k = "approvalPolicy" -> 3
      [] k = "handKey" -> 4 [] k = "[sandbox_workspace_write]" -> 5 [] k = "networkAccess" -> 6
      [] k = "[hand]" -> 7 [] k = "handEntry" -> 8 [] k = "blank" -> 9
      [] k = "moleculeComment" -> 10 [] k = "[molecule]" -> 11 [] k = "moleculeKeys" -> 12
      [] k = "[molecule.env]" -> 13 [] k = "moleculeEnv" -> 14
      [] k = "authStore" -> 15 [] k = "loginMethod" -> 16

HandKinds     == {"handKey", "[hand]", "handEntry"}
TableKinds    == {"[sandbox_workspace_write]", "networkAccess"}
MoleculeKinds == {"moleculeComment", "[molecule]", "moleculeKeys", "[molecule.env]",
                  "moleculeEnv"}
Inked         == SandboxKinds \cup HandKinds \cup TableKinds \cup MoleculeKinds \cup AuthKinds
Expected      == Inked \cup {"blank"}

Ordered(f) ==
    /\ f \in Files
    /\ \A i \in DOMAIN f : f[i].kind \in Expected /\ f[i] = Line(f[i].kind)
    /\ \A i, j \in DOMAIN f : i < j =>
           \/ Phase(f[i].kind) < Phase(f[j].kind)
           \/ f[i].kind = "blank" /\ f[j].kind = "blank"

LEMMA PhaseValues ==
  /\ Phase("sandboxComment") = 1 /\ Phase("sandboxMode") = 2 /\ Phase("approvalPolicy") = 3
  /\ Phase("handKey") = 4 /\ Phase("[sandbox_workspace_write]") = 5
  /\ Phase("networkAccess") = 6 /\ Phase("[hand]") = 7 /\ Phase("handEntry") = 8
  /\ Phase("blank") = 9
  /\ Phase("moleculeComment") = 10 /\ Phase("[molecule]") = 11
  /\ Phase("moleculeKeys") = 12 /\ Phase("[molecule.env]") = 13 /\ Phase("moleculeEnv") = 14
  /\ Phase("authStore") = 15 /\ Phase("loginMethod") = 16
  BY DEF Phase

LEMMA Phases ==
  /\ \A k \in Expected : Phase(k) \in 1 .. 16
  /\ \A k, l \in Expected : Phase(k) = Phase(l) => k = l
  /\ \A k \in SandboxKinds : Phase(k) \in 1 .. 3
  /\ \A k \in HandKinds : Phase(k) \in {4, 7, 8}
  /\ \A k \in TableKinds : Phase(k) \in 5 .. 6
  /\ \A k \in MoleculeKinds : Phase(k) \in 10 .. 14
  /\ \A k \in AuthKinds : Phase(k) \in 15 .. 16
  BY PhaseValues
     DEF Inked, Expected, SandboxKinds, HandKinds, TableKinds, MoleculeKinds, AuthKinds

LEMMA OrderedThinned ==
  ASSUME NEW f, Ordered(f), NEW S \in SUBSET (DOMAIN f), NEW g \in Files, Thinned(f, S, g)
  PROVE  Ordered(g)
<1>1. \A k \in DOMAIN g : \E i \in S : g[k] = f[i]
  BY ThinnedLines DEF Ordered
<1>2. \A k, l \in DOMAIN g : k < l => \E i, j \in S : i < j /\ g[k] = f[i] /\ g[l] = f[j]
  BY ThinnedOrder DEF Ordered
<1>3. \A k \in DOMAIN g : g[k].kind \in Expected /\ g[k] = Line(g[k].kind)
  BY <1>1 DEF Ordered
<1>4. ASSUME NEW k \in DOMAIN g, NEW l \in DOMAIN g, k < l
      PROVE  \/ Phase(g[k].kind) < Phase(g[l].kind)
             \/ g[k].kind = "blank" /\ g[l].kind = "blank"
  <2>1. PICK i \in S, j \in S : i < j /\ g[k] = f[i] /\ g[l] = f[j]
    BY <1>2, <1>4
  <2> QED BY <2>1 DEF Ordered
<1> QED BY <1>3, <1>4 DEF Ordered

LEMMA OrderedJoined ==
  ASSUME NEW f, Ordered(f), NEW g, Ordered(g),
         \A i \in DOMAIN f, j \in DOMAIN g :
             \/ Phase(f[i].kind) < Phase(g[j].kind)
             \/ f[i].kind = "blank" /\ g[j].kind = "blank"
  PROVE  Ordered(f \o g)
<1> DEFINE w == f \o g
<1>1. JoinOf(w, f, g)
  BY Joined DEF Ordered
<1> HIDE DEF w
<1>2. /\ DOMAIN f = 1 .. Len(f) /\ Len(f) \in Nat /\ DOMAIN g = 1 .. Len(g) /\ Len(g) \in Nat
      /\ w \in Files /\ DOMAIN w = 1 .. Len(f) + Len(g)
      /\ \A i \in DOMAIN f : w[i] = f[i]
      /\ \A i \in DOMAIN w :
             \/ i \in DOMAIN f
             \/ i > Len(f) /\ i - Len(f) \in DOMAIN g /\ w[i] = g[i - Len(f)]
  BY <1>1 DEF JoinOf
<1>3. \A i \in DOMAIN w : w[i].kind \in Expected /\ w[i] = Line(w[i].kind)
  BY <1>2 DEF Ordered
<1>4. ASSUME NEW i \in DOMAIN w, NEW j \in DOMAIN w, i < j
      PROVE  \/ Phase(w[i].kind) < Phase(w[j].kind)
             \/ w[i].kind = "blank" /\ w[j].kind = "blank"
  <2>1. CASE j \in DOMAIN f
    <3>1. i \in DOMAIN f
      BY <1>2, <1>4, <2>1
    <3> QED BY <1>2, <1>4, <2>1, <3>1 DEF Ordered
  <2>2. CASE i \in DOMAIN f /\ j \notin DOMAIN f
    BY <1>2, <2>2
  <2>3. CASE i \notin DOMAIN f /\ j \notin DOMAIN f
    <3>1. /\ i - Len(f) \in DOMAIN g /\ j - Len(f) \in DOMAIN g
          /\ w[i] = g[i - Len(f)] /\ w[j] = g[j - Len(f)]
      BY <1>2, <2>3
    <3>2. i - Len(f) < j - Len(f)
      BY <1>2, <1>4
    <3> QED BY <3>1, <3>2 DEF Ordered
  <2> QED BY <2>1, <2>2, <2>3
<1> QED BY <1>2, <1>3, <1>4 DEF Ordered, w

\* Two files in this order with the same lines and no blank one are the same.
LEMMA OrderedOnce ==
  ASSUME NEW f, Ordered(f), NEW g, Ordered(g), ~Holds(f, "blank"), ~Holds(g, "blank"),
         \A k \in Inked : Holds(f, k) <=> Holds(g, k)
  PROVE  f = g
<1> DEFINE S(h) == {Phase(h[i].kind) : i \in DOMAIN h}
           e(h) == [i \in 1 .. Len(h) |-> Phase(h[i].kind)]
<1>1. ASSUME NEW h, Ordered(h), ~Holds(h, "blank")
      PROVE  /\ Lists(e(h), Len(h), S(h)) /\ S(h) \in SUBSET (1 .. 16)
             /\ Len(h) \in Nat /\ DOMAIN h = 1 .. Len(h) /\ h \in Files
  <2>1. Len(h) \in Nat /\ DOMAIN h = 1 .. Len(h) /\ h \in Files
    BY <1>1 DEF Ordered, Files
  <2>2. S(h) \in SUBSET (1 .. 16)
    BY <1>1, Phases, PhaseValues DEF Ordered
  <2>3. \A i, j \in DOMAIN h : i < j => Phase(h[i].kind) < Phase(h[j].kind)
    BY <1>1 DEF Ordered, Holds
  <2> QED BY <2>1, <2>2, <2>3 DEF Lists
<1>2. S(f) = S(g)
  <2>1. ASSUME NEW h, NEW w, Ordered(h), ~Holds(h, "blank"),
               \A k \in Inked : Holds(h, k) => Holds(w, k)
        PROVE  S(h) \subseteq S(w)
    <3> SUFFICES ASSUME NEW i \in DOMAIN h PROVE Phase(h[i].kind) \in S(w)
      OBVIOUS
    <3>1. h[i].kind \in Inked /\ Holds(h, h[i].kind)
      BY <2>1 DEF Ordered, Holds, Expected
    <3>2. PICK j \in DOMAIN w : w[j].kind = h[i].kind
      BY <2>1, <3>1 DEF Holds
    <3> QED BY <3>2
  <2> HIDE DEF S
  <2>2. (\A k \in Inked : Holds(f, k) => Holds(g, k)) => S(f) \subseteq S(g)
    BY <2>1, Zenon
  <2>3. (\A k \in Inked : Holds(g, k) => Holds(f, k)) => S(g) \subseteq S(f)
    BY <2>1, Zenon
  <2> QED BY <2>2, <2>3
<1>3. /\ Lists(e(f), Len(f), S(f)) /\ S(f) \in SUBSET (1 .. 16)
      /\ Len(f) \in Nat /\ DOMAIN f = 1 .. Len(f) /\ f \in Files
      /\ Lists(e(g), Len(g), S(f))
      /\ Len(g) \in Nat /\ DOMAIN g = 1 .. Len(g) /\ g \in Files
  BY <1>1, <1>2
<1> DEFINE T == S(f)
           a == e(f)
           b == e(g)
<1>4. /\ \A i \in 1 .. Len(f) : a[i] = Phase(f[i].kind)
      /\ \A i \in 1 .. Len(g) : b[i] = Phase(g[i].kind)
  OBVIOUS
<1>5. Lists(a, Len(f), T) /\ T \in SUBSET (1 .. 16) /\ Lists(b, Len(g), T)
  BY <1>3
<1> HIDE DEF T, a, b
<1>6. /\ Len(f) = Cardinality(T)
      /\ \A k \in 1 .. Len(f) : a[k] \in T /\ Rank(T, a[k]) = k
  BY <1>3, <1>5, ListedOnce
<1>7. /\ Len(g) = Cardinality(T)
      /\ \A k \in 1 .. Len(g) : b[k] \in T /\ Rank(T, b[k]) = k
  BY <1>3, <1>5, ListedOnce
<1>8. \A i, j \in T : Rank(T, i) = Rank(T, j) => i = j
  <2>1. /\ \A i, j \in T : i < j => Rank(T, i) < Rank(T, j)
        /\ \A i \in T : Rank(T, i) \in 1 .. Cardinality(T)
        /\ Cardinality(T) \in Nat
    BY <1>5, RankIsMonotone
  <2>2. \A i \in T : i \in 1 .. 16
    BY <1>5
  <2> SUFFICES ASSUME NEW i \in T, NEW j \in T, i < j PROVE Rank(T, i) # Rank(T, j)
    BY <2>2
  <2> QED BY <2>1
<1>9. ASSUME NEW k \in 1 .. Len(f) PROVE f[k] = g[k]
  <2>1. a[k] = b[k]
    BY <1>6, <1>7, <1>8
  <2>2. Phase(f[k].kind) = Phase(g[k].kind) /\ k \in DOMAIN f /\ k \in DOMAIN g
    BY <1>3, <1>4, <1>6, <1>7, <2>1
  <2>3. f[k].kind = g[k].kind
    BY <2>2, Phases, PhaseValues DEF Ordered
  <2> QED BY <2>2, <2>3 DEF Ordered
<1> QED BY <1>3, <1>6, <1>7, <1>9 DEF Files

\* In such a file the lines are where their phases are.
LEMMA PhaseOrder ==
  ASSUME NEW f, Ordered(f), NEW i \in DOMAIN f, NEW j \in DOMAIN f
  PROVE  /\ Phase(f[i].kind) \in 1 .. 16 /\ f[i].kind \in Expected
         /\ i <= j => Phase(f[i].kind) <= Phase(f[j].kind)
         /\ Phase(f[i].kind) < Phase(f[j].kind) => i < j
         /\ f[i].kind # "blank" /\ Phase(f[i].kind) <= Phase(f[j].kind) => i <= j
<1>1. i \in Nat /\ j \in Nat
  BY DEF Ordered, Files
<1>2. /\ f[i].kind \in Expected /\ f[j].kind \in Expected
      /\ Phase(f[i].kind) \in 1 .. 16 /\ Phase(f[j].kind) \in 1 .. 16
  BY Phases, PhaseValues DEF Ordered
<1>3. /\ i < j => Phase(f[i].kind) < Phase(f[j].kind) \/ f[i].kind = f[j].kind
      /\ j < i => \/ Phase(f[j].kind) < Phase(f[i].kind)
                  \/ f[i].kind = f[j].kind /\ f[i].kind = "blank"
  BY DEF Ordered
<1> QED BY <1>1, <1>2, <1>3

LEMMA TableAbove ==
  ASSUME NEW f \in Files, NEW i \in DOMAIN f
  PROVE  \/ TableOf(f, i) = 0
         \/ TableOf(f, i) \in 1 .. i /\ TableOf(f, i) \in DOMAIN f /\ IsHeader(f, TableOf(f, i))
<1>1. CASE Headless(f, i)
  BY <1>1, TableNone
<1>2. ASSUME NEW h \in 1 .. i, IsHeader(f, h)
      PROVE  TableOf(f, i) \in 1 .. i /\ TableOf(f, i) \in DOMAIN f /\ IsHeader(f, TableOf(f, i))
  <2>1. PICK t \in h .. i : IsHeader(f, t) /\ TableOf(f, i) = t
    BY <1>2, TableLast
  <2>2. t \in 1 .. i /\ t \in DOMAIN f
    BY <2>1 DEF Files
  <2> QED BY <2>1, <2>2
<1> QED BY <1>1, <1>2 DEF Headless

HasAll(f, K)  == \A k \in K : Holds(f, k)
HasNone(f, K) == \A k \in K : ~Holds(f, k)

\* g is what is left when the lines of the kinds C go.
CutOf(f, S, g, C) ==
    /\ Ordered(f) /\ g \in Files
    /\ S \in SUBSET (DOMAIN f) /\ Thinned(f, S, g)
    /\ \A i \in DOMAIN f : i \in S <=> f[i].kind \notin C

LEMMA OrderedCut ==
  ASSUME NEW f, NEW S, NEW g, NEW C, CutOf(f, S, g, C)
  PROVE  Ordered(g) /\ \A k : Holds(g, k) <=> Holds(f, k) /\ k \notin C
<1> USE DEF CutOf
<1>1. /\ \A k \in DOMAIN g : \E i \in S : g[k] = f[i]
      /\ \A i \in S : \E k \in DOMAIN g : g[k] = f[i]
  BY ThinnedLines DEF Ordered
<1>2. \A k : Holds(g, k) <=> Holds(f, k) /\ k \notin C
  BY <1>1 DEF Holds
<1> QED BY <1>2, OrderedThinned

LEMMA HoldsJoined ==
  ASSUME NEW f \in Files, NEW g \in Files
  PROVE  \A k : Holds(f \o g, k) <=> Holds(f, k) \/ Holds(g, k)
<1> DEFINE w == f \o g
<1>1. JoinOf(w, f, g)
  BY Joined
<1> HIDE DEF w
<1>2. /\ \A i \in DOMAIN w :
             \/ i \in DOMAIN f /\ w[i] = f[i]
             \/ i - Len(f) \in DOMAIN g /\ w[i] = g[i - Len(f)]
      /\ \A i \in DOMAIN f : i \in DOMAIN w /\ w[i] = f[i]
      /\ \A i \in DOMAIN g : Len(f) + i \in DOMAIN w /\ w[Len(f) + i] = g[i]
  BY <1>1 DEF JoinOf
<1>3. \A k : Holds(w, k) <=> Holds(f, k) \/ Holds(g, k)
  BY <1>2 DEF Holds
<1> QED BY <1>3 DEF w

\* A file as any prefix of a boot may leave it: each program's lines are all
\* there or all gone, and what comes with the tables a person wrote.
Loose(f) ==
    /\ Ordered(f)
    /\ IF HandEdited THEN HasAll(f, HandKinds) ELSE HasNone(f, HandKinds \cup TableKinds)
    /\ HasAll(f, SandboxKinds) \/ HasNone(f, SandboxKinds)
    /\ HasAll(f, TableKinds) \/ HasNone(f, TableKinds)
    /\ HasAll(f, MoleculeKinds) \/ HasNone(f, MoleculeKinds \cup AuthKinds)

\* A file with all that the scripts write, and the keys A after auth.json.
Settled(f, A) ==
    /\ Loose(f)
    /\ HasAll(f, SandboxKinds \cup MoleculeKinds)
    /\ HasNone(f, TableKinds)
    /\ \A k \in AuthKinds : Holds(f, k) <=> k \in A

\* The first awk program takes the molecule server's lines and the keys that
\* start.sh appended after them, which TOML puts in the server's table.
LEMMA MoleculeGoes ==
  ASSUME NEW f, Loose(f), NEW i \in DOMAIN f
  PROVE  i \in MoleculeKept(f) <=> f[i].kind \notin MoleculeKinds \cup AuthKinds
<1> DEFINE K == f[i].kind
<1>1. /\ Ordered(f) /\ f \in Files /\ DOMAIN f = 1 .. Len(f) /\ Len(f) \in Nat
      /\ HasAll(f, SandboxKinds) \/ HasNone(f, SandboxKinds)
      /\ HasAll(f, MoleculeKinds) \/ HasNone(f, MoleculeKinds \cup AuthKinds)
  BY KindsOfLines DEF Loose, Ordered
<1>2. K \in Expected /\ Phase(K) \in 1 .. 16 /\ Holds(f, K)
  BY <1>1, PhaseOrder DEF Holds
<1>3. /\ \A k \in Headers \cap Expected : Phase(k) \in {5, 7, 11, 13}
      /\ \A k \in Headers \cap Expected : Phase(k) >= 11 <=> k \in MoleculeHeaders
      /\ \A k \in Expected : k \in MoleculeKinds \cup AuthKinds <=> Phase(k) >= 10
  BY Phases, PhaseValues DEF Headers, MoleculeHeaders, Expected, Inked, SandboxKinds, HandKinds, TableKinds,
                MoleculeKinds, AuthKinds
<1>4. CASE Phase(K) >= 11
  <2>1. PICK j \in DOMAIN f : f[j].kind = "[molecule]"
    <3>1. HasAll(f, MoleculeKinds)
      BY <1>1, <1>2, <1>3, <1>4 DEF HasNone
    <3> QED BY <3>1 DEF HasAll, Holds, MoleculeKinds
  <2>2. j \in 1 .. i /\ IsHeader(f, j)
    <3>1. Phase(f[j].kind) <= Phase(f[i].kind)
      BY <1>2, <1>4, <2>1, Phases, PhaseValues
    <3>2. j <= i
      BY <1>1, <2>1, <3>1, PhaseOrder
    <3> QED BY <1>1, <2>1, <3>2 DEF IsHeader, Headers
  <2>3. PICK t \in j .. i : IsHeader(f, t) /\ TableOf(f, i) = t
    BY <1>1, <2>2, TableLast
  <2>4. t \in DOMAIN f /\ t # 0
    BY <1>1, <2>2, <2>3
  <2>5. Phase(f[t].kind) >= 11 /\ f[t].kind \in Expected
    <3>1. Phase(f[j].kind) <= Phase(f[t].kind) /\ Phase(f[t].kind) \in 1 .. 16
          /\ f[t].kind \in Expected
      <4>1. j <= t
        BY <1>1, <2>2, <2>3
      <4> QED BY <1>1, <2>1, <2>4, <4>1, PhaseOrder
    <3> QED BY <2>1, <3>1, Phases, PhaseValues
  <2>6. InMolecule(f, i)
    BY <1>3, <2>3, <2>4, <2>5 DEF InMolecule, IsHeader
  <2>7. ~Buffered(f, i)
    BY <1>4, Phases, PhaseValues DEF Buffered
  <2> QED BY <1>2, <1>3, <1>4, <2>6, <2>7 DEF MoleculeKept
<1>5. CASE Phase(K) = 10
  <2>1. K = "moleculeComment"
    BY <1>2, <1>5, Phases, PhaseValues DEF Expected, Inked, MoleculeKinds
  <2>2. PICK j \in DOMAIN f : f[j].kind = "[molecule]"
    <3>1. HasAll(f, MoleculeKinds)
      BY <1>1, <1>2, <1>3, <1>5 DEF HasNone
    <3> QED BY <3>1 DEF HasAll, Holds, MoleculeKinds
  <2>3. i < j
    <3>1. Phase(f[i].kind) < Phase(f[j].kind)
      BY <1>5, <2>2, PhaseValues
    <3> QED BY <1>1, <3>1, PhaseOrder
  <2>4. ASSUME NEW k \in i + 1 .. j - 1 PROVE FALSE
    <3>1. k \in DOMAIN f /\ i < k /\ k < j
      BY <1>1, <2>2, <2>3
    <3>2. /\ Phase(f[i].kind) < Phase(f[k].kind) \/ f[i].kind = "blank"
          /\ Phase(f[k].kind) < Phase(f[j].kind) \/ f[j].kind = "blank"
      BY <1>1, <3>1 DEF Ordered
    <3>3. Phase(f[k].kind) \in 1 .. 16
      BY <1>1, <3>1, PhaseOrder
    <3> QED BY <1>5, <2>1, <2>2, <3>2, <3>3, Phases, PhaseValues
  <2>5. j \in i + 1 .. Len(f) /\ f[j].kind \in MoleculeHeaders
    BY <1>1, <2>2, <2>3 DEF MoleculeHeaders
  <2>6. Buffered(f, i) /\ Forgotten(f, i)
    BY <2>1, <2>4, <2>5 DEF Buffered, Forgotten
  <2> QED BY <1>2, <1>3, <1>5, <2>6 DEF MoleculeKept
<1>6. ASSUME NEW m \in DOMAIN f, Phase(f[m].kind) <= 9 PROVE ~InMolecule(f, m)
  <2> SUFFICES ASSUME TableOf(f, m) # 0, f[TableOf(f, m)].kind \in MoleculeHeaders PROVE FALSE
    BY DEF InMolecule
  <2> DEFINE t == TableOf(f, m)
  <2>1. t \in 1 .. m /\ t \in DOMAIN f /\ IsHeader(f, t)
    BY <1>1, TableAbove
  <2> HIDE DEF t
  <2>2. /\ Phase(f[t].kind) <= Phase(f[m].kind) /\ f[t].kind \in Expected
        /\ Phase(f[t].kind) \in 1 .. 16 /\ Phase(f[m].kind) \in 1 .. 16
    <3>1. t <= m
      BY <2>1
    <3> QED BY <1>1, <2>1, <3>1, PhaseOrder
  <2>3. f[t].kind \in MoleculeHeaders
    BY DEF t
  <2> QED BY <1>3, <1>6, <2>1, <2>2, <2>3 DEF IsHeader
<1>7. CASE Phase(K) <= 9
  <2>1. CASE Buffered(f, i)
    <3>1. K = "sandboxComment"
      BY <1>7, <2>1, Phases, PhaseValues DEF Buffered
    <3>2. PICK m \in DOMAIN f : f[m].kind = "sandboxMode"
      <4>1. HasAll(f, SandboxKinds)
        BY <1>1, <1>2, <3>1 DEF HasNone, SandboxKinds
      <4> QED BY <4>1 DEF HasAll, Holds, SandboxKinds
    <3>3. ~Forgotten(f, i)
      <4> SUFFICES ASSUME NEW j \in i + 1 .. Len(f), f[j].kind \in MoleculeHeaders,
                          \A k \in i + 1 .. j - 1 : Buffered(f, k) \/ InMolecule(f, k)
                   PROVE  FALSE
        BY DEF Forgotten
      <4>1. j \in DOMAIN f /\ i < m /\ m < j
        <5>1. j \in DOMAIN f
          BY <1>1
        <5>2. /\ Phase(f[i].kind) = 1 /\ Phase(f[m].kind) = 2
              /\ Phase(f[j].kind) \in {11, 13}
          <6>1. Phase("[molecule]") = 11 /\ Phase("[molecule.env]") = 13
            BY PhaseValues
          <6>2. Phase("sandboxComment") = 1 /\ Phase("sandboxMode") = 2
            BY PhaseValues
          <6> QED BY <3>1, <3>2, <6>1, <6>2 DEF MoleculeHeaders
        <5>3. Phase(f[i].kind) < Phase(f[m].kind) /\ Phase(f[m].kind) < Phase(f[j].kind)
          BY <5>2
        <5> QED BY <1>1, <5>1, <5>3, PhaseOrder
      <4>2. ~InMolecule(f, m) /\ ~Buffered(f, m)
        <5>1. Phase(f[m].kind) = 2
          BY <3>2, PhaseValues
        <5> QED BY <1>6, <3>2, <5>1 DEF Buffered
      <4>3. m \in i + 1 .. j - 1
        BY <1>1, <4>1
      <4> QED BY <4>2, <4>3
    <3> QED BY <1>2, <1>3, <1>7, <2>1, <3>3 DEF MoleculeKept
  <2>2. CASE ~Buffered(f, i)
    BY <1>2, <1>3, <1>6, <1>7, <2>2 DEF MoleculeKept
  <2> QED BY <2>1, <2>2
<1> QED BY <1>2, <1>4, <1>5, <1>7

\* The second one takes the sandbox keys and their table, whose entry comes
\* before the person's own table.
LEMMA SandboxGoes ==
  ASSUME NEW f, Loose(f), NEW i \in DOMAIN f
  PROVE  i \in SandboxKept(f) <=> f[i].kind \notin SandboxKinds \cup TableKinds
<1> DEFINE K == f[i].kind
           t == TableOf(f, i)
<1>1. /\ Ordered(f) /\ f \in Files /\ DOMAIN f = 1 .. Len(f) /\ Len(f) \in Nat
      /\ IF HandEdited THEN HasAll(f, HandKinds) ELSE HasNone(f, HandKinds \cup TableKinds)
      /\ HasAll(f, TableKinds) \/ HasNone(f, TableKinds)
  BY KindsOfLines DEF Loose, Ordered
<1>2. K \in Expected /\ Phase(K) \in 1 .. 16 /\ Holds(f, K)
  BY <1>1, PhaseOrder DEF Holds
<1>3. /\ \A k \in Headers \cap Expected : Phase(k) \in {5, 7, 11, 13}
      /\ \A k \in Headers \cap Expected : Phase(k) = 5 <=> k = "[sandbox_workspace_write]"
      /\ \A k \in Expected : k \in SandboxKinds \cup TableKinds <=> Phase(k) \in {1, 2, 3, 5, 6}
      /\ \A k \in Expected : k \in TableKinds <=> Phase(k) \in {5, 6}
  BY Phases, PhaseValues DEF Headers, Expected, Inked, SandboxKinds, HandKinds, TableKinds, MoleculeKinds,
                AuthKinds
<1>4. CASE K \in SandboxKinds
  BY <1>4 DEF SandboxKept
<1>5. CASE Phase(K) \in {5, 6}
  <2>1. PICK j \in DOMAIN f : f[j].kind = "[sandbox_workspace_write]"
    <3>1. HasAll(f, TableKinds)
      BY <1>1, <1>2, <1>3, <1>5 DEF HasNone
    <3> QED BY <3>1 DEF HasAll, Holds, TableKinds
  <2>2. j \in 1 .. i /\ IsHeader(f, j)
    <3>1. Phase(f[j].kind) <= Phase(f[i].kind) /\ f[j].kind # "blank"
      BY <1>5, <2>1, PhaseValues
    <3>2. j <= i
      BY <1>1, <3>1, PhaseOrder
    <3> QED BY <1>1, <2>1, <3>2 DEF IsHeader, Headers
  <2>3. PICK h \in j .. i : IsHeader(f, h) /\ TableOf(f, i) = h
    BY <1>1, <2>2, TableLast
  <2>4. h \in DOMAIN f /\ h # 0
    BY <1>1, <2>2, <2>3
  <2>5. /\ Phase(f[j].kind) <= Phase(f[h].kind) /\ Phase(f[h].kind) <= Phase(f[i].kind)
        /\ Phase(f[h].kind) \in 1 .. 16 /\ f[h].kind \in Expected
    BY <1>1, <2>3, <2>4, PhaseOrder
  <2>6. f[h].kind = "[sandbox_workspace_write]"
    BY <1>3, <1>5, <2>1, <2>3, <2>5, Phases, PhaseValues DEF IsHeader
  <2> QED BY <1>2, <1>3, <1>5, <2>3, <2>4, <2>6 DEF SandboxKept
<1>6. CASE Phase(K) = 4 \/ Phase(K) >= 7
  <2>1. ~(t # 0 /\ f[t].kind = "[sandbox_workspace_write]")
    <3> SUFFICES ASSUME t # 0, f[t].kind = "[sandbox_workspace_write]" PROVE FALSE
      OBVIOUS
    <3>1. t \in 1 .. i /\ t \in DOMAIN f
      BY <1>1, TableAbove
    <3>2. TableOf(f, i) = t
      OBVIOUS
    <3> HIDE DEF t
    <3>3. Phase(f[t].kind) <= Phase(f[i].kind) /\ Phase(f[t].kind) = 5
      <4>1. t <= i /\ f[t].kind = "[sandbox_workspace_write]"
        BY <3>1
      <4> QED BY <1>1, <3>1, <4>1, PhaseOrder, PhaseValues
    <3>4. Phase(K) >= 7
      BY <1>2, <1>6, <3>3
    <3>5. HandEdited
      BY <1>1, <3>1 DEF HasNone, Holds, TableKinds
    <3>6. PICK h \in DOMAIN f : f[h].kind = "[hand]"
      BY <1>1, <3>5 DEF HasAll, Holds, HandKinds
    <3>7. h \in 1 .. i /\ IsHeader(f, h)
      <4>1. Phase(f[h].kind) <= Phase(f[i].kind) /\ f[h].kind # "blank"
        BY <3>4, <3>6, PhaseValues
      <4>2. h <= i
        BY <1>1, <4>1, PhaseOrder
      <4> QED BY <1>1, <3>6, <4>2 DEF IsHeader, Headers
    <3>8. PICK u \in h .. i : TableOf(f, i) = u
      BY <1>1, <3>7, TableLast
    <3>9. Phase(f[h].kind) <= Phase(f[u].kind) /\ Phase(f[u].kind) \in 1 .. 16
      <4>1. u \in DOMAIN f /\ h <= u
        BY <1>1, <3>7, <3>8
      <4> QED BY <1>1, <4>1, PhaseOrder
    <3> QED BY <3>2, <3>3, <3>6, <3>8, <3>9, Phases, PhaseValues
  <2>2. K \notin SandboxKinds
    BY <1>6, Phases, PhaseValues
  <2>3. K \notin SandboxKinds \cup TableKinds
    BY <1>2, <1>3, <1>6
  <2> QED BY <2>1, <2>2, <2>3 DEF SandboxKept
<1>7. K \in SandboxKinds \/ Phase(K) \in {5, 6} \/ Phase(K) = 4 \/ Phase(K) >= 7
  BY <1>2, Phases, PhaseValues DEF Expected, Inked, HandKinds, TableKinds
<1> QED BY <1>3, <1>2, <1>4, <1>5, <1>6, <1>7

LEMMA BlocksOrdered ==
  /\ Ordered(SandboxBlock) /\ Ordered(MoleculeBlock) /\ Ordered(HandBlock)
  /\ \A k : Holds(SandboxBlock, k) <=> k \in SandboxKinds
  /\ \A k : Holds(MoleculeBlock, k) <=> k \in MoleculeKinds \cup {"blank"}
  /\ \A k : Holds(HandBlock, k) <=> k \in HandKinds \cup TableKinds
<1> USE Phases, PhaseValues
<1>1. \A k \in Expected : Line(k).kind = k
  BY DEF Line
<1>2. /\ \A i \in 1 .. 3 : SandboxBlock[i] = Line(SandboxBlock[i].kind)
      /\ \A i \in 1 .. 6 : MoleculeBlock[i] = Line(MoleculeBlock[i].kind)
      /\ \A i \in 1 .. 5 : HandBlock[i] = Line(HandBlock[i].kind)
  BY DEF SandboxBlock, MoleculeBlock, HandBlock, Line
<1>3. Ordered(SandboxBlock) /\ \A k : Holds(SandboxBlock, k) <=> k \in SandboxKinds
  BY <1>2, Sandbox DEF Ordered, Holds, SandboxKinds, Expected, Inked
<1>4. Ordered(MoleculeBlock) /\ \A k : Holds(MoleculeBlock, k) <=> k \in MoleculeKinds \cup {"blank"}
  BY <1>2, Molecule DEF Ordered, Holds, MoleculeKinds, Expected, Inked
<1>5. Ordered(HandBlock) /\ \A k : Holds(HandBlock, k) <=> k \in HandKinds \cup TableKinds
  BY <1>2, Hand DEF Ordered, Holds, HandKinds, TableKinds, Expected, Inked
<1> QED BY <1>3, <1>4, <1>5

\* The steps of a boot, on such a file.
LEMMA LooseStrip ==
  ASSUME NEW f, Loose(f), NEW g, g = MoleculeStripped(f)
  PROVE  Loose(g) /\ HasNone(g, MoleculeKinds \cup AuthKinds)
<1>1. /\ g \in Files /\ Thinned(f, MoleculeKept(f), g)
      /\ MoleculeKept(f) \in SUBSET (DOMAIN f) /\ Ordered(f)
  BY MoleculeThins DEF Loose, Ordered, MoleculeKept
<1>2. CutOf(f, MoleculeKept(f), g, MoleculeKinds \cup AuthKinds)
  BY <1>1, MoleculeGoes DEF CutOf
<1>3. Ordered(g) /\ \A k : Holds(g, k) <=> Holds(f, k) /\ k \notin MoleculeKinds \cup AuthKinds
  BY <1>2, OrderedCut
<1> QED BY <1>3
        DEF Loose, HasAll, HasNone, SandboxKinds, HandKinds, TableKinds, MoleculeKinds, AuthKinds

LEMMA LooseAppend ==
  ASSUME NEW f, Loose(f), HasNone(f, MoleculeKinds \cup AuthKinds), NEW g, g = f \o MoleculeBlock
  PROVE  Loose(g) /\ HasAll(g, MoleculeKinds) /\ HasNone(g, AuthKinds)
<1>1. f \in Files /\ Ordered(f) /\ MoleculeBlock \in Files
  BY Molecule DEF Loose, Ordered
<1>2. \A i \in DOMAIN f : f[i].kind \in Expected /\ Phase(f[i].kind) <= 9
  <2> SUFFICES ASSUME NEW i \in DOMAIN f PROVE f[i].kind \in Expected /\ Phase(f[i].kind) <= 9
    OBVIOUS
  <2>1. f[i].kind \in Expected /\ f[i].kind \notin MoleculeKinds \cup AuthKinds
    BY <1>1 DEF Ordered, HasNone, Holds
  <2> QED BY <2>1, Phases, PhaseValues
          DEF Expected, Inked, SandboxKinds, HandKinds, TableKinds
<1>3. \A j \in DOMAIN MoleculeBlock :
          Phase(MoleculeBlock[j].kind) >= 10 \/ MoleculeBlock[j].kind = "blank"
  BY Molecule, Phases, PhaseValues
<1>4. Ordered(g)
  <2>1. ASSUME NEW i \in DOMAIN f, NEW j \in DOMAIN MoleculeBlock
        PROVE  \/ Phase(f[i].kind) < Phase(MoleculeBlock[j].kind)
               \/ f[i].kind = "blank" /\ MoleculeBlock[j].kind = "blank"
    <3>1. Phase(f[i].kind) \in 1 .. 16 /\ Phase(MoleculeBlock[j].kind) \in 1 .. 16
      BY <1>1, BlocksOrdered, PhaseOrder
    <3>2. Phase(f[i].kind) = 9 <=> f[i].kind = "blank"
      BY <1>2, Phases, PhaseValues DEF Expected
    <3> QED BY <1>2, <1>3, <3>1, <3>2, Phases, PhaseValues
  <2> QED BY <1>1, <2>1, BlocksOrdered, OrderedJoined
<1>5. \A k : Holds(g, k) <=> Holds(f, k) \/ k \in MoleculeKinds \cup {"blank"}
  BY <1>1, BlocksOrdered, HoldsJoined
<1> QED BY <1>4, <1>5
        DEF Loose, HasAll, HasNone, SandboxKinds, HandKinds, TableKinds, MoleculeKinds, AuthKinds

LEMMA LooseSandbox ==
  ASSUME NEW f, Loose(f), NEW g, g = SandboxStripped(f)
  PROVE  /\ Loose(g) /\ HasNone(g, SandboxKinds \cup TableKinds)
         /\ HasAll(f, MoleculeKinds) => HasAll(g, MoleculeKinds)
         /\ HasNone(f, AuthKinds) => HasNone(g, AuthKinds)
<1>1. /\ g \in Files /\ Thinned(f, SandboxKept(f), g)
      /\ SandboxKept(f) \in SUBSET (DOMAIN f) /\ Ordered(f)
  BY SandboxThins DEF Loose, Ordered, SandboxKept
<1>2. CutOf(f, SandboxKept(f), g, SandboxKinds \cup TableKinds)
  BY <1>1, SandboxGoes DEF CutOf
<1>3. Ordered(g) /\ \A k : Holds(g, k) <=> Holds(f, k) /\ k \notin SandboxKinds \cup TableKinds
  BY <1>2, OrderedCut
<1> QED BY <1>3
        DEF Loose, HasAll, HasNone, SandboxKinds, HandKinds, TableKinds, MoleculeKinds, AuthKinds

LEMMA LoosePrepend ==
  ASSUME NEW f, Loose(f), HasAll(f, MoleculeKinds),
         HasNone(f, SandboxKinds \cup TableKinds \cup AuthKinds), NEW g, g = SandboxBlock \o f
  PROVE  Settled(g, {})
<1>1. f \in Files /\ Ordered(f) /\ SandboxBlock \in Files
  BY Sandbox DEF Loose, Ordered
<1>2. \A i \in DOMAIN f : f[i].kind \in Expected /\ Phase(f[i].kind) >= 4
  <2> SUFFICES ASSUME NEW i \in DOMAIN f PROVE f[i].kind \in Expected /\ Phase(f[i].kind) >= 4
    OBVIOUS
  <2>1. f[i].kind \in Expected /\ f[i].kind \notin SandboxKinds
    BY <1>1 DEF Ordered, HasNone, Holds
  <2> QED BY <2>1, Phases, PhaseValues
          DEF Expected, Inked, HandKinds, TableKinds, MoleculeKinds, AuthKinds
<1>3. \A j \in DOMAIN SandboxBlock : Phase(SandboxBlock[j].kind) <= 3
  BY Sandbox, Phases, PhaseValues DEF SandboxKinds
<1>4. Ordered(g)
  <2>1. ASSUME NEW j \in DOMAIN SandboxBlock, NEW i \in DOMAIN f
        PROVE  Phase(SandboxBlock[j].kind) < Phase(f[i].kind)
    <3>1. Phase(f[i].kind) \in 1 .. 16 /\ Phase(SandboxBlock[j].kind) \in 1 .. 16
      BY <1>1, BlocksOrdered, PhaseOrder
    <3> QED BY <1>2, <1>3, <3>1
  <2> QED BY <1>1, <2>1, BlocksOrdered, OrderedJoined
<1>5. \A k : Holds(g, k) <=> Holds(f, k) \/ k \in SandboxKinds
  BY <1>1, BlocksOrdered, HoldsJoined
<1> QED BY <1>4, <1>5
        DEF Settled, Loose, HasAll, HasNone, SandboxKinds, HandKinds, TableKinds, MoleculeKinds,
            AuthKinds

LEMMA LooseKey ==
  ASSUME env.blob \in BOOLEAN, NEW f, NEW kind \in AuthKinds,
         NEW A \in SUBSET AuthKinds, kind \notin A, \A k \in A : Phase(k) < Phase(kind),
         Settled(f, A), NEW g, g = AuthKeyAdded(f, kind)
  PROVE  Settled(g, IF env.blob THEN A \cup {kind} ELSE A)
<1> DEFINE l == Line(kind)
<1>0. l.kind = kind /\ f \in Files /\ Ordered(f)
  BY AuthLines DEF Settled, Loose, Ordered
<1> HIDE DEF l
<1>1. g = f \/ (KeyAdded(g, f, l) /\ l.kind = kind)
  BY <1>0, AuthAdds DEF l
<1>2. CASE ~env.blob
  BY <1>2 DEF AuthKeyAdded
<1>3. CASE env.blob
  <2>1. ~Holds(f, kind)
    BY DEF Settled
  <2>2. g = Append(f, l)
    BY <1>3, <2>1 DEF AuthKeyAdded, l
  <2>3. Len(g) = Len(f) + 1
    BY <1>0, <2>2 DEF Files
  <2>4. KeyAdded(g, f, l)
    BY <1>0, <1>1, <2>3 DEF Files
  <2>5. g = f \o <<l>> /\ <<l>> \in Files /\ DOMAIN <<l>> = {1} /\ <<l>>[1] = l
    BY <2>4 DEF KeyAdded
  <2> DEFINE b == <<l>>
  <2> HIDE DEF b
  <2>6. b \in Files /\ DOMAIN b = {1} /\ b[1] = l /\ b[1].kind = kind
    BY <1>0, <2>5 DEF b
  <2>7. Ordered(b) /\ \A k : Holds(b, k) <=> k = kind
    <3>1. kind \in Expected
      BY DEF Expected, Inked
    <3> QED BY <2>6, <3>1 DEF Ordered, Holds, l
  <2>8. ASSUME NEW i \in DOMAIN f PROVE Phase(f[i].kind) < Phase(kind)
    <3>1. f[i].kind \in Expected /\ Holds(f, f[i].kind)
      BY <1>0 DEF Ordered, Holds
    <3>2. CASE f[i].kind \in AuthKinds
      BY <3>1, <3>2 DEF Settled
    <3>3. CASE f[i].kind \notin AuthKinds
      <4>1. Phase(f[i].kind) <= 14
        BY <3>1, <3>3, Phases, PhaseValues
           DEF Expected, Inked, SandboxKinds, HandKinds, TableKinds, MoleculeKinds
      <4>2. Phase(f[i].kind) \in 1 .. 16 /\ Phase(kind) \in 15 .. 16
        BY <3>1, Phases, PhaseValues
      <4> QED BY <4>1, <4>2
    <3> QED BY <3>2, <3>3
  <2>9. Ordered(f \o b)
    BY <1>0, <2>6, <2>7, <2>8, OrderedJoined
  <2>10. Ordered(g) /\ \A k : Holds(g, k) <=> Holds(f, k) \/ k = kind
    BY <1>0, <2>5, <2>6, <2>7, <2>9, HoldsJoined DEF b
  <2>11. kind \notin SandboxKinds \cup HandKinds \cup TableKinds \cup MoleculeKinds
    BY DEF AuthKinds, SandboxKinds, HandKinds, TableKinds, MoleculeKinds
  <2> QED BY <1>3, <2>10, <2>11 DEF Settled, Loose, HasAll, HasNone
<1> QED BY <1>2, <1>3

LEMMA LooseRendered ==
  ASSUME NEW f, Loose(f)
  PROVE  Rendered(f, "builtin") = f
<1>1. \A i \in DOMAIN f : f[i].kind # "providerComment"
  BY DEF Loose, Ordered, Expected, Inked, SandboxKinds, HandKinds, TableKinds, MoleculeKinds,
         AuthKinds
<1>2. f # <<>> => 1 \in DOMAIN f
  BY DEF Loose, Ordered, Files
<1> QED BY <1>1, <1>2 DEF Rendered

\* Two settled files with the same keys have the same text.
LEMMA SettledText ==
  ASSUME NEW A, NEW f, Settled(f, A), NEW g, Settled(g, A)
  PROVE  Text(f) = Text(g)
<1>1. ASSUME NEW h, Settled(h, A)
      PROVE  Ordered(Text(h)) /\ \A k : Holds(Text(h), k) <=> Holds(h, k) /\ k # "blank"
  <2> DEFINE S == {i \in DOMAIN h : h[i].kind # "blank"}
             C == {"blank"}
  <2>1. Ordered(h) /\ h \in Files /\ S \in SUBSET (DOMAIN h)
    BY <1>1 DEF Settled, Loose, Ordered
  <2>2. \A i \in DOMAIN h : i \in S <=> h[i].kind \notin C
    OBVIOUS
  <2>3. Text(h) = Lines(h, S)
    BY DEF Text
  <2> HIDE DEF S
  <2>4. Text(h) \in Files /\ Thinned(h, S, Text(h))
    BY <2>1, <2>3, LinesThin
  <2>5. CutOf(h, S, Text(h), C)
    BY <2>1, <2>2, <2>4 DEF CutOf
  <2> QED BY <2>5, OrderedCut
<1>2. \A k \in Inked : Holds(f, k) <=> Holds(g, k)
  BY DEF Settled, Loose, HasAll, HasNone, Inked
<1>3. /\ Ordered(Text(f)) /\ \A k : Holds(Text(f), k) <=> Holds(f, k) /\ k # "blank"
      /\ Ordered(Text(g)) /\ \A k : Holds(Text(g), k) <=> Holds(g, k) /\ k # "blank"
  BY <1>1
<1>4. \A k \in Inked : k # "blank"
  BY DEF Inked, SandboxKinds, HandKinds, TableKinds, MoleculeKinds, AuthKinds
<1> QED BY <1>2, <1>3, <1>4, OrderedOnce

\* The keys that a boot leaves.
AuthKeys(e) == IF e.blob THEN AuthKinds ELSE {}

SettledInv ==
    /\ Loose(toml)
    /\ pc = "append" => HasNone(toml, MoleculeKinds \cup AuthKinds)
    /\ pc \in {"sandbox", "prepend"} => HasAll(toml, MoleculeKinds) /\ HasNone(toml, AuthKinds)
    /\ pc = "prepend" => HasNone(toml, SandboxKinds \cup TableKinds)
    /\ pc = "auth" => Settled(toml, {})
    /\ pc = "login" => Settled(toml, IF env.blob THEN {"authStore"} ELSE {})
    /\ pc \in {"setup", "plugins", "up"} => Settled(toml, AuthKeys(env))
    /\ \A e \in last.env : Settled(last.toml, AuthKeys(e))

LEMMA SettledStep ==
  ASSUME Plugins = {}, FileInv, SettledInv, BuiltinBoot(env), [Next]_vars
  PROVE  SettledInv'
<1> USE DEF SettledInv
<1>0. env.blob \in BOOLEAN
  BY ConfigAssumption DEF FileInv, Envs
<1>1. CASE Boot
  BY <1>1 DEF Boot
<1>2. CASE RenderProvider
  <2>1. toml' = StartRendered(toml, env) /\ env.start = "builtin"
    BY <1>2 DEF RenderProvider, Step, BuiltinBoot
  <2>2. toml' = toml
    BY <2>1, LooseRendered DEF StartRendered, ShellRendered
  <2> QED BY <1>2, <2>2 DEF RenderProvider, Step
<1>3. CASE StripMolecule
  BY <1>3, LooseStrip DEF StripMolecule, Step
<1>4. CASE AppendMolecule
  BY <1>4, LooseAppend DEF AppendMolecule, Step
<1>5. CASE StripSandbox
  <2>1. /\ pc = "sandbox" /\ pc' = "prepend" /\ toml' = SandboxStripped(toml)
        /\ last' = last
    BY <1>5 DEF StripSandbox, Step
  <2>2. /\ Loose(toml') /\ HasNone(toml', SandboxKinds \cup TableKinds)
        /\ HasAll(toml', MoleculeKinds) /\ HasNone(toml', AuthKinds)
    BY <2>1, LooseSandbox
  <2> QED BY <2>1, <2>2
<1>6. CASE PrependSandbox
  <2>1. /\ pc = "prepend" /\ pc' = "auth" /\ toml' = SandboxBlock \o toml /\ last' = last
    BY <1>6 DEF PrependSandbox, Step
  <2>2. HasNone(toml, SandboxKinds \cup TableKinds \cup AuthKinds)
    BY <2>1 DEF HasNone
  <2>3. Settled(toml', {})
    BY <2>1, <2>2, LoosePrepend
  <2> QED BY <2>1, <2>3 DEF Settled
<1>7. CASE AuthStoreKey
  <2>1. /\ pc = "auth" /\ pc' = "login" /\ toml' = AuthKeyAdded(toml, "authStore")
        /\ env' = env /\ last' = last
    BY <1>7 DEF AuthStoreKey, Step
  <2>2. Settled(toml', IF env.blob THEN {} \cup {"authStore"} ELSE {})
    BY <1>0, <2>1, LooseKey DEF AuthKinds
  <2>3. Settled(toml', IF env.blob THEN {"authStore"} ELSE {})
    BY <2>2
  <2> QED BY <2>1, <2>3 DEF Settled
<1>8. CASE LoginMethodKey
  <2>1. /\ pc = "login" /\ pc' = "setup" /\ toml' = AuthKeyAdded(toml, "loginMethod")
        /\ env' = env /\ last' = last
    BY <1>8 DEF LoginMethodKey, Step
  <2>2. CASE env.blob
    <3> DEFINE A == {"authStore"}
    <3>1. /\ A \in SUBSET AuthKinds /\ "loginMethod" \in AuthKinds /\ "loginMethod" \notin A
          /\ \A k \in A : Phase(k) < Phase("loginMethod")
          /\ A \cup {"loginMethod"} = AuthKinds
      BY Phases, PhaseValues DEF AuthKinds
    <3> HIDE DEF A
    <3>2. Settled(toml, A)
      BY <2>1, <2>2 DEF A
    <3>3. Settled(toml', IF env.blob THEN A \cup {"loginMethod"} ELSE A)
      BY <1>0, <2>1, <3>1, <3>2, LooseKey
    <3> QED BY <2>1, <2>2, <3>1, <3>3 DEF Settled, AuthKeys
  <2>3. CASE ~env.blob
    BY <2>1, <2>3 DEF AuthKeyAdded, Settled, AuthKeys
  <2> QED BY <2>2, <2>3
<1>9. CASE Setup
  <2>1. toml' = Rendered(toml, Picked(env)) /\ Picked(env) = "builtin"
    BY <1>9 DEF Setup, Step, BuiltinBoot
  <2>2. toml' = toml
    BY <2>1, LooseRendered
  <2> QED BY <1>9, <2>2 DEF Setup, Step
<1>10. CASE SetupRaises
  BY <1>10 DEF SetupRaises, Step
<1>11. CASE SetupSkips
  BY <1>11 DEF SetupSkips, Step
<1>12. CASE Ready
  BY <1>12 DEF Ready
<1>13. CASE Restart
  BY <1>13 DEF Restart
<1>14. CASE UNCHANGED vars
  BY <1>14 DEF vars
<1> QED
  BY <1>1, <1>2, <1>3, <1>4, <1>5, <1>6, <1>7, <1>8, <1>9, <1>10, <1>11, <1>12, <1>13, <1>14
     DEF Next, BootStep

\* Booting again with the same environment reproduces the file but for its blank
\* lines, whatever else was booted in between and wherever boots were cut short, as
\* long as every boot is one of a built-in provider and no plugin is installed
\* (with plugins the order of their blocks may change).
THEOREM RebootReproduces ==
  ASSUME Plugins = {}
  PROVE  Spec /\ []BuiltinBoot(env) => []RebootIsIdempotent
<1>1. Init => SettledInv
  <2> SUFFICES ASSUME Init PROVE SettledInv
    OBVIOUS
  <2>1. Ordered(<<>>) /\ \A k : ~Holds(<<>>, k)
    BY DEF Ordered, Holds, Files
  <2>2. HandEdited => Loose(HandBlock)
    BY BlocksOrdered
       DEF Loose, HasAll, HasNone, SandboxKinds, HandKinds, TableKinds, MoleculeKinds, AuthKinds
  <2>3. ~HandEdited => Loose(<<>>)
    BY <2>1
       DEF Loose, HasAll, HasNone, SandboxKinds, HandKinds, TableKinds, MoleculeKinds, AuthKinds
  <2>4. Loose(toml)
    BY <2>2, <2>3 DEF Init
  <2> QED BY <2>4 DEF Init, SettledInv, NoBoot
<1>2. Spec /\ []BuiltinBoot(env) => []SettledInv
  BY <1>1, SettledStep, PluginBlocksWhole, PTL DEF Spec
<1>3. SettledInv => RebootIsIdempotent
  BY SettledText DEF SettledInv, RebootIsIdempotent
<1> QED BY <1>2, <1>3, PTL
=============================================================================
