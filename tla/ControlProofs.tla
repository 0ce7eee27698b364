---------------------------- MODULE ControlProofs ----------------------------
(***************************************************************************)
(* The guards, the gateway and the boss's commands for any number of       *)
(* requests, providers, commands and decisions, under any ceiling: each is *)
(* shown by itself, and the process that runs them together takes only     *)
(* steps of theirs.                                                        *)
(***************************************************************************)
EXTENDS ControlPlane, FiniteSums

-----------------------------------------------------------------------------
\* The level in force never passes the ceiling, and is 5 only with the opt-in.
LEMMA EffectiveIsWithin ==
  ASSUME NEW level \in Levels \cup {Unset}, NEW role \in Roles
  PROVE  /\ Effective(level, role) \in Levels
         /\ Effective(level, role) <= Ceiling
         /\ Effective(level, role) = OwnerOnlyLevel => OwnerOptIn
<1>1. Asked(level) \in Levels
  BY AutonomyAssumption DEF Asked, Levels, DefaultLevel
<1>2. Ceiling \in Levels
  BY DEF Ceiling, Levels, DefaultLevel
<1>. QED
  BY <1>1, <1>2 DEF Effective, Lower, OwnerCapable, OwnerOnlyLevel, Levels

-----------------------------------------------------------------------------
\* The windows there are were opened one by one.
GuardsInv == GuardsTypeOK /\ IsFiniteSet(DOMAIN windows) /\ MemoryIsRecent

LEMMA GuardsInitInv == GuardsInit => GuardsInv
<1>. SUFFICES ASSUME GuardsInit PROVE GuardsInv
  OBVIOUS
<1>1. DOMAIN windows = {} /\ IsFiniteSet({})
  BY FS_EmptySet DEF GuardsInit
<1>2. GuardsTypeOK
  BY <1>1, GuardsAssumption DEF GuardsInit, GuardsTypeOK, Quiet, Times
<1>. QED BY <1>1, <1>2 DEF GuardsInv, MemoryIsRecent

LEMMA OpenWindowKeeps ==
  ASSUME GuardsInv, NEW k \in WindowKeys, OpenWindow(k)
  PROVE  /\ DOMAIN windows' \subseteq WindowKeys
         /\ \A x \in DOMAIN windows' : windows'[x] \in [count : Nat \ {0}, resetAt : Nat]
         /\ opened' \in Times
         /\ IsFiniteSet(DOMAIN windows')
         /\ MemoryIsRecent'
<1>1. /\ windows' = [x \in Kept \cup {k} |->
                       IF x = k THEN [count |-> 1, resetAt |-> now + WindowTicks] ELSE windows[x]]
      /\ opened' = now
  BY DEF OpenWindow
<1>2. now \in Nat /\ now \in Times /\ WindowTicks \in Nat \ {0} /\ MaxWindows \in Nat
  BY GuardsAssumption DEF GuardsInv, GuardsTypeOK, Times
<1>3. Kept \subseteq DOMAIN windows /\ IsFiniteSet(Kept) /\ IsFiniteSet(Kept \cup {k})
  <2>1. Kept \subseteq DOMAIN windows
    BY DEF Kept
  <2>. QED BY <2>1, FS_Subset, FS_AddElement DEF GuardsInv
<1>4. DOMAIN windows' = Kept \cup {k}
  BY <1>1
<1>5. \A x \in DOMAIN windows' :
        windows'[x] = IF x = k THEN [count |-> 1, resetAt |-> now + WindowTicks] ELSE windows[x]
  BY <1>1
<1>6. \A x \in DOMAIN windows' : windows'[x] \in [count : Nat \ {0}, resetAt : Nat]
  BY <1>2, <1>3, <1>4, <1>5 DEF GuardsInv, GuardsTypeOK
<1>7. MemoryIsRecent'
  <2>1. CASE Cardinality(DOMAIN windows) >= MaxWindows
    <3>1. \A x \in Kept : windows[x].resetAt > now
      BY <1>2, <2>1 DEF Kept, Expired, GuardsInv, GuardsTypeOK
    <3>2. \A x \in DOMAIN windows' : windows'[x].resetAt > opened'
      BY <1>1, <1>2, <1>4, <1>5, <3>1
    <3>. QED BY <3>2 DEF MemoryIsRecent
  <2>2. CASE ~(Cardinality(DOMAIN windows) >= MaxWindows)
    <3>1. Kept = DOMAIN windows
      BY <2>2 DEF Kept
    <3>0. IsFiniteSet(DOMAIN windows)
      BY DEF GuardsInv
    <3>4. Cardinality(DOMAIN windows) \in Nat
      BY <3>0, FS_CardinalityType
    <3>5. Cardinality(DOMAIN windows \cup {k}) =
            IF k \in DOMAIN windows THEN Cardinality(DOMAIN windows) ELSE Cardinality(DOMAIN windows) + 1
      BY <3>0, FS_AddElement
    <3>2. /\ Cardinality(DOMAIN windows) \in Nat
          /\ Cardinality(DOMAIN windows \cup {k}) <= Cardinality(DOMAIN windows) + 1
      BY <3>4, <3>5
    <3>3. Cardinality(DOMAIN windows \cup {k}) \in Nat
      BY <1>3, <3>1, FS_CardinalityType
    <3>. QED BY <1>2, <1>4, <2>2, <3>1, <3>2, <3>3 DEF MemoryIsRecent
  <2>. QED BY <2>1, <2>2
<1>. QED BY <1>1, <1>2, <1>3, <1>4, <1>6, <1>7 DEF GuardsInv, GuardsTypeOK

LEMMA CountInKeeps ==
  ASSUME GuardsInv, NEW k \in WindowKeys, CountIn(k)
  PROVE  /\ DOMAIN windows' = DOMAIN windows
         /\ \A x \in DOMAIN windows : /\ windows'[x] \in [count : Nat \ {0}, resetAt : Nat]
                                      /\ windows'[x].resetAt = windows[x].resetAt
         /\ MemoryIsRecent'
<1>1. k \in DOMAIN windows /\ windows' = [windows EXCEPT ![k].count = @ + 1] /\ UNCHANGED opened
  BY DEF CountIn, Running
<1>2. /\ DOMAIN windows' = DOMAIN windows
      /\ \A x \in DOMAIN windows : windows[x] \in [count : Nat \ {0}, resetAt : Nat]
  BY <1>1 DEF GuardsInv, GuardsTypeOK
<1>3. \A x \in DOMAIN windows : /\ windows'[x] \in [count : Nat \ {0}, resetAt : Nat]
                                /\ windows'[x].resetAt = windows[x].resetAt
  BY <1>1, <1>2
<1>. QED BY <1>1, <1>2, <1>3 DEF GuardsInv, MemoryIsRecent

LEMMA GuardsStepInv ==
  ASSUME GuardsInv, [GuardsNext]_guardVars
  PROVE  GuardsInv'
<1>1. ASSUME NEW k \in WindowKeys, Admit(k)
      PROVE  GuardsInv'
  <2>1. admitted' \in [WindowKeys -> [Ages -> Nat]] /\ UNCHANGED now
    <3>1. 0 \in Ages /\ admitted[k] \in [Ages -> Nat]
      BY GuardsAssumption DEF Ages, GuardsInv, GuardsTypeOK
    <3>2. admitted' = [admitted EXCEPT ![k][0] = @ + 1] /\ UNCHANGED now
      BY <1>1 DEF Admit
    <3>3. [admitted[k] EXCEPT ![0] = @ + 1] \in [Ages -> Nat]
      BY <3>1
    <3>. QED BY <3>2, <3>3 DEF GuardsInv, GuardsTypeOK
  <2>2. CASE OpenWindow(k)
    BY <2>1, <2>2, OpenWindowKeeps DEF GuardsInv, GuardsTypeOK
  <2>3. CASE CountIn(k)
    BY <2>1, <2>3, CountInKeeps DEF CountIn, GuardsInv, GuardsTypeOK
  <2>. QED BY <1>1, <2>2, <2>3 DEF Admit
<1>2. ASSUME NEW k \in WindowKeys, TurnAway(k)
      PROVE  GuardsInv'
  <2>1. CountIn(k) /\ UNCHANGED <<now, opened, admitted>>
    BY <1>2 DEF TurnAway, CountIn
  <2>. QED BY <2>1, CountInKeeps DEF GuardsInv, GuardsTypeOK
<1>3. CASE Tick
  <2>1. admitted' \in [WindowKeys -> [Ages -> Nat]]
    <3>1. \A u \in Ages : u # 0 => u - 1 \in Ages
      BY GuardsAssumption DEF Ages
    <3>2. \A k \in WindowKeys, u \in Ages : (IF u = 0 THEN 0 ELSE admitted[k][u - 1]) \in Nat
      BY <3>1 DEF GuardsInv, GuardsTypeOK
    <3>. QED BY <1>3, <3>2 DEF Tick
  <2>2. now' \in Times
    BY <1>3, GuardsAssumption DEF Tick, Times, GuardsInv, GuardsTypeOK
  <2>3. UNCHANGED <<windows, opened>>
    BY <1>3 DEF Tick
  <2>. QED BY <2>1, <2>2, <2>3 DEF GuardsInv, GuardsTypeOK, MemoryIsRecent
<1>4. CASE ForgetWindows
  <2>1. DOMAIN windows' = {} /\ IsFiniteSet({})
    BY <1>4, FS_EmptySet DEF ForgetWindows
  <2>2. GuardsTypeOK'
    BY <1>4, <2>1 DEF ForgetWindows, GuardsInv, GuardsTypeOK, Quiet
  <2>. QED BY <2>1, <2>2 DEF GuardsInv, MemoryIsRecent
<1>5. CASE UNCHANGED guardVars
  BY <1>5 DEF guardVars, GuardsInv, GuardsTypeOK, MemoryIsRecent
<1>. QED BY <1>1, <1>2, <1>3, <1>4, <1>5 DEF GuardsNext

\* The inductive invariant of the guards.
THEOREM GuardsInvariant == GuardsSpec => []GuardsInv
<1>. QED BY GuardsInitInv, GuardsStepInv, PTL DEF GuardsSpec

-----------------------------------------------------------------------------
(* How much a window lets through *)

\* The requests of a key that were let through at the given ages.
Past(k, S) == SumOver(admitted[k], S)

\* How many ticks ago the window of a key was opened.
Age(k) == now - (windows[k].resetAt - WindowTicks)

\* While a window runs, its own requests are counted in it; those before it are
\* of a window whose opening request has left the stretch. Once it has run out
\* nothing has been let through since.
WindowPart(k) ==
  IF Running(k)
  THEN /\ Age(k) \in Ages /\ admitted[k][Age(k)] >= 1
       /\ Past(k, 0 .. Age(k)) <= windows[k].count
       /\ Past(k, 0 .. Age(k)) <= Limit[k[1]]
       /\ Past(k, Age(k) + 1 .. WindowTicks - 1) <= Limit[k[1]] - 1
  ELSE admitted[k][0] = 0 /\ Past(k, Ages) <= Limit[k[1]] - 1

WindowInv == GuardsInv /\ \A k \in WindowKeys : WindowPart(k)

LEMMA WindowShape ==
  ASSUME GuardsInv
  PROVE  /\ WindowTicks \in Nat \ {0} /\ now \in Nat /\ 0 \in Ages
         /\ \A k \in WindowKeys : Limit[k[1]] \in Nat \ {0} /\ admitted[k] \in [Ages -> Nat]
         /\ \A k \in DOMAIN windows : k \in WindowKeys /\ windows[k] \in [count : Nat \ {0}, resetAt : Nat]
BY GuardsAssumption DEF GuardsInv, GuardsTypeOK, Times, Ages, WindowKeys

\* What was let through at some ages is a number, whatever the history.
LEMMA StretchType ==
  ASSUME WindowTicks \in Nat \ {0}, NEW f \in [Ages -> Nat], NEW S \in SUBSET Ages
  PROVE  IsFiniteSet(S) /\ SumOver(f, S) \in Nat
<1>1. IsFiniteSet(Ages)
  BY FS_Interval DEF Ages
<1>2. IsFiniteSet(S)
  BY <1>1, FS_Subset
<1>. QED BY <1>2, SumNat

\* The stretch is what is at most as old as a, and what is older.
LEMMA StretchSplits ==
  ASSUME WindowTicks \in Nat \ {0}, NEW f \in [Ages -> Nat], NEW a \in Ages
  PROVE  /\ 0 .. a \subseteq Ages /\ a + 1 .. WindowTicks - 1 \subseteq Ages
         /\ SumOver(f, 0 .. a) \in Nat /\ SumOver(f, a + 1 .. WindowTicks - 1) \in Nat
         /\ SumOver(f, Ages) = SumOver(f, 0 .. a) + SumOver(f, a + 1 .. WindowTicks - 1)
<1>. DEFINE S == 0 .. a
            U == a + 1 .. WindowTicks - 1
<1>1. S \in SUBSET Ages /\ U \in SUBSET Ages /\ S \cap U = {} /\ S \cup U = Ages
  BY DEF Ages
<1>2. \A x \in Ages : f[x] \in Int
  OBVIOUS
<1>. HIDE DEF S, U
<1>3. IsFiniteSet(S) /\ IsFiniteSet(U) /\ SumOver(f, S) \in Nat /\ SumOver(f, U) \in Nat
  BY <1>1, StretchType
<1>4. SumOver(f, S \cup U) = SumOver(f, S) + SumOver(f, U)
  BY <1>1, <1>2, <1>3, SumSplit
<1>. QED BY <1>1, <1>3, <1>4 DEF S, U

\* One more request is let through now.
LEMMA StretchGrows ==
  ASSUME WindowTicks \in Nat \ {0}, NEW f \in [Ages -> Nat], NEW a \in Ages
  PROVE  LET g == [f EXCEPT ![0] = @ + 1] IN
         /\ g \in [Ages -> Nat]
         /\ SumOver(g, 0 .. a) = SumOver(f, 0 .. a) + 1
         /\ SumOver(g, a + 1 .. WindowTicks - 1) = SumOver(f, a + 1 .. WindowTicks - 1)
<1>. DEFINE g == [f EXCEPT ![0] = @ + 1]
            S == 0 .. a
            U == a + 1 .. WindowTicks - 1
<1>1. 0 \in Ages /\ 0 \in S /\ 0 \notin U /\ S \in SUBSET Ages /\ U \in SUBSET Ages
  BY DEF Ages
<1>2. g \in [Ages -> Nat] /\ g[0] = f[0] + 1 /\ \A x \in Ages \ {0} : g[x] = f[x]
  BY <1>1
<1>3. \A x \in Ages : f[x] \in Int /\ g[x] \in Int
  BY <1>2
<1>. HIDE DEF g, S, U
<1>4. IsFiniteSet(S) /\ IsFiniteSet(U) /\ SumOver(f, S) \in Nat
  BY <1>1, StretchType
<1>5. SumOver(g, S) = SumOver(f, S) - f[0] + g[0]
  <2>1. \A y \in S : f[y] \in Int /\ g[y] \in Int
    BY <1>1, <1>3
  <2>2. \A y \in S \ {0} : g[y] = f[y]
    BY <1>1, <1>2
  <2>. QED BY <1>1, <1>4, <2>1, <2>2, SumChanged
<1>6. SumOver(g, S) = SumOver(f, S) + 1
  BY <1>1, <1>2, <1>3, <1>4, <1>5
<1>7. SumOver(f, U) = SumOver(g, U)
  <2>1. \A x \in U : f[x] = g[x]
    BY <1>1, <1>2
  <2>. QED BY <1>4, <2>1, SumSame
<1>. QED BY <1>2, <1>6, <1>7 DEF g, S, U

\* A tick passes: everything is a tick older and the oldest leaves the stretch.
LEMMA StretchAges ==
  ASSUME WindowTicks \in Nat \ {0}, NEW f \in [Ages -> Nat], NEW a \in Ages
  PROVE  LET g == [u \in Ages |-> IF u = 0 THEN 0 ELSE f[u - 1]] IN
         /\ g \in [Ages -> Nat]
         /\ a + 1 \in Ages =>
              /\ SumOver(g, 0 .. a + 1) = SumOver(f, 0 .. a)
              /\ SumOver(g, a + 2 .. WindowTicks - 1) <= SumOver(f, a + 1 .. WindowTicks - 1)
         /\ SumOver(g, Ages) = SumOver(f, Ages) - f[WindowTicks - 1]
<1>. DEFINE g == [u \in Ages |-> IF u = 0 THEN 0 ELSE f[u - 1]]
            z == WindowTicks - 1
<1>1. \A u \in Ages : u \in Nat /\ (u # 0 => u - 1 \in Ages)
  BY DEF Ages
<1>2. g \in [Ages -> Nat] /\ (0 \in Ages => g[0] = 0) /\ \A u \in Ages : u + 1 \in Ages => g[u + 1] = f[u]
  BY <1>1
<1>3. z \in Ages /\ z \in Nat /\ 0 \in Ages /\ a \in Nat /\ a <= z /\ f[z] \in Nat
  BY DEF Ages
<1>4. \A u \in Ages : f[u] \in Nat /\ g[u] \in Nat
  BY <1>2
<1>. HIDE DEF g
\* Everything but the oldest moves on, and nothing is let through yet.
<1>5. ASSUME NEW b \in Ages, b + 1 \in Ages
      PROVE  SumOver(g, 0 .. b + 1) = SumOver(f, 0 .. b)
  <2>1. b \in Nat /\ 0 .. b \subseteq Ages /\ 1 .. b + 1 \subseteq Ages
        /\ 0 .. b + 1 = (1 .. b + 1) \cup {0} /\ 0 \notin 1 .. b + 1
    BY <1>5 DEF Ages
  <2>2. \A u \in 0 .. (b + 1) - 1 : f[u] \in Int /\ g[u + 1] = f[u]
    <3>1. ASSUME NEW u \in 0 .. b PROVE f[u] \in Int /\ g[u + 1] = f[u]
      <4>1. u \in Ages /\ u + 1 \in Ages
        BY <1>5, <2>1 DEF Ages
      <4>. QED BY <1>2, <1>4, <4>1
    <3>2. 0 .. (b + 1) - 1 = 0 .. b
      BY <2>1
    <3>. QED BY <3>1, <3>2
  <2>4. SumOver(g, 1 .. b + 1) = SumOver(f, 0 .. b)
    <3>1. b + 1 \in Nat /\ (b + 1) - 1 = b
      BY <2>1
    <3>2. SumOver(g, 1 .. b + 1) = SumOver(f, 0 .. (b + 1) - 1)
      BY <2>2, <3>1, SumShift
    <3>. QED BY <3>1, <3>2
  <2>. DEFINE S == 1 .. b + 1
  <2>5. S \in SUBSET Ages /\ 0 \notin S /\ 0 .. b + 1 = S \cup {0}
    BY <2>1
  <2>. HIDE DEF S
  <2>6. IsFiniteSet(S) /\ SumOver(g, S) \in Nat
    BY <1>2, <2>5, StretchType
  <2>7. SumOver(g, S \cup {0}) = SumOver(g, S) + g[0]
    <3>1. \A y \in S \cup {0} : g[y] \in Int
      BY <1>3, <1>4, <2>5
    <3>. QED BY <2>5, <2>6, <3>1, SumAdd
  <2>8. SumOver(g, 0 .. b + 1) = SumOver(g, S)
    <3>1. SumOver(g, S \cup {0}) = SumOver(g, S)
      BY <1>2, <1>3, <2>6, <2>7
    <3>. QED BY <2>5, <3>1
  <2>. QED BY <2>4, <2>8 DEF S
\* The oldest apart.
<1>6. /\ SumOver(f, Ages) = SumOver(f, 0 .. z - 1) + f[z]
      /\ SumOver(f, 0 .. z - 1) \in Nat
  <2>. DEFINE S == 0 .. z - 1
  <2>1. S \in SUBSET Ages /\ z \notin S /\ Ages = S \cup {z}
    BY <1>3 DEF Ages
  <2>. HIDE DEF S, z
  <2>2. IsFiniteSet(S) /\ SumOver(f, S) \in Nat
    BY <2>1, StretchType
  <2>3. \A y \in S \cup {z} : f[y] \in Int
    BY <1>4, <2>1
  <2>4. SumOver(f, S \cup {z}) = SumOver(f, S) + f[z]
    BY <2>1, <2>2, <2>3, SumAdd
  <2>. QED BY <2>1, <2>2, <2>4 DEF S
<1>7. SumOver(g, Ages) = SumOver(f, Ages) - f[z]
  <2>1. SumOver(g, Ages) = SumOver(f, 0 .. z - 1)
    <3>1. CASE z = 0
      <4>1. Ages = {0} /\ 0 .. z - 1 = {}
        BY <3>1 DEF Ages
      <4>2. SumOver(g, {0}) = g[0]
        BY <1>2, <1>3, SumOne
      <4>. QED BY <1>2, <1>3, <4>1, <4>2, SumEmpty
    <3>2. CASE z # 0
      <4>1. z - 1 \in Ages /\ (z - 1) + 1 = z /\ Ages = 0 .. z
        BY <1>3, <3>2 DEF Ages
      <4>2. SumOver(g, 0 .. (z - 1) + 1) = SumOver(f, 0 .. z - 1)
        BY <1>3, <1>5, <4>1
      <4>. QED BY <4>1, <4>2
    <3>. QED BY <3>1, <3>2
  <2>. QED BY <1>3, <1>6, <2>1
<1>8. ASSUME a + 1 \in Ages
      PROVE  SumOver(g, a + 2 .. WindowTicks - 1) <= SumOver(f, a + 1 .. WindowTicks - 1)
  <2>1. /\ SumOver(g, Ages) = SumOver(g, 0 .. a + 1) + SumOver(g, (a + 1) + 1 .. WindowTicks - 1)
        /\ SumOver(g, 0 .. a + 1) \in Nat /\ SumOver(g, (a + 1) + 1 .. WindowTicks - 1) \in Nat
    BY <1>2, <1>8, StretchSplits
  <2>2. /\ SumOver(f, Ages) = SumOver(f, 0 .. a) + SumOver(f, a + 1 .. WindowTicks - 1)
        /\ SumOver(f, 0 .. a) \in Nat /\ SumOver(f, a + 1 .. WindowTicks - 1) \in Nat
    BY StretchSplits
  <2>3. (a + 1) + 1 = a + 2
    BY <1>3
  <2>4. SumOver(g, 0 .. a + 1) = SumOver(f, 0 .. a)
    BY <1>5, <1>8
  <2>. QED BY <1>3, <1>7, <2>1, <2>2, <2>3, <2>4
<1>. QED BY <1>2, <1>5, <1>7, <1>8 DEF g

\* A key that the step leaves alone keeps its part.
LEMMA WindowKept ==
  ASSUME NEW k \in WindowKeys, WindowPart(k), now' = now, admitted'[k] = admitted[k],
         Running(k)' <=> Running(k), Running(k) => windows'[k] = windows[k]
  PROVE  WindowPart(k)'
BY DEF WindowPart, Past, Age

\* A request is let through.
LEMMA AdmitWindow ==
  ASSUME WindowInv, NEW k \in WindowKeys, Admit(k)
  PROVE  \A x \in WindowKeys : WindowPart(x)'
<1>. DEFINE W == WindowTicks
            f == admitted[k]
            g == [f EXCEPT ![0] = @ + 1]
            L == Limit[k[1]]
<1>1. /\ WindowTicks \in Nat \ {0} /\ now \in Nat /\ 0 \in Ages /\ L \in Nat \ {0} /\ f \in [Ages -> Nat]
      /\ \A x \in DOMAIN windows : windows[x] \in [count : Nat \ {0}, resetAt : Nat]
  BY WindowShape DEF WindowInv
<1>2. /\ now' = now /\ admitted'[k] = g
      /\ \A x \in WindowKeys \ {k} : admitted'[x] = admitted[x]
  BY DEF Admit, WindowInv, GuardsInv, GuardsTypeOK
<1>3. CASE OpenWindow(k)
  <2>1. /\ ~Running(k)
        /\ windows' = [x \in Kept \cup {k} |->
                         IF x = k THEN [count |-> 1, resetAt |-> now + W] ELSE windows[x]]
    BY <1>3 DEF OpenWindow
  <2>2. \A x \in WindowKeys \ {k} :
          (Running(x)' <=> Running(x)) /\ (Running(x) => windows'[x] = windows[x])
    <3>1. ASSUME NEW x \in WindowKeys \ {k}
          PROVE  (Running(x)' <=> Running(x)) /\ (Running(x) => windows'[x] = windows[x])
      <4>1. x \in Kept <=> x \in DOMAIN windows'
        BY <2>1
      <4>2. x \in Kept => x \in DOMAIN windows /\ windows'[x] = windows[x]
        BY <2>1 DEF Kept
      <4>3. Running(x) => x \in Kept
        BY DEF Running, Kept
      <4>. QED BY <1>2, <4>1, <4>2, <4>3 DEF Running, Expired
    <3>. QED BY <3>1
  <2>3. \A x \in WindowKeys \ {k} : WindowPart(x)'
    BY <1>2, <2>2, WindowKept DEF WindowInv
  <2>4. Running(k)' /\ Age(k)' = 0 /\ windows'[k].count = 1
    <3>1. k \in DOMAIN windows' /\ windows'[k] = [count |-> 1, resetAt |-> now + W]
      BY <2>1
    <3>2. windows'[k].resetAt = now + W /\ windows'[k].count = 1
      BY <3>1
    <3>. QED BY <1>1, <1>2, <3>1, <3>2 DEF Running, Expired, Age
  <2>5. f[0] = 0 /\ SumOver(f, Ages) <= L - 1
    BY <2>1 DEF WindowInv, WindowPart, Past
  <2>6. /\ SumOver(f, Ages) = SumOver(f, 0 .. 0) + SumOver(f, 0 + 1 .. W - 1)
        /\ SumOver(f, 0 .. 0) \in Nat /\ SumOver(f, 0 + 1 .. W - 1) \in Nat
    BY <1>1, StretchSplits
  <2>7. g[0] = 1 /\ SumOver(g, 0 + 1 .. W - 1) = SumOver(f, 0 + 1 .. W - 1)
    BY <1>1, <2>5, StretchGrows
  <2>. HIDE DEF f, g, L, W
  <2>8. SumOver(g, 0 .. 0) = 1
    <3>1. 0 .. 0 = {0}
      OBVIOUS
    <3>2. g[0] \in Int
      BY <2>7
    <3>3. SumOver(g, {0}) = g[0]
      BY <3>2, SumOne
    <3>. QED BY <2>7, <3>1, <3>3
  <2>9. SumOver(g, 0 + 1 .. W - 1) <= L - 1 /\ 1 <= L /\ SumOver(f, Ages) \in Nat
    BY <1>1, <2>5, <2>6, <2>7
  <2>10. WindowPart(k)'
    BY <1>1, <1>2, <2>4, <2>7, <2>8, <2>9 DEF WindowPart, Past, L, W
  <2>. QED BY <2>3, <2>10
<1>4. CASE CountIn(k) /\ windows'[k].count <= L
  <2>1. /\ Running(k) /\ k \in DOMAIN windows
        /\ windows' = [windows EXCEPT ![k].count = @ + 1]
    BY <1>4 DEF CountIn, Running
  <2>2. /\ windows'[k].count = windows[k].count + 1 /\ windows'[k].resetAt = windows[k].resetAt
        /\ DOMAIN windows' = DOMAIN windows
        /\ \A x \in DOMAIN windows : x # k => windows'[x] = windows[x]
    BY <1>1, <2>1
  <2>3. \A x \in WindowKeys \ {k} :
          (Running(x)' <=> Running(x)) /\ (Running(x) => windows'[x] = windows[x])
    BY <1>2, <2>2 DEF Running, Expired
  <2>4. \A x \in WindowKeys \ {k} : WindowPart(x)'
    BY <1>2, <2>3, WindowKept DEF WindowInv
  <2>5. Running(k)' /\ Age(k)' = Age(k)
    BY <1>2, <2>1, <2>2 DEF Running, Expired, Age
  <2>6. PICK a \in Ages : a = Age(k)
    BY <2>1 DEF WindowInv, WindowPart
  <2>7. /\ f[a] >= 1 /\ SumOver(f, 0 .. a) <= windows[k].count
        /\ SumOver(f, a + 1 .. W - 1) <= L - 1
    BY <2>1, <2>6 DEF WindowInv, WindowPart, Past
  <2>8. /\ SumOver(g, 0 .. a) = SumOver(f, 0 .. a) + 1
        /\ SumOver(g, a + 1 .. W - 1) = SumOver(f, a + 1 .. W - 1)
    BY <1>1, StretchGrows
  <2>9. g[a] >= 1
    BY <1>1, <2>7
  <2>10. SumOver(f, 0 .. a) \in Nat /\ windows[k].count \in Nat
    BY <1>1, <2>1, StretchSplits
  <2>. HIDE DEF f, g, L, W
  <2>11. SumOver(g, 0 .. a) <= windows'[k].count /\ SumOver(g, 0 .. a) <= L
    BY <1>1, <1>4, <2>2, <2>7, <2>8, <2>10
  <2>12. WindowPart(k)'
    BY <1>2, <2>5, <2>6, <2>7, <2>8, <2>9, <2>11 DEF WindowPart, Past, L, W
  <2>. QED BY <2>4, <2>12
<1>. QED BY <1>3, <1>4 DEF Admit

\* A request is turned away: counted, and nothing else.
LEMMA TurnAwayWindow ==
  ASSUME WindowInv, NEW k \in WindowKeys, TurnAway(k)
  PROVE  \A x \in WindowKeys : WindowPart(x)'
<1>1. /\ Running(k) /\ k \in DOMAIN windows /\ now' = now /\ admitted' = admitted
      /\ windows' = [windows EXCEPT ![k].count = @ + 1]
  BY DEF TurnAway, CountIn, Running
<1>2. \A x \in DOMAIN windows : windows[x] \in [count : Nat \ {0}, resetAt : Nat]
  BY WindowShape DEF WindowInv
<1>3. /\ windows'[k].count = windows[k].count + 1 /\ windows'[k].resetAt = windows[k].resetAt
      /\ DOMAIN windows' = DOMAIN windows
      /\ \A x \in DOMAIN windows : x # k => windows'[x] = windows[x]
  BY <1>1, <1>2
<1>4. \A x \in WindowKeys \ {k} : WindowPart(x)'
  <2>1. \A x \in WindowKeys \ {k} :
          (Running(x)' <=> Running(x)) /\ (Running(x) => windows'[x] = windows[x])
    BY <1>1, <1>3 DEF Running, Expired
  <2>. QED BY <1>1, <2>1, WindowKept DEF WindowInv
<1>5. WindowPart(k)'
  <2>1. Running(k)' /\ Age(k)' = Age(k)
    BY <1>1, <1>3 DEF Running, Expired, Age
  <2>2. PICK a \in Ages : a = Age(k)
    BY <1>1 DEF WindowInv, WindowPart
  <2>3. /\ Past(k, 0 .. a) <= windows[k].count /\ Past(k, 0 .. a) <= Limit[k[1]]
        /\ admitted[k][a] >= 1 /\ Past(k, a + 1 .. WindowTicks - 1) <= Limit[k[1]] - 1
    BY <1>1, <2>2 DEF WindowInv, WindowPart
  <2>4. Past(k, 0 .. a) \in Nat /\ windows[k].count \in Nat
    BY <1>1, <1>2, WindowShape, StretchSplits DEF WindowInv, Past
  <2>5. Past(k, 0 .. a) <= windows'[k].count
    BY <1>3, <2>3, <2>4
  <2>. QED BY <1>1, <2>1, <2>2, <2>3, <2>5 DEF WindowPart, Past
<1>. QED BY <1>4, <1>5

\* A tick passes. A window that runs out leaves its opening request behind.
LEMMA TickWindow ==
  ASSUME WindowInv, Tick
  PROVE  \A k \in WindowKeys : WindowPart(k)'
<1>1. ASSUME NEW k \in WindowKeys
      PROVE  WindowPart(k)'
  <2>. DEFINE W == WindowTicks
              f == admitted[k]
              g == [u \in Ages |-> IF u = 0 THEN 0 ELSE f[u - 1]]
              L == Limit[k[1]]
  <2>1. /\ W \in Nat \ {0} /\ now \in Nat /\ 0 \in Ages /\ L \in Nat \ {0} /\ f \in [Ages -> Nat]
        /\ W - 1 \in Ages /\ \A u \in Ages : u \in Nat /\ u < W
    BY WindowShape DEF WindowInv, Ages
  <2>2. admitted'[k] = g /\ now' = now + 1 /\ windows' = windows
    BY DEF Tick
  <2>3. g[0] = 0 /\ \A u \in Ages : u + 1 \in Ages => g[u + 1] = f[u]
    BY <2>1 DEF Ages
  <2>4. \A a \in Ages :
          /\ a + 1 \in Ages => /\ SumOver(g, 0 .. a + 1) = SumOver(f, 0 .. a)
                               /\ SumOver(g, a + 2 .. W - 1) <= SumOver(f, a + 1 .. W - 1)
          /\ SumOver(g, Ages) = SumOver(f, Ages) - f[W - 1]
          /\ SumOver(f, Ages) \in Nat /\ SumOver(g, Ages) \in Nat
    <3>1. g \in [Ages -> Nat]
      BY <2>1, StretchAges
    <3>. QED BY <2>1, <3>1, StretchAges, StretchType
  <2>5. f[W - 1] \in Nat
    BY <2>1
  <2>. HIDE DEF f, g, L, W
  <2>6. CASE Running(k)
    <3>1. PICK a \in Ages : a = Age(k)
      BY <2>6 DEF WindowInv, WindowPart
    <3>2. /\ f[a] >= 1 /\ SumOver(f, 0 .. a) <= windows[k].count /\ SumOver(f, 0 .. a) <= L
          /\ SumOver(f, a + 1 .. W - 1) <= L - 1
      BY <2>6, <3>1 DEF WindowInv, WindowPart, Past, L, W, f
    <3>3. k \in DOMAIN windows /\ windows[k].resetAt \in Nat
      BY <2>6, WindowShape DEF Running, WindowInv
    <3>4. now = windows[k].resetAt - W + a
      BY <2>1, <3>1, <3>3 DEF Age, W
    <3>5. CASE a + 1 \in Ages
      <4>1. Running(k)' /\ Age(k)' = a + 1
        BY <2>1, <2>2, <3>3, <3>4, <3>5 DEF Running, Expired, Age, W
      <4>2. /\ SumOver(g, 0 .. a + 1) = SumOver(f, 0 .. a)
            /\ SumOver(g, a + 2 .. W - 1) <= SumOver(f, a + 1 .. W - 1)
            /\ g[a + 1] = f[a]
        BY <2>3, <2>4, <3>5
      <4>3. SumOver(g, a + 2 .. W - 1) <= L - 1
        <5>1. SumOver(f, a + 1 .. W - 1) \in Nat
          BY <2>1, StretchSplits DEF W
        <5>2. SumOver(g, (a + 1) + 1 .. W - 1) \in Nat
          <6>1. g \in [Ages -> Nat]
            BY <2>1, StretchAges DEF g, W
          <6>. QED BY <2>1, <3>5, <6>1, StretchSplits DEF W
        <5>3. (a + 1) + 1 = a + 2
          BY <2>1
        <5>. QED BY <2>1, <3>2, <4>2, <5>1, <5>2, <5>3
      <4>4. a + 2 = (a + 1) + 1
        BY <2>1
      <4>. QED BY <2>2, <3>2, <3>5, <4>1, <4>2, <4>3, <4>4 DEF WindowPart, Past, L, W
    <3>6. CASE a + 1 \notin Ages
      <4>1. a = W - 1
        BY <2>1, <3>6 DEF Ages, W
      <4>2. ~Running(k)'
        BY <2>1, <2>2, <3>3, <3>4, <4>1 DEF Running, Expired
      <4>3. SumOver(f, Ages) = SumOver(f, 0 .. a) + SumOver(f, a + 1 .. W - 1)
        BY <2>1, StretchSplits DEF W
      <4>4. a + 1 .. W - 1 = {}
        BY <2>1, <4>1
      <4>5. SumOver(f, a + 1 .. W - 1) = 0
        BY <4>4, SumEmpty
      <4>6. SumOver(f, 0 .. a) \in Nat
        BY <2>1, StretchSplits DEF W
      <4>7. SumOver(g, Ages) <= L - 1
        BY <2>1, <2>4, <2>5, <3>2, <4>1, <4>3, <4>5, <4>6
      <4>. QED BY <2>2, <2>3, <4>2, <4>7 DEF WindowPart, Past, L
    <3>. QED BY <3>5, <3>6
  <2>7. CASE ~Running(k)
    <3>1. ~Running(k)'
      BY <2>1, <2>2, <2>7, WindowShape DEF Running, Expired, WindowInv
    <3>2. SumOver(f, Ages) <= L - 1
      BY <2>7 DEF WindowInv, WindowPart, Past, L, f
    <3>3. SumOver(g, Ages) <= L - 1
      BY <2>1, <2>4, <2>5, <3>2
    <3>. QED BY <2>2, <2>3, <3>1, <3>3 DEF WindowPart, Past, L
  <2>. QED BY <2>6, <2>7
<1>. QED BY <1>1

\* No window, and nothing let through.
LEMMA QuietWindow ==
  windows = <<>> /\ admitted = Quiet => \A k \in WindowKeys : WindowPart(k)
<1>. SUFFICES ASSUME windows = <<>>, admitted = Quiet
              PROVE  \A k \in WindowKeys : WindowPart(k)
  OBVIOUS
<1>1. ASSUME NEW k \in WindowKeys
      PROVE  WindowPart(k)
  <2>1. ~Running(k)
    BY DEF Running
  <2>2. /\ 0 \in Ages /\ IsFiniteSet(Ages) /\ Limit[k[1]] \in Nat \ {0}
    BY GuardsAssumption, FS_Interval DEF Ages, WindowKeys
  <2>3. \A u \in Ages : admitted[k][u] = 0
    BY DEF Quiet
  <2>4. Past(k, Ages) = 0
    BY <2>2, <2>3, SumZero DEF Past
  <2>. QED BY <2>1, <2>2, <2>3, <2>4 DEF WindowPart
<1>. QED BY <1>1

LEMMA WindowStepInv ==
  ASSUME WindowInv, [GuardsNext]_guardVars
  PROVE  WindowInv'
<1>1. GuardsInv'
  BY GuardsStepInv DEF WindowInv
<1>2. \A k \in WindowKeys : WindowPart(k)'
  <2>1. ASSUME NEW k \in WindowKeys, Admit(k) \/ TurnAway(k)
        PROVE  \A x \in WindowKeys : WindowPart(x)'
    BY <2>1, AdmitWindow, TurnAwayWindow
  <2>2. CASE Tick
    BY <2>2, TickWindow
  <2>3. CASE ForgetWindows
    <3>1. windows' = <<>> /\ admitted' = Quiet
      BY <2>3 DEF ForgetWindows
    <3>2. (windows = <<>> /\ admitted = Quiet => \A k \in WindowKeys : WindowPart(k))'
      BY QuietWindow, PTL
    <3>. QED BY <3>1, <3>2 DEF Quiet
  <2>4. CASE UNCHANGED guardVars
    BY <2>4 DEF guardVars, WindowInv, WindowPart, Past, Age, Running, Expired
  <2>. QED BY <2>1, <2>2, <2>3, <2>4 DEF GuardsNext
<1>. QED BY <1>1, <1>2 DEF WindowInv

\* In a stretch as long as a window a key is admitted less than twice its limit.
LEMMA WindowBounds ==
  ASSUME WindowInv
  PROVE  WindowBudget
<1>1. ASSUME NEW k \in WindowKeys
      PROVE  SumOver(admitted[k], Ages) < 2 * Limit[k[1]]
  <2>. DEFINE f == admitted[k]
              L == Limit[k[1]]
  <2>1. WindowTicks \in Nat \ {0} /\ L \in Nat \ {0} /\ f \in [Ages -> Nat]
    BY WindowShape DEF WindowInv
  <2>2. SumOver(f, Ages) \in Nat
    BY <2>1, StretchType
  <2>. HIDE DEF L
  <2>3. CASE Running(k)
    <3>1. PICK a \in Ages : a = Age(k)
      BY <2>3 DEF WindowInv, WindowPart
    <3>2. SumOver(f, 0 .. a) <= L /\ SumOver(f, a + 1 .. WindowTicks - 1) <= L - 1
      BY <2>3, <3>1 DEF WindowInv, WindowPart, Past, L
    <3>3. /\ SumOver(f, Ages) = SumOver(f, 0 .. a) + SumOver(f, a + 1 .. WindowTicks - 1)
          /\ SumOver(f, 0 .. a) \in Nat /\ SumOver(f, a + 1 .. WindowTicks - 1) \in Nat
      BY <2>1, StretchSplits
    <3>4. SumOver(f, Ages) < 2 * L
      BY <2>1, <3>2, <3>3
    <3>. QED BY <3>4 DEF L
  <2>4. CASE ~Running(k)
    <3>1. SumOver(f, Ages) <= L - 1
      BY <2>4 DEF WindowInv, WindowPart, Past, L
    <3>2. SumOver(f, Ages) < 2 * L
      BY <2>1, <2>2, <3>1
    <3>. QED BY <3>2 DEF L
  <2>. QED BY <2>3, <2>4
<1>. QED BY <1>1 DEF WindowBudget, SumOver

THEOREM WindowInvariant == GuardsSpec => []WindowInv
<1>1. GuardsInit => WindowInv
  BY GuardsInitInv, QuietWindow DEF GuardsInit, WindowInv
<1>. QED BY <1>1, WindowStepInv, PTL DEF GuardsSpec

-----------------------------------------------------------------------------
\* A row that states a cost states the charge; a success names a provider
\* that has answered.
RowsAreTrue == \A c \in Clients : call[c].at = "record" =>
  /\ call[c].row.cost # Unset => call[c].row.cost = call[c].row.charge
  /\ call[c].row.success => call[c].row.provider \in answered

\* The rows that state what was charged are worth what the providers charged,
\* as long as every row states it.
Balance ==
  /\ IsFiniteSet(Unwritten)
  /\ due >= Cardinality(Unwritten)
  /\ ~booked.unknown => due = booked.cost + Cardinality(Unwritten)

GatewayInv == GatewayTypeOK /\ RowsAreTrue /\ Balance /\ VerifiedIsEarned

\* What each state of a request holds.
LEMMA CallShape ==
  ASSUME NEW k \in Call
  PROVE  /\ k.at \in {"idle", "calling", "backoff", "record"}
         /\ k.at \in {"calling", "backoff"} =>
              k.provider \in Providers /\ k.attempt \in Nat /\ k.max \in Nat
         /\ k.at = "record" => k.row \in Row
BY DEF Call, Free

LEMMA FreeIsCall == Free \in Call /\ Free.at = "idle"
BY DEF Call, Free

LEMMA GatewayInitInv == GatewayInit => GatewayInv
<1>. SUFFICES ASSUME GatewayInit PROVE GatewayInv
  OBVIOUS
<1>1. GatewayTypeOK
  BY FreeIsCall, GatewayAssumption DEF GatewayInit, GatewayTypeOK
<1>2. \A c \in Clients : call[c].at = "idle"
  BY FreeIsCall DEF GatewayInit
<1>3. Unwritten = {}
  BY <1>2 DEF Unwritten
<1>4. Balance
  BY <1>3, FS_EmptySet DEF Balance, GatewayInit
<1>. QED BY <1>1, <1>2, <1>4 DEF GatewayInv, RowsAreTrue, VerifiedIsEarned, GatewayInit

\* A request's slot changes: its type, and the set of unwritten charges.
LEMMA CallChanges ==
  ASSUME GatewayInv, NEW c \in Clients, NEW k \in Call, Goes(c, k)
  PROVE  /\ call' \in [Clients -> Call]
         /\ call'[c] = k /\ \A d \in Clients \ {c} : call'[d] = call[d]
         /\ Unwritten' = IF k.at = "record" /\ k.row.charge = 1
                         THEN Unwritten \cup {c} ELSE Unwritten \ {c}
         /\ IsFiniteSet(Unwritten')
<1>1. /\ call' \in [Clients -> Call]
      /\ call'[c] = k /\ \A d \in Clients \ {c} : call'[d] = call[d]
  BY DEF Goes, GatewayInv, GatewayTypeOK
<1>2. Unwritten' = IF k.at = "record" /\ k.row.charge = 1
                   THEN Unwritten \cup {c} ELSE Unwritten \ {c}
  BY <1>1 DEF Unwritten
<1>3. IsFiniteSet(Unwritten \cup {c}) /\ IsFiniteSet(Unwritten \ {c})
  BY FS_AddElement, FS_RemoveElement DEF GatewayInv, Balance
<1>. QED BY <1>1, <1>2, <1>3

\* A request goes on without a completion: what is due grows by the charge of
\* the row it is about to write.
LEMMA GoesOn ==
  ASSUME GatewayInv, NEW c \in Clients, NEW k \in Call, Goes(c, k), c \notin Unwritten,
         NEW charge \in {0, 1}, due' = due + charge,
         k.at = "record" /\ k.row.charge = 1 <=> charge = 1,
         UNCHANGED booked
  PROVE  Balance' /\ due' \in Nat
<1>1. /\ Unwritten' = IF charge = 1 THEN Unwritten \cup {c} ELSE Unwritten \ {c}
      /\ IsFiniteSet(Unwritten')
  BY CallChanges
<1>2. IsFiniteSet(Unwritten) /\ Cardinality(Unwritten) \in Nat
  BY FS_CardinalityType DEF GatewayInv, Balance
<1>3. Cardinality(Unwritten') = Cardinality(Unwritten) + charge
  <2>1. Cardinality(Unwritten \cup {c}) = Cardinality(Unwritten) + 1
    BY <1>2, FS_AddElement
  <2>2. Unwritten \ {c} = Unwritten
    OBVIOUS
  <2>. QED BY <1>1, <1>2, <2>1, <2>2
<1>4. due \in Nat /\ booked.cost \in Nat
  BY DEF GatewayInv, GatewayTypeOK
<1>5. due >= Cardinality(Unwritten)
      /\ (~booked.unknown => due = booked.cost + Cardinality(Unwritten))
  BY DEF GatewayInv, Balance
<1>6. /\ due' >= Cardinality(Unwritten')
      /\ ~booked'.unknown => due' = booked'.cost + Cardinality(Unwritten')
  BY <1>2, <1>3, <1>4, <1>5
<1>. QED BY <1>1, <1>4, <1>6 DEF Balance

LEMMA FailureRowType ==
  ASSUME NEW p \in Providers \cup {Unset}, NEW charge \in {0, 1}
  PROVE  LET k == FailureRow(p, charge) IN
         /\ k \in Call /\ k.at = "record" /\ k.row.charge = charge
         /\ k.row.cost = Unset /\ ~k.row.success
<1>1. [provider |-> p, success |-> FALSE, charge |-> charge, cost |-> Unset] \in Row
  BY DEF Row
<1>. QED BY <1>1 DEF FailureRow, Call

\* A provider that is resolved is registered.
LEMMA ResolvedType ==
  ASSUME NEW named \in Named
  PROVE  Resolve(named) \in DOMAIN Health \cup {Unset} /\ Resolve(named) \in Providers \cup {Unset}
BY GatewayAssumption DEF Resolve

LEMMA ClampType ==
  ASSUME NEW r \in Retries
  PROVE  Clamp(r) \in Nat
BY GatewayAssumption DEF Clamp, DefaultRetries, RetryCap, Lower

\* The rows under way stay true when one slot changes to a true one.
LEMMA TrueRowsKeep ==
  ASSUME GatewayInv, NEW c \in Clients, NEW k \in Call, Goes(c, k), answered \subseteq answered',
         k.at = "record" => /\ k.row.cost # Unset => k.row.cost = k.row.charge
                            /\ k.row.success => k.row.provider \in answered'
  PROVE  RowsAreTrue'
<1>1. call'[c] = k /\ \A d \in Clients \ {c} : call'[d] = call[d]
  BY CallChanges
<1>. QED BY <1>1 DEF GatewayInv, RowsAreTrue

\* What every step that only moves one request on owes the invariant.
LEMMA MovesOn ==
  ASSUME GatewayInv, NEW c \in Clients, NEW k \in Call, Goes(c, k), c \notin Unwritten,
         NEW charge \in {0, 1}, due' = due + charge,
         k.at = "record" /\ k.row.charge = 1 <=> charge = 1,
         UNCHANGED booked, answered \subseteq answered', answered' \subseteq Providers,
         k.at = "record" => /\ k.row.cost # Unset => k.row.cost = k.row.charge
                            /\ k.row.success => k.row.provider \in answered',
         invoked' \in 0..MaxInvocations
  PROVE  GatewayInv'
<1>1. Balance' /\ due' \in Nat
  BY GoesOn
<1>2. RowsAreTrue'
  BY TrueRowsKeep
<1>3. call' \in [Clients -> Call]
  BY CallChanges
<1>4. VerifiedIsEarned'
  BY DEF GatewayInv, VerifiedIsEarned, Real
<1>. QED BY <1>1, <1>2, <1>3, <1>4 DEF GatewayInv, GatewayTypeOK

LEMMA InvokeInv ==
  ASSUME GatewayInv, NEW c \in Clients, NEW role \in Roles, NEW level \in Levels \cup {Unset},
         NEW named \in Named, Invoke(c, role, level, named)
  PROVE  GatewayInv'
<1>1. BeginInvocation(c)
  BY DEF Invoke, Refuse, RejectRequest, FirstCall
<1>2. invoked' \in 0..MaxInvocations /\ c \notin Unwritten
  BY <1>1, FreeIsCall, GatewayAssumption DEF BeginInvocation, Unwritten, GatewayInv, GatewayTypeOK
<1>3. due \in Nat /\ answered \subseteq Providers
  BY DEF GatewayInv, GatewayTypeOK
<1>4. CASE Refuse(c, role, level, named)
  <2>. DEFINE k == FailureRow(Resolve(named), 0)
  <2>1. Goes(c, k) /\ UNCHANGED <<booked, due, answered>>
    BY <1>4 DEF Refuse
  <2>2. k \in Call /\ k.at = "record" /\ k.row.charge = 0 /\ k.row.cost = Unset /\ ~k.row.success
    BY ResolvedType, FailureRowType
  <2>. HIDE DEF k
  <2>3. due' = due + 0
    BY <1>3, <2>1
  <2>. QED BY <1>2, <1>3, <2>1, <2>2, <2>3, MovesOn
<1>5. CASE RejectRequest(c, role, level, named)
  BY <1>2, <1>5
  DEF RejectRequest, GatewayInv, GatewayTypeOK, RowsAreTrue, Balance, Unwritten, VerifiedIsEarned
<1>6. ASSUME NEW r \in Retries, FirstCall(c, role, level, named, r)
      PROVE  GatewayInv'
  <2>. DEFINE k == [at |-> "calling", provider |-> Resolve(named), attempt |-> 0, max |-> Clamp(r)]
  <2>1. Goes(c, k) /\ UNCHANGED <<booked, due, answered>> /\ Resolve(named) # Unset
    BY <1>6 DEF FirstCall, Served
  <2>2. k \in Call /\ k.at = "calling"
    BY <2>1, ResolvedType, ClampType DEF Call
  <2>. HIDE DEF k
  <2>3. due' = due + 0
    BY <1>3, <2>1
  <2>. QED BY <1>2, <1>3, <2>1, <2>2, <2>3, MovesOn
<1>. QED BY <1>4, <1>5, <1>6 DEF Invoke

LEMMA CompletesInv ==
  ASSUME GatewayInv, NEW c \in Clients, NEW stated \in BOOLEAN, Completes(c, stated)
  PROVE  GatewayInv'
<1>. DEFINE p == call[c].provider
            charge == IF Real(p) THEN 1 ELSE 0
            row == [provider |-> p, success |-> TRUE, charge |-> charge, cost |-> CostOf(p, stated)]
            k == [at |-> "record", row |-> row]
<1>1. /\ call[c].at = "calling" /\ Goes(c, k)
      /\ due' = due + charge /\ answered' = answered \cup {p}
      /\ UNCHANGED <<booked, invoked>>
  BY DEF Completes
<1>2. p \in Providers /\ c \notin Unwritten
  BY <1>1, CallShape DEF Unwritten, GatewayInv, GatewayTypeOK
<1>3. charge \in {0, 1} /\ CostOf(p, stated) \in {0, 1, Unset}
      /\ (CostOf(p, stated) # Unset => CostOf(p, stated) = charge)
  BY DEF CostOf
<1>4. /\ k \in Call /\ k.at = "record" /\ k.row.charge = charge
      /\ k.row.cost # Unset => k.row.cost = k.row.charge
      /\ k.row.provider = p
  BY <1>2, <1>3 DEF Call, Row
<1>. HIDE DEF k, charge, p
<1>5. answered' \subseteq Providers /\ answered \subseteq answered' /\ p \in answered'
      /\ invoked' \in 0..MaxInvocations
  BY <1>1, <1>2 DEF GatewayInv, GatewayTypeOK
<1>. QED BY <1>1, <1>2, <1>3, <1>4, <1>5, MovesOn

LEMMA CallFailedInv ==
  ASSUME GatewayInv, NEW c \in Clients, call[c].at = "calling",
         NEW retryable \in BOOLEAN, NEW charge \in {0, 1}, CallFailed(c, retryable, charge)
  PROVE  GatewayInv'
<1>1. /\ c \notin Unwritten
      /\ call[c].provider \in Providers /\ call[c].attempt \in Nat /\ call[c].max \in Nat
  BY CallShape DEF Unwritten, GatewayInv, GatewayTypeOK
<1>2. /\ UNCHANGED <<booked, answered, invoked>>
      /\ invoked' \in 0..MaxInvocations /\ answered \subseteq Providers /\ due \in Nat
  BY DEF CallFailed, GatewayInv, GatewayTypeOK
<1>3. CASE retryable /\ call[c].attempt < call[c].max
  <2>. DEFINE k == [call[c] EXCEPT !.at = "backoff"]
  <2>1. Goes(c, k) /\ due' = due + 0
    BY <1>2, <1>3 DEF CallFailed
  <2>2. k \in Call /\ k.at = "backoff"
    <3>1. call[c] \in [at : {"calling", "backoff"}, provider : Providers, attempt : Nat, max : Nat]
      BY DEF GatewayInv, GatewayTypeOK, Call, Free
    <3>. QED BY <3>1 DEF Call
  <2>. HIDE DEF k
  <2>. QED BY <1>1, <1>2, <2>1, <2>2, MovesOn
<1>4. CASE ~(retryable /\ call[c].attempt < call[c].max)
  <2>. DEFINE k == FailureRow(call[c].provider, charge)
  <2>1. Goes(c, k) /\ due' = due + charge
    BY <1>4 DEF CallFailed
  <2>2. k \in Call /\ k.at = "record" /\ k.row.charge = charge /\ k.row.cost = Unset
        /\ ~k.row.success
    BY <1>1, FailureRowType
  <2>. HIDE DEF k
  <2>. QED BY <1>1, <1>2, <2>1, <2>2, MovesOn
<1>. QED BY <1>3, <1>4

LEMMA AgainType ==
  ASSUME NEW r \in [at : {"calling", "backoff"}, provider : Providers, attempt : Nat, max : Nat]
  PROVE  LET k == [r EXCEPT !.at = "calling", !.attempt = @ + 1] IN
         /\ k \in [at : {"calling", "backoff"}, provider : Providers, attempt : Nat, max : Nat]
         /\ k.at = "calling"
<1>. DEFINE k == [r EXCEPT !.at = "calling", !.attempt = @ + 1]
<1>1. k.at = "calling" /\ k.provider = r.provider /\ k.max = r.max
  OBVIOUS
<1>2. k.attempt = r.attempt + 1
  OBVIOUS
<1>3. k = [x \in {"at", "provider", "attempt", "max"} |-> k[x]]
  OBVIOUS
<1>. HIDE DEF k
<1>4. k \in [at : {"calling", "backoff"}, provider : Providers, attempt : Nat, max : Nat]
  BY <1>1, <1>2, <1>3
<1>. QED BY <1>1, <1>4 DEF k

LEMMA CallAgainInv ==
  ASSUME GatewayInv, NEW c \in Clients, CallAgain(c)
  PROVE  GatewayInv'
<1>. DEFINE k == [call[c] EXCEPT !.at = "calling", !.attempt = @ + 1]
<1>1. /\ call[c].at = "backoff" /\ Goes(c, k) /\ UNCHANGED <<booked, due, answered, invoked>>
  BY DEF CallAgain
<1>2. c \notin Unwritten /\ due' = due + 0 /\ answered' \subseteq Providers
      /\ invoked' \in 0..MaxInvocations
  BY <1>1 DEF Unwritten, GatewayInv, GatewayTypeOK
<1>3. k \in Call /\ k.at = "calling"
  <2>1. call[c] \in [at : {"calling", "backoff"}, provider : Providers, attempt : Nat, max : Nat]
    BY <1>1 DEF GatewayInv, GatewayTypeOK, Call, Free
  <2>2. k \in [at : {"calling", "backoff"}, provider : Providers, attempt : Nat, max : Nat]
        /\ k.at = "calling"
    BY <2>1, AgainType
  <2>. HIDE DEF k
  <2>. QED BY <2>2 DEF Call
<1>. HIDE DEF k
<1>. QED BY <1>1, <1>2, <1>3, MovesOn

\* What becomes of the charges when a row is written or lost.
LEMMA RowLeaves ==
  ASSUME GatewayInv, NEW c \in Clients, call[c].at = "record", Goes(c, Free)
  PROVE  /\ call' \in [Clients -> Call]
         /\ RowsAreTrue' \/ answered' # answered
         /\ IsFiniteSet(Unwritten')
         /\ Cardinality(Unwritten) \in Nat
         /\ call[c].row \in Row
         /\ Cardinality(Unwritten') = Cardinality(Unwritten) - call[c].row.charge
<1>1. /\ call' \in [Clients -> Call]
      /\ call'[c] = Free /\ \A d \in Clients \ {c} : call'[d] = call[d]
      /\ Unwritten' = Unwritten \ {c} /\ IsFiniteSet(Unwritten')
  BY FreeIsCall, CallChanges
<1>2. call[c].row \in Row
  BY CallShape DEF GatewayInv, GatewayTypeOK
<1>3. IsFiniteSet(Unwritten) /\ Cardinality(Unwritten) \in Nat
  BY FS_CardinalityType DEF GatewayInv, Balance
<1>4. c \in Unwritten <=> call[c].row.charge = 1
  BY DEF Unwritten
<1>5. Cardinality(Unwritten') = IF c \in Unwritten THEN Cardinality(Unwritten) - 1
                                ELSE Cardinality(Unwritten)
  BY <1>1, <1>3, FS_RemoveElement
<1>6. call[c].row.charge \in {0, 1}
  BY <1>2 DEF Row
<1>7. RowsAreTrue' \/ answered' # answered
  BY <1>1, FreeIsCall DEF GatewayInv, RowsAreTrue
<1>. QED BY <1>1, <1>2, <1>3, <1>4, <1>5, <1>6, <1>7

LEMMA StoreRowInv ==
  ASSUME GatewayInv, NEW c \in Clients, StoreRow(c)
  PROVE  GatewayInv'
<1>. DEFINE row == call[c].row
<1>1. /\ call[c].at = "record" /\ Goes(c, Free)
      /\ booked' = [rows |-> booked.rows + 1,
                    cost |-> IF row.cost = Unset THEN booked.cost ELSE booked.cost + row.cost,
                    unknown |-> booked.unknown \/ row.cost = Unset,
                    verified |-> IF Verifies(row) THEN booked.verified \cup {row.provider}
                                 ELSE booked.verified]
      /\ UNCHANGED <<due, answered, invoked>>
  BY DEF StoreRow
<1>2. /\ call' \in [Clients -> Call] /\ RowsAreTrue' /\ IsFiniteSet(Unwritten')
      /\ Cardinality(Unwritten) \in Nat /\ row \in Row
      /\ Cardinality(Unwritten') = Cardinality(Unwritten) - row.charge
  BY <1>1, RowLeaves
<1>3. /\ row.cost # Unset => row.cost = row.charge
      /\ row.success => row.provider \in answered
  BY <1>1 DEF GatewayInv, RowsAreTrue
<1>4. /\ row.charge \in {0, 1} /\ row.cost \in {0, 1, Unset} /\ row.success \in BOOLEAN
      /\ row.provider \in Providers \cup {Unset}
  BY <1>2 DEF Row
<1>5. /\ booked.rows \in Nat /\ booked.cost \in Nat /\ booked.unknown \in BOOLEAN
      /\ booked.verified \subseteq Providers /\ due \in Nat /\ answered \subseteq Providers
  BY DEF GatewayInv, GatewayTypeOK
<1>. HIDE DEF row
<1>6. GatewayTypeOK'
  <2>1. booked'.verified \subseteq Providers
    BY <1>1, <1>3, <1>5 DEF Verifies
  <2>2. booked' \in [rows : Nat, cost : Nat, unknown : BOOLEAN, verified : SUBSET Providers]
    BY <1>1, <1>4, <1>5, <2>1
  <2>. QED BY <1>1, <1>2, <2>2 DEF GatewayInv, GatewayTypeOK
<1>7. Balance'
  <2>1. due >= Cardinality(Unwritten)
        /\ (~booked.unknown => due = booked.cost + Cardinality(Unwritten))
    BY DEF GatewayInv, Balance
  <2>2. due' >= Cardinality(Unwritten')
    BY <1>1, <1>2, <1>4, <1>5, <2>1
  <2>3. ~booked'.unknown => ~booked.unknown /\ row.cost # Unset
    BY <1>1
  <2>4. ~booked'.unknown => due' = booked'.cost + Cardinality(Unwritten')
    BY <1>1, <1>2, <1>3, <1>4, <1>5, <2>1, <2>3
  <2>. QED BY <1>2, <2>2, <2>4 DEF Balance
<1>8. VerifiedIsEarned'
  BY <1>1, <1>3 DEF GatewayInv, VerifiedIsEarned, Verifies, Real
<1>. QED BY <1>2, <1>6, <1>7, <1>8 DEF GatewayInv

LEMMA LoseRowInv ==
  ASSUME GatewayInv, NEW c \in Clients, LoseRow(c)
  PROVE  GatewayInv'
<1>. DEFINE row == call[c].row
<1>1. /\ call[c].at = "record" /\ Goes(c, Free) /\ due' = due - row.charge
      /\ UNCHANGED <<booked, answered, invoked>>
  BY DEF LoseRow
<1>2. /\ call' \in [Clients -> Call] /\ RowsAreTrue' /\ IsFiniteSet(Unwritten')
      /\ Cardinality(Unwritten) \in Nat /\ row \in Row
      /\ Cardinality(Unwritten') = Cardinality(Unwritten) - row.charge
  BY <1>1, RowLeaves
<1>3. row.charge \in {0, 1} /\ due \in Nat /\ booked.cost \in Nat
      /\ Cardinality(Unwritten') \in Nat
  BY <1>2, FS_CardinalityType DEF Row, GatewayInv, GatewayTypeOK
<1>4. /\ due' >= Cardinality(Unwritten')
      /\ ~booked'.unknown => due' = booked'.cost + Cardinality(Unwritten')
  BY <1>1, <1>2, <1>3 DEF GatewayInv, Balance
<1>5. due' \in Nat
  BY <1>1, <1>3, <1>4
<1>6. VerifiedIsEarned'
  BY <1>1 DEF GatewayInv, VerifiedIsEarned, Real
<1>. QED BY <1>1, <1>2, <1>4, <1>5, <1>6 DEF GatewayInv, GatewayTypeOK, Balance

LEMMA GatewayDiesInv ==
  ASSUME GatewayInv, GatewayDies
  PROVE  GatewayInv'
<1>1. /\ due' = due - Cardinality(Unwritten) /\ call' = [c \in Clients |-> Free]
      /\ UNCHANGED <<booked, answered, invoked>>
  BY DEF GatewayDies
<1>2. IsFiniteSet(Unwritten) /\ Cardinality(Unwritten) \in Nat
      /\ due >= Cardinality(Unwritten) /\ due \in Nat /\ booked.cost \in Nat
  BY FS_CardinalityType DEF GatewayInv, GatewayTypeOK, Balance
<1>3. Unwritten' = {} /\ IsFiniteSet({}) /\ Cardinality({}) = 0
  BY <1>1, FreeIsCall, FS_EmptySet DEF Unwritten
<1>4. due' \in Nat
  BY <1>1, <1>2
<1>5. Balance'
  <2>1. Cardinality(Unwritten') = 0
    BY <1>3
  <2>2. ~booked.unknown => due = booked.cost + Cardinality(Unwritten)
    BY DEF GatewayInv, Balance
  <2>3. /\ due' >= 0
        /\ ~booked'.unknown => due' = booked'.cost + 0
    BY <1>1, <1>2, <1>4, <2>2
  <2>. QED BY <1>3, <2>1, <2>3 DEF Balance
<1>6. RowsAreTrue' /\ VerifiedIsEarned'
  BY <1>1, FreeIsCall DEF GatewayInv, RowsAreTrue, VerifiedIsEarned, Real
<1>7. call' \in [Clients -> Call]
  BY <1>1, FreeIsCall
<1>. QED BY <1>1, <1>4, <1>5, <1>6, <1>7 DEF GatewayInv, GatewayTypeOK

LEMMA GatewayStepInv ==
  ASSUME GatewayInv, [GatewayNext]_gatewayVars
  PROVE  GatewayInv'
<1>1. ASSUME NEW c \in Clients, GatewayStep(c)
      PROVE  GatewayInv'
  <2>1. ASSUME NEW charge \in {0, 1}, TimesOut(c, charge)
        PROVE  GatewayInv'
    BY <2>1, CallFailedInv DEF TimesOut, TimerRuns
  <2>2. ASSUME NEW retryable \in BOOLEAN, NEW charge \in {0, 1}, ProviderFails(c, retryable, charge)
        PROVE  GatewayInv'
    BY <2>2, CallFailedInv DEF ProviderFails
  <2>. QED BY <1>1, <2>1, <2>2, CompletesInv, CallAgainInv, StoreRowInv, LoseRowInv
       DEF GatewayStep, OwnStep
<1>2. CASE UNCHANGED gatewayVars
  BY <1>2
  DEF gatewayVars, GatewayInv, GatewayTypeOK, RowsAreTrue, Balance, Unwritten, VerifiedIsEarned, Real
<1>. QED BY <1>1, <1>2, InvokeInv, GatewayDiesInv DEF GatewayNext

\* The inductive invariant of the gateway.
THEOREM GatewayInvariant == GatewaySpec => []GatewayInv
<1>. QED BY GatewayInitInv, GatewayStepInv, PTL DEF GatewaySpec

-----------------------------------------------------------------------------
Within(l) == l <= Ceiling /\ (l = OwnerOnlyLevel => OwnerOptIn)

\* A request plans at a level within the ceiling, or holds one to write.
LevelsAreWithin == \A c \in Clients :
  /\ bossReq[c].op \in {"note", "plan"} => Within(bossReq[c].level)
  /\ bossReq[c].op \in {"audit", "write"} /\ bossReq[c].level # Unset => Within(bossReq[c].level)

\* What is stored of a command is within the ceiling, whoever reads it.
CommandIsWithin(k) ==
  /\ Within(command[k].level)
  /\ \A i \in 1..Len(command[k].actions) :
       /\ Within(command[k].actions[i].level)
       /\ command[k].actions[i].granted => Within(command[k].actions[i].required)

StoredAreWithin == \A k \in Commands : Stored(k) => CommandIsWithin(k)

\* Only a command that is stored is planned, written or answered for.
OnCommand == {"note", "plan", "audit", "write", "archive"}

HeldIsStored ==
  /\ \A c \in Clients : bossReq[c].op \in OnCommand => Stored(bossReq[c].of)
  /\ created \subseteq {k \in Commands : Stored(k)}
  /\ \A k \in Commands : ~Stored(k) => command[k].actions = <<>>

\* A command whose reduction is not yet on record has not been answered for,
\* and no request is past the note.
UnnotedIsUnanswered == \A k \in reduced \ clampNoted :
  k \notin created /\ \A c \in Clients : bossReq[c].op = "plan" => bossReq[c].of # k

\* An update writes a reduced level only once the trail says so.
WriteIsNoted == \A c \in Clients :
  bossReq[c].op = "write" /\ bossReq[c].clamped => bossReq[c].of \in clampNoted

CommandPart ==
  LevelsAreWithin /\ StoredAreWithin /\ HeldIsStored /\ UnnotedIsUnanswered /\ WriteIsNoted

\* Two requests about to write the outcome of a decision have crossed on it.
MeetIsCrossing == \A d \in Decisions : \A x, y \in OnDecision(d) : x # y => d \in crossing

\* So has one that is about to write a second outcome.
LateIsCrossing == \A d \in Decisions :
  OnDecision(d) # {} /\ outcomes[d] > 0 => d \in crossing

OpenHasNone == \A d \in Decisions : decision[d] \in {"absent", "open"} => outcomes[d] = 0

\* The requests about to add the lesson of a decision, each after its outcome.
LessonsDue(d) == {c \in Clients : bossReq[c].op = "lesson" /\ bossReq[c].on = d}

LessonsAreDue == \A d \in Decisions :
  IsFiniteSet(LessonsDue(d)) /\ lessons[d] + Cardinality(LessonsDue(d)) <= outcomes[d]

DecisionPart ==
  MeetIsCrossing /\ LateIsCrossing /\ OpenHasNone /\ LessonsAreDue
  /\ \A d \in Decisions : outcomes[d] > 1 => d \in crossing

BossInv == BossTypeOK /\ CommandPart /\ DecisionPart

\* What each state of a request holds.
LEMMA BossShape ==
  ASSUME NEW r \in BossRequest
  PROVE  /\ r.op \in {"idle", "note", "plan", "audit", "write", "archive", "outcome", "lesson"}
         /\ r.op \in {"note", "plan"} => r.of \in Commands /\ r.level \in Levels /\ r.todo \in Seq(Levels)
         /\ r.op \in {"audit", "write"} =>
              /\ r.of \in Commands /\ r.level \in Levels \cup {Unset} /\ r.clamped \in BOOLEAN
              /\ r.status \in {"received", "planned", "archived", Unset}
         /\ r.op = "archive" => r.of \in Commands
         /\ r.op \in {"outcome", "lesson"} => r.on \in Decisions
BY DEF BossRequest, Resting

LEMMA RestingIsRequest == Resting \in BossRequest /\ Resting.op = "idle"
BY DEF BossRequest, Resting

LEMMA BossInitInv == BossInit => BossInv
<1>. SUFFICES ASSUME BossInit PROVE BossInv
  OBVIOUS
<1>1. /\ command = [k \in Commands |-> [status |-> "absent", level |-> 0, actions |-> <<>>]]
      /\ clampNoted = {} /\ reduced = {} /\ created = {} /\ crossing = {} /\ bossServed = 0
      /\ decision = [d \in Decisions |-> "absent"]
      /\ lessons = [d \in Decisions |-> 0] /\ outcomes = [d \in Decisions |-> 0]
      /\ bossReq = [c \in Clients |-> Resting]
  BY DEF BossInit
<1>2. command \in [Commands -> CommandRow] /\ \A k \in Commands : ~Stored(k)
  <2>1. [status |-> "absent", level |-> 0, actions |-> <<>>] \in CommandRow
    BY DEF CommandRow, Levels
  <2>. QED BY <1>1, <2>1 DEF Stored
<1>3. BossTypeOK
  BY <1>1, <1>2, RestingIsRequest, BossAssumption DEF BossTypeOK
<1>4. \A c \in Clients : bossReq[c].op = "idle"
  BY <1>1, RestingIsRequest
<1>5. CommandPart
  BY <1>1, <1>2, <1>4
  DEF OnCommand, CommandPart, LevelsAreWithin, StoredAreWithin, HeldIsStored, UnnotedIsUnanswered, WriteIsNoted
<1>6. \A d \in Decisions : OnDecision(d) = {} /\ LessonsDue(d) = {} /\ outcomes[d] = 0 /\ lessons[d] = 0
  BY <1>1, <1>4 DEF OnDecision, LessonsDue
<1>7. DecisionPart
  BY <1>1, <1>6, FS_EmptySet
  DEF DecisionPart, MeetIsCrossing, LateIsCrossing, OpenHasNone, LessonsAreDue
<1>. QED BY <1>3, <1>5, <1>7 DEF BossInv

\* A request's slot changes; the others hold what they held.
LEMMA HoldsType ==
  ASSUME BossInv, NEW c \in Clients, NEW r \in BossRequest, Holds(c, r)
  PROVE  /\ bossReq' \in [Clients -> BossRequest]
         /\ bossReq'[c] = r /\ \A d \in Clients \ {c} : bossReq'[d] = bossReq[d]
BY DEF Holds, BossInv, BossTypeOK

\* Steps that leave the commands alone.
LEMMA CommandFrame ==
  ASSUME CommandPart, UNCHANGED commandVars,
         \A c \in Clients : \/ bossReq'[c] = bossReq[c]
                            \/ bossReq'[c].op \notin OnCommand
  PROVE  CommandPart'
<1>0. UNCHANGED <<command, clampNoted, reduced, created>>
  BY DEF commandVars
<1>1. LevelsAreWithin'
  BY DEF CommandPart, LevelsAreWithin, Within, OnCommand
<1>2. StoredAreWithin'
  BY <1>0 DEF CommandPart, StoredAreWithin, Stored, CommandIsWithin, Within
<1>3. HeldIsStored'
  BY <1>0 DEF CommandPart, HeldIsStored, Stored
<1>4. UnnotedIsUnanswered' /\ WriteIsNoted'
  BY <1>0 DEF CommandPart, UnnotedIsUnanswered, WriteIsNoted, OnCommand
<1>. QED BY <1>1, <1>2, <1>3, <1>4 DEF CommandPart

\* Steps that leave the decisions alone, but for requests that end.
LEMMA DecisionFrame ==
  ASSUME DecisionPart, UNCHANGED decisionVars,
         \A c \in Clients : \/ bossReq'[c] = bossReq[c]
                            \/ bossReq'[c].op \notin {"outcome", "lesson"},
         lessons \in [Decisions -> Nat], outcomes \in [Decisions -> Nat]
  PROVE  DecisionPart'
<1>0. UNCHANGED <<decision, lessons, outcomes, crossing>>
  BY DEF decisionVars
<1>1. \A d \in Decisions : OnDecision(d)' \subseteq OnDecision(d)
                           /\ LessonsDue(d)' \subseteq LessonsDue(d)
  BY DEF OnDecision, LessonsDue
<1>2. MeetIsCrossing' /\ LateIsCrossing' /\ OpenHasNone'
      /\ \A d \in Decisions : outcomes'[d] > 1 => d \in crossing'
  BY <1>0, <1>1 DEF DecisionPart, MeetIsCrossing, LateIsCrossing, OpenHasNone
<1>3. LessonsAreDue'
  <2>. SUFFICES ASSUME NEW d \in Decisions
       PROVE  IsFiniteSet(LessonsDue(d)') /\ lessons[d] + Cardinality(LessonsDue(d)') <= outcomes[d]
    BY <1>0 DEF LessonsAreDue
  <2>1. IsFiniteSet(LessonsDue(d)) /\ lessons[d] + Cardinality(LessonsDue(d)) <= outcomes[d]
    BY DEF DecisionPart, LessonsAreDue
  <2>2. IsFiniteSet(LessonsDue(d)') /\ Cardinality(LessonsDue(d)') <= Cardinality(LessonsDue(d))
    BY <1>1, <2>1, FS_Subset
  <2>3. Cardinality(LessonsDue(d)) \in Nat /\ Cardinality(LessonsDue(d)') \in Nat
    BY <2>1, <2>2, FS_CardinalityType
  <2>. QED BY <2>1, <2>2, <2>3
<1>. QED BY <1>2, <1>3 DEF DecisionPart

\* A level in force is within the ceiling.
LEMMA EffectiveWithin ==
  ASSUME NEW asked \in AskedLevels, NEW role \in Roles
  PROVE  Effective(asked, role) \in Levels /\ Within(Effective(asked, role))
BY EffectiveIsWithin, BossAssumption DEF Within

\* A step of the request c that writes the row of the command k, or leaves it.
LEMMA RowWritten ==
  ASSUME BossInv, NEW c \in Clients, NEW k \in Commands,
         NEW row \in CommandRow, row.status # "absent", command' = [command EXCEPT ![k] = row],
         Within(row.level),
         \A i \in 1..Len(row.actions) :
           /\ Within(row.actions[i].level)
           /\ row.actions[i].granted => Within(row.actions[i].required),
         NEW r \in BossRequest, Holds(c, r), r.op \in OnCommand => r.of = k,
         r.op \in {"note", "plan"} => Within(r.level),
         r.op \in {"audit", "write"} /\ r.level # Unset => Within(r.level),
         r.op = "write" /\ r.clamped => k \in clampNoted',
         clampNoted \subseteq clampNoted', clampNoted' \subseteq Commands,
         created' \subseteq created \cup {k}, reduced' \subseteq reduced \cup {k},
         k \in reduced' \ clampNoted' =>
           /\ k \notin created' /\ r.op # "plan"
           /\ \A d \in Clients \ {c} : bossReq[d].op = "plan" => bossReq[d].of # k
  PROVE  /\ command' \in [Commands -> CommandRow] /\ bossReq' \in [Clients -> BossRequest]
         /\ created' \subseteq Commands /\ reduced' \subseteq Commands
         /\ CommandPart'
<1>1. /\ bossReq' \in [Clients -> BossRequest]
      /\ bossReq'[c] = r /\ \A d \in Clients \ {c} : bossReq'[d] = bossReq[d]
  BY HoldsType
<1>2. /\ command' \in [Commands -> CommandRow] /\ command'[k] = row
      /\ \A x \in Commands \ {k} : command'[x] = command[x]
  BY DEF BossInv, BossTypeOK
<1>3. created' \subseteq Commands /\ reduced' \subseteq Commands
  BY DEF BossInv, BossTypeOK
<1>4. LevelsAreWithin'
  BY <1>1 DEF BossInv, CommandPart, LevelsAreWithin, Within
<1>5. StoredAreWithin'
  <2>. SUFFICES ASSUME NEW x \in Commands, command'[x].status # "absent"
                PROVE  CommandIsWithin(x)'
    BY DEF StoredAreWithin, Stored
  <2>1. CASE x = k
    BY <1>2, <2>1 DEF CommandIsWithin, Within
  <2>2. CASE x # k
    <3>1. command'[x] = command[x] /\ CommandIsWithin(x)
      BY <1>2, <2>2 DEF BossInv, CommandPart, StoredAreWithin, Stored
    <3>. QED BY <3>1 DEF CommandIsWithin, Within
  <2>. QED BY <2>1, <2>2
<1>6. \A x \in Commands : command[x].status # "absent" => command'[x].status # "absent"
  BY <1>2
<1>7. \A d \in Clients : bossReq'[d].op \in OnCommand => command'[bossReq'[d].of].status # "absent"
  <2>. SUFFICES ASSUME NEW d \in Clients, bossReq'[d].op \in OnCommand
                PROVE  command'[bossReq'[d].of].status # "absent"
    OBVIOUS
  <2>1. CASE d = c
    BY <1>1, <1>2, <2>1
  <2>2. CASE d # c
    <3>1. bossReq'[d] = bossReq[d] /\ bossReq[d].op \in OnCommand /\ bossReq[d] \in BossRequest
      BY <1>1, <2>2 DEF BossInv, BossTypeOK
    <3>2. bossReq[d].of \in Commands
      BY <3>1, BossShape DEF OnCommand
    <3>3. command[bossReq[d].of].status # "absent"
      BY <3>1 DEF BossInv, CommandPart, HeldIsStored, Stored
    <3>. QED BY <1>6, <3>1, <3>2, <3>3
  <2>. QED BY <2>1, <2>2
<1>8. HeldIsStored'
  <2>1. created' \subseteq {x \in Commands : command'[x].status # "absent"}
    BY <1>2, <1>3 DEF BossInv, CommandPart, HeldIsStored, Stored
  <2>2. \A x \in Commands : ~(command'[x].status # "absent") => command'[x].actions = <<>>
    BY <1>2 DEF BossInv, CommandPart, HeldIsStored, Stored
  <2>. QED BY <1>7, <2>1, <2>2 DEF HeldIsStored, Stored, OnCommand
<1>9. UnnotedIsUnanswered'
  <2>. SUFFICES ASSUME NEW x \in reduced', x \notin clampNoted'
                PROVE  x \notin created' /\ \A d \in Clients : bossReq'[d].op = "plan" => bossReq'[d].of # x
    BY DEF UnnotedIsUnanswered
  <2>1. CASE x = k
    BY <1>1, <2>1
  <2>2. CASE x # k
    <3>1. x \in reduced \ clampNoted /\ (r.op = "plan" => r.of # x)
      BY <2>2 DEF OnCommand
    <3>2. x \notin created /\ \A d \in Clients : bossReq[d].op = "plan" => bossReq[d].of # x
      BY <3>1 DEF BossInv, CommandPart, UnnotedIsUnanswered
    <3>. QED BY <1>1, <2>2, <3>1, <3>2
  <2>. QED BY <2>1, <2>2
<1>10. WriteIsNoted'
  BY <1>1 DEF BossInv, CommandPart, WriteIsNoted, OnCommand
<1>. QED BY <1>1, <1>2, <1>3, <1>4, <1>5, <1>8, <1>9, <1>10 DEF CommandPart

\* What a step on a command leaves of the rest.
LEMMA CommandStepInv ==
  ASSUME BossInv, UNCHANGED decisionVars, NEW c \in Clients, NEW r \in BossRequest, Holds(c, r),
         r.op \notin {"outcome", "lesson"}, bossServed' \in 0..MaxBoss, clampNoted' \subseteq Commands,
         command' \in [Commands -> CommandRow], bossReq' \in [Clients -> BossRequest],
         created' \subseteq Commands, reduced' \subseteq Commands, CommandPart'
  PROVE  BossInv'
<1>1. BossTypeOK'
  BY DEF BossInv, BossTypeOK, decisionVars
<1>2. \A d \in Clients : bossReq'[d] = bossReq[d] \/ bossReq'[d].op \notin {"outcome", "lesson"}
  BY HoldsType
<1>3. DecisionPart'
  BY <1>2, DecisionFrame DEF BossInv, BossTypeOK
<1>. QED BY <1>1, <1>3 DEF BossInv

\* Whatever its text, the plan of a command is levels its actions require.
LEMMA PlanIsLevels ==
  ASSUME NEW text
  PROVE  GeneratePlan(text) \in Seq(Levels)
<1>1. \A tool : RequiredAutonomy(tool) \in Levels
  BY DEF RequiredAutonomy, Levels
<1>2. ClassifyIntent(text) \in {"publish", "research", "revenue", "asset", "clarify"}
  <2>. DEFINE hits == {i \in 1..4 : IntentRules[i] \in text}
  <2>1. Len(IntentRules) = 4
        /\ \A i \in 1..4 : IntentRules[i] \in {"publish", "research", "revenue", "asset"}
    BY DEF IntentRules
  <2>2. ASSUME hits # {}
        PROVE  \E i \in hits : \A j \in hits : i <= j
    BY <2>2
  <2>3. ASSUME hits # {}
        PROVE  (CHOOSE i \in hits : \A j \in hits : i <= j) \in 1..4
    BY <2>2, <2>3
  <2>. QED BY <2>1, <2>3 DEF ClassifyIntent
<1>. DEFINE tools == ToolsOf[ClassifyIntent(text)]
<1>3. Len(tools) \in Nat
  <2>1. /\ Len(ToolsOf["publish"]) = 3 /\ Len(ToolsOf["research"]) = 2
        /\ Len(ToolsOf["revenue"]) = 2 /\ Len(ToolsOf["asset"]) = 1
        /\ Len(ToolsOf["clarify"]) = 2
    BY DEF ToolsOf
  <2>. QED BY <1>2, <2>1
<1>. HIDE DEF tools
<1>4. [i \in 1..Len(tools) |-> RequiredAutonomy(tools[i])] \in [1..Len(tools) -> Levels]
  BY <1>1
<1>5. [i \in 1..Len(tools) |-> RequiredAutonomy(tools[i])] \in Seq(Levels)
  BY <1>3, <1>4
<1>. QED BY <1>5 DEF GeneratePlan, tools

LEMMA CreateCommandInv ==
  ASSUME BossInv, NEW c \in Clients, NEW role \in Roles, NEW k \in Commands,
         NEW asked \in AskedLevels, NEW text \in CommandTexts, CreateCommand(c, role, k, asked, text)
  PROVE  BossInv'
<1>. DEFINE lev == Effective(asked, role)
            r == [op |-> IF MustNote(asked, role) THEN "note" ELSE "plan", of |-> k,
                  level |-> lev, todo |-> GeneratePlan(text)]
            row == [status |-> "received", level |-> lev, actions |-> <<>>]
<1>1. /\ BeginBoss(c) /\ ~Stored(k)
      /\ command' = [command EXCEPT ![k].status = "received", ![k].level = lev]
      /\ reduced' = Reduced(k, Clamped(asked, role))
      /\ Holds(c, r)
      /\ UNCHANGED <<clampNoted, created, decisionVars>>
  BY DEF CreateCommand
<1>2. lev \in Levels /\ Within(lev)
  BY EffectiveWithin
<1>3. r \in BossRequest /\ r.op \in {"note", "plan"} /\ r.of = k /\ r.level = lev
      /\ (r.op = "plan" => ~Clamped(asked, role))
  BY <1>2, PlanIsLevels DEF BossRequest, MustNote
<1>4. /\ row \in CommandRow /\ row.status = "received" /\ row.level = lev /\ row.actions = <<>>
  BY <1>2 DEF CommandRow
<1>. HIDE DEF lev
<1>5. command' = [command EXCEPT ![k] = row]
  <2>1. command[k] \in CommandRow /\ command[k].actions = <<>>
    BY <1>1 DEF BossInv, BossTypeOK, CommandPart, HeldIsStored
  <2>2. /\ command' \in [Commands -> CommandRow] /\ command \in [Commands -> CommandRow]
        /\ command'[k].status = "received" /\ command'[k].level = lev
        /\ command'[k].actions = <<>>
        /\ \A x \in Commands \ {k} : command'[x] = command[x]
    BY <1>1, <1>2, <2>1 DEF BossInv, BossTypeOK, CommandRow
  <2>3. command'[k] = row
    BY <2>2 DEF CommandRow
  <2>. HIDE DEF row
  <2>. QED BY <2>2, <2>3
<1>. HIDE DEF r, row
<1>6. reduced' \subseteq reduced \cup {k} /\ (k \in reduced' => Clamped(asked, role))
  BY <1>1 DEF Reduced
<1>7. k \notin created' /\ \A d \in Clients \ {c} : bossReq[d].op = "plan" => bossReq[d].of # k
  BY <1>1 DEF BossInv, CommandPart, HeldIsStored, OnCommand
<1>8. bossServed' \in 0..MaxBoss
  BY <1>1, BossAssumption DEF BeginBoss, BossInv, BossTypeOK
<1>9. clampNoted' \subseteq Commands
  BY <1>1 DEF BossInv, BossTypeOK
<1>10. /\ command' \in [Commands -> CommandRow] /\ bossReq' \in [Clients -> BossRequest]
       /\ created' \subseteq Commands /\ reduced' \subseteq Commands
       /\ CommandPart'
  <2>1. row.status # "absent" /\ Len(row.actions) = 0
    BY <1>4
  <2>2. r.op # "plan" \/ k \notin reduced'
    BY <1>3, <1>6
  <2>3. /\ r.op \in OnCommand => r.of = k
        /\ r.op \in {"note", "plan"} => Within(r.level)
        /\ ~(r.op = "write" /\ r.clamped) /\ r.op \notin {"audit", "write"}
    BY <1>2, <1>3
  <2>4. \A i \in 1..Len(row.actions) :
           /\ Within(row.actions[i].level)
           /\ row.actions[i].granted => Within(row.actions[i].required)
    BY <2>1
  <2>5. /\ Within(row.level) /\ row \in CommandRow /\ r \in BossRequest /\ Holds(c, r)
        /\ clampNoted \subseteq clampNoted' /\ created' \subseteq created \cup {k}
        /\ k \notin created'
    BY <1>1, <1>2, <1>3, <1>4, <1>7
  <2>. QED BY <1>5, <1>6, <1>7, <1>9, <2>1, <2>2, <2>3, <2>4, <2>5, RowWritten
<1>. QED BY <1>1, <1>3, <1>8, <1>9, <1>10, CommandStepInv

\* What a request that holds a command knows of it.
LEMMA HeldCommand ==
  ASSUME BossInv, NEW c \in Clients, bossReq[c].op \in OnCommand
  PROVE  /\ bossReq[c] \in BossRequest /\ bossReq[c].of \in Commands
         /\ command[bossReq[c].of] \in CommandRow
         /\ command[bossReq[c].of].status # "absent"
         /\ CommandIsWithin(bossReq[c].of)
<1>1. bossReq[c] \in BossRequest
  BY DEF BossInv, BossTypeOK
<1>2. bossReq[c].of \in Commands
  BY <1>1, BossShape DEF OnCommand
<1>3. Stored(bossReq[c].of)
  BY DEF BossInv, CommandPart, HeldIsStored
<1>. QED BY <1>1, <1>2, <1>3 DEF BossInv, BossTypeOK, CommandPart, StoredAreWithin, Stored

\* A step of c that leaves the row of k, a stored command, as it is.
LEMMA RowKept ==
  ASSUME BossInv, NEW c \in Clients, NEW k \in Commands, Stored(k), command' = command,
         NEW r \in BossRequest, Holds(c, r), r.op \in OnCommand => r.of = k,
         r.op \notin {"outcome", "lesson"}, bossServed' \in 0..MaxBoss,
         r.op \in {"note", "plan"} => Within(r.level),
         r.op \in {"audit", "write"} /\ r.level # Unset => Within(r.level),
         r.op = "write" /\ r.clamped => k \in clampNoted',
         clampNoted \subseteq clampNoted', clampNoted' \subseteq Commands,
         r.op = "plan" => k \in clampNoted',
         UNCHANGED <<created, reduced, decisionVars>>
  PROVE  BossInv'
<1>1. /\ command[k] \in CommandRow /\ command[k].status # "absent"
      /\ command' = [command EXCEPT ![k] = command[k]]
  BY DEF BossInv, BossTypeOK, Stored
<1>2. CommandIsWithin(k)
  BY DEF BossInv, CommandPart, StoredAreWithin
<1>3. k \in reduced \ clampNoted =>
        k \notin created /\ \A d \in Clients : bossReq[d].op = "plan" => bossReq[d].of # k
  BY DEF BossInv, CommandPart, UnnotedIsUnanswered
<1>4. /\ command' \in [Commands -> CommandRow] /\ bossReq' \in [Clients -> BossRequest]
      /\ created' \subseteq Commands /\ reduced' \subseteq Commands
      /\ CommandPart'
  <2>1. /\ Within(command[k].level)
        /\ \A i \in 1..Len(command[k].actions) :
             /\ Within(command[k].actions[i].level)
             /\ command[k].actions[i].granted => Within(command[k].actions[i].required)
    BY <1>2 DEF CommandIsWithin
  <2>2. k \in reduced' \ clampNoted' =>
          /\ k \notin created' /\ r.op # "plan"
          /\ \A d \in Clients \ {c} : bossReq[d].op = "plan" => bossReq[d].of # k
    BY <1>3
  <2>3. created' \subseteq created \cup {k} /\ reduced' \subseteq reduced \cup {k}
    OBVIOUS
  <2>4. PICK row \in CommandRow : row = command[k]
    BY <1>1
  <2>. QED BY <1>1, <2>1, <2>2, <2>3, <2>4, RowWritten
<1>. QED BY <1>4, CommandStepInv

LEMMA NoteClampInv ==
  ASSUME BossInv, NEW c \in Clients, NoteClamp(c)
  PROVE  BossInv'
<1>. DEFINE r == [bossReq[c] EXCEPT !.op = "plan"]
            k == bossReq[c].of
<1>1. /\ bossReq[c].op = "note" /\ clampNoted' = clampNoted \cup {k} /\ Holds(c, r)
      /\ command' = command /\ UNCHANGED <<created, reduced, decisionVars, bossServed>>
  BY DEF NoteClamp
<1>2. bossReq[c] \in BossRequest /\ k \in Commands /\ Stored(k)
  BY <1>1, HeldCommand DEF OnCommand, Stored
<1>3. r \in BossRequest /\ r.op = "plan" /\ r.of = k /\ r.level = bossReq[c].level
  BY <1>1, <1>2 DEF BossRequest, Resting
<1>4. Within(r.level)
  BY <1>1, <1>3 DEF BossInv, CommandPart, LevelsAreWithin
<1>5. clampNoted' \subseteq Commands /\ bossServed' \in 0..MaxBoss
  BY <1>1, <1>2 DEF BossInv, BossTypeOK
<1>. HIDE DEF r, k
<1>. QED BY <1>1, <1>2, <1>3, <1>4, <1>5, RowKept

LEMMA AuditUpdateInv ==
  ASSUME BossInv, NEW c \in Clients, AuditUpdate(c)
  PROVE  BossInv'
<1>. DEFINE r == [bossReq[c] EXCEPT !.op = "write"]
            k == bossReq[c].of
<1>1. /\ bossReq[c].op = "audit" /\ Holds(c, r)
      /\ clampNoted' = IF bossReq[c].clamped THEN clampNoted \cup {k} ELSE clampNoted
      /\ command' = command /\ UNCHANGED <<created, reduced, decisionVars, bossServed>>
  BY DEF AuditUpdate
<1>2. bossReq[c] \in BossRequest /\ k \in Commands /\ Stored(k)
  BY <1>1, HeldCommand DEF OnCommand, Stored
<1>3. /\ r \in BossRequest /\ r.op = "write" /\ r.of = k
      /\ r.level = bossReq[c].level /\ r.clamped = bossReq[c].clamped
  BY <1>1, <1>2 DEF BossRequest, Resting
<1>4. r.level # Unset => Within(r.level)
  BY <1>1, <1>3 DEF BossInv, CommandPart, LevelsAreWithin
<1>5. /\ clampNoted \subseteq clampNoted' /\ clampNoted' \subseteq Commands
      /\ r.clamped => k \in clampNoted'
  BY <1>1, <1>2, <1>3 DEF BossInv, BossTypeOK
<1>6. bossServed' \in 0..MaxBoss
  BY <1>1 DEF BossInv, BossTypeOK
<1>. HIDE DEF r, k
<1>. QED BY <1>1, <1>2, <1>3, <1>4, <1>5, <1>6, RowKept

LEMMA LoadForUpdateInv ==
  ASSUME BossInv, NEW c \in Clients, NEW role \in Roles, NEW k \in Commands,
         NEW asked \in AskedLevels, NEW status \in AskedStatus,
         LoadForUpdate(c, role, k, asked, status)
  PROVE  BossInv'
<1>. DEFINE r == [op |-> "audit", of |-> k, status |-> status,
                  level |-> IF asked = Unset THEN Unset ELSE Effective(asked, role),
                  clamped |-> asked # Unset /\ MustNote(asked, role)]
<1>1. /\ BeginBoss(c) /\ Stored(k) /\ (bossReq' = bossReq \/ Holds(c, r))
      /\ UNCHANGED <<command, clampNoted, created, reduced, decisionVars>> /\ UNCHANGED commandVars
  BY DEF LoadForUpdate, commandVars
<1>2. Effective(asked, role) \in Levels /\ Within(Effective(asked, role))
  BY EffectiveWithin
<1>3. r \in BossRequest /\ r.op = "audit" /\ r.of = k /\ (r.level # Unset => Within(r.level))
  <2>1. /\ r.level \in Levels \cup {Unset} /\ (r.level # Unset => Within(r.level))
        /\ r.clamped \in BOOLEAN /\ r.status \in {"received", "planned", "archived", Unset}
    BY <1>2, BossAssumption DEF MustNote, Clamped
  <2>2. r \in [op : {"audit", "write"}, of : Commands, level : Levels \cup {Unset},
                clamped : BOOLEAN, status : {"received", "planned", "archived", Unset}]
    BY <2>1
  <2>. HIDE DEF r
  <2>3. r.op = "audit" /\ r.of = k
    BY DEF r
  <2>. QED BY <2>1, <2>2, <2>3 DEF BossRequest
<1>. HIDE DEF r
<1>4. clampNoted \subseteq Commands /\ bossServed' \in 0..MaxBoss
  <2>1. bossServed < MaxBoss /\ bossServed' = bossServed + 1
    BY <1>1 DEF BeginBoss
  <2>. QED BY <2>1, BossAssumption DEF BossInv, BossTypeOK
<1>5. CASE Holds(c, r)
  <2>1. /\ r.op \in OnCommand => r.of = k
        /\ r.op \notin {"note", "plan", "write", "outcome", "lesson"}
        /\ clampNoted \subseteq clampNoted' /\ clampNoted' \subseteq Commands
        /\ UNCHANGED <<created, reduced, decisionVars>>
    BY <1>1, <1>3, <1>4
  <2>. QED BY <1>1, <1>3, <1>4, <1>5, <2>1, RowKept
<1>6. CASE bossReq' = bossReq
  <2>1. CommandPart' /\ DecisionPart'
    BY <1>1, <1>6, CommandFrame, DecisionFrame DEF BossInv, BossTypeOK
  <2>. QED BY <1>1, <1>4, <1>6, <2>1 DEF BossInv, BossTypeOK, decisionVars
<1>. QED BY <1>1, <1>5, <1>6

LEMMA LoadForArchiveInv ==
  ASSUME BossInv, NEW c \in Clients, NEW k \in Commands, LoadForArchive(c, k)
  PROVE  BossInv'
<1>. DEFINE r == [op |-> "archive", of |-> k]
<1>1. /\ BeginBoss(c) /\ Stored(k) /\ Holds(c, r)
      /\ UNCHANGED <<command, clampNoted, created, reduced, decisionVars>>
  BY DEF LoadForArchive, commandVars
<1>2. r \in BossRequest /\ r.op = "archive" /\ r.of = k
  BY DEF BossRequest
<1>3. clampNoted \subseteq Commands /\ bossServed' \in 0..MaxBoss
  BY <1>1, BossAssumption DEF BeginBoss, BossInv, BossTypeOK
<1>. HIDE DEF r
<1>. QED BY <1>1, <1>2, <1>3, RowKept

\* A step of c that writes the row of the command it holds and notes nothing.
LEMMA HeldIsWritten ==
  ASSUME BossInv, NEW c \in Clients, bossReq[c].op \in OnCommand,
         NEW k \in Commands, k = bossReq[c].of,
         NEW row \in CommandRow, row.status # "absent", command' = [command EXCEPT ![k] = row],
         Within(row.level),
         \A i \in 1..Len(row.actions) :
           /\ Within(row.actions[i].level)
           /\ row.actions[i].granted => Within(row.actions[i].required),
         NEW r \in BossRequest, Holds(c, r), r = Resting \/ (r.op = "plan" /\ r.of = k /\ Within(r.level)),
         UNCHANGED <<clampNoted, bossServed, decisionVars>>,
         created' \subseteq created \cup {k}, reduced' \subseteq reduced \cup {k},
         k \in reduced' \ clampNoted =>
           /\ k \notin created' /\ r.op # "plan"
           /\ \A d \in Clients \ {c} : bossReq[d].op = "plan" => bossReq[d].of # k
  PROVE  BossInv'
<1>1. /\ r.op \in {"idle", "plan"} /\ (r.op = "plan" => r.of = k /\ Within(r.level))
  BY RestingIsRequest
<1>2. clampNoted' \subseteq Commands /\ clampNoted \subseteq clampNoted' /\ bossServed' \in 0..MaxBoss
  BY DEF BossInv, BossTypeOK
<1>3. /\ command' \in [Commands -> CommandRow] /\ bossReq' \in [Clients -> BossRequest]
      /\ created' \subseteq Commands /\ reduced' \subseteq Commands
      /\ CommandPart'
  <2>1. /\ r.op \in OnCommand => r.of = k
        /\ r.op \in {"note", "plan"} => Within(r.level)
        /\ r.op \in {"audit", "write"} /\ r.level # Unset => Within(r.level)
        /\ r.op = "write" /\ r.clamped => k \in clampNoted'
    BY <1>1 DEF OnCommand
  <2>. QED BY <1>2, <2>1, RowWritten
<1>. QED BY <1>1, <1>2, <1>3, CommandStepInv

\* A verdict grants an action only at a level that covers it.
LEMMA PermissionIsAction ==
  ASSUME NEW required \in Levels, NEW level \in Levels
  PROVE  /\ Permission(required, level) \in Action
         /\ Permission(required, level).level = level
         /\ Permission(required, level).required = required
         /\ Permission(required, level).granted => required <= level
<1>. DEFINE granted == level >= required
            p == [required |-> required, level |-> level, granted |-> granted]
<1>1. granted \in BOOLEAN /\ (granted => required <= level)
  BY DEF Levels
<1>2. Permission(required, level) = p
  BY DEF Permission
<1>. HIDE DEF granted
<1>3. p \in Action /\ p.level = level /\ p.required = required /\ (p.granted <=> granted)
  BY <1>1 DEF Action
<1>. HIDE DEF p
<1>. QED BY <1>1, <1>2, <1>3

LEMMA PlanActionInv ==
  ASSUME BossInv, NEW c \in Clients, PlanAction(c)
  PROVE  BossInv'
<1>. DEFINE q == bossReq[c]
            act == Permission(Head(q.todo), q.level)
            r == [q EXCEPT !.todo = Tail(@)]
<1>1. /\ q.op = "plan" /\ q.todo # <<>> /\ Holds(c, r)
      /\ command' = [command EXCEPT ![q.of].actions = Append(@, act)]
      /\ UNCHANGED <<clampNoted, bossServed, created, reduced, decisionVars>>
  BY DEF PlanAction
<1>2. /\ q \in BossRequest /\ q.of \in Commands /\ command[q.of] \in CommandRow
      /\ command[q.of].status # "absent" /\ CommandIsWithin(q.of)
  BY <1>1, HeldCommand DEF OnCommand
<1>3. q.level \in Levels /\ q.todo \in Seq(Levels) /\ Within(q.level)
  BY <1>1, <1>2, BossShape DEF BossInv, CommandPart, LevelsAreWithin
<1>4. /\ act \in Action /\ act.level = q.level
      /\ act.required \in Levels /\ (act.granted => act.required <= q.level)
  <2>1. Head(q.todo) \in Levels
    BY <1>1, <1>3
  <2>. QED BY <1>3, <2>1, PermissionIsAction
<1>5. act.granted => Within(act.required)
  BY <1>3, <1>4, BossAssumption DEF Within, Levels, OwnerOnlyLevel, Ceiling, DefaultLevel
<1>6. r \in BossRequest /\ r.op = "plan" /\ r.of = q.of /\ r.level = q.level
  <2>1. q \in [op : {"note", "plan"}, of : Commands, level : Levels, todo : Seq(Levels)]
    BY <1>1, <1>2 DEF BossRequest, Resting
  <2>2. Tail(q.todo) \in Seq(Levels)
    BY <1>1, <1>3
  <2>. HIDE DEF q
  <2>3. /\ r \in [op : {"note", "plan"}, of : Commands, level : Levels, todo : Seq(Levels)]
        /\ r.op = q.op /\ r.of = q.of /\ r.level = q.level
    BY <2>1, <2>2
  <2>. HIDE DEF r
  <2>. QED BY <1>1, <2>3 DEF BossRequest
<1>. HIDE DEF act, r
<1>7. PICK k \in Commands : k = q.of
  BY <1>2
<1>8. PICK old \in CommandRow : old = command[k]
  BY <1>2, <1>7
<1>. DEFINE row == [old EXCEPT !.actions = Append(@, act)]
<1>9. /\ row \in CommandRow /\ row.status = old.status /\ row.level = old.level
      /\ row.actions = Append(old.actions, act) /\ old.actions \in Seq(Action)
  BY <1>4 DEF CommandRow
<1>10. command' = [command EXCEPT ![k] = row]
  <2>. HIDE DEF q
  <2>. QED BY <1>1, <1>7, <1>8 DEF BossInv, BossTypeOK, CommandRow
<1>. HIDE DEF row
<1>11. /\ row.status # "absent" /\ Within(row.level)
       /\ \A i \in 1..Len(row.actions) :
            /\ Within(row.actions[i].level)
            /\ row.actions[i].granted => Within(row.actions[i].required)
  <2>1. /\ old.status # "absent" /\ Within(old.level)
        /\ \A i \in 1..Len(old.actions) :
             /\ Within(old.actions[i].level)
             /\ old.actions[i].granted => Within(old.actions[i].required)
    BY <1>2, <1>7, <1>8 DEF CommandIsWithin
  <2>2. SUFFICES ASSUME NEW i \in 1..Len(row.actions)
                 PROVE  /\ Within(row.actions[i].level)
                        /\ row.actions[i].granted => Within(row.actions[i].required)
    BY <1>9, <2>1
  <2>3. /\ Len(row.actions) = Len(old.actions) + 1
        /\ i \in 1..Len(old.actions) => row.actions[i] = old.actions[i]
        /\ i = Len(old.actions) + 1 => row.actions[i] = act
    BY <1>4, <1>9
  <2>4. Len(old.actions) \in Nat
    BY <1>9
  <2>5. CASE i \in 1..Len(old.actions)
    BY <2>1, <2>3, <2>5
  <2>6. CASE i = Len(old.actions) + 1
    BY <1>3, <1>4, <1>5, <2>3, <2>6
  <2>. QED BY <2>3, <2>4, <2>5, <2>6
<1>12. k \notin reduced' \ clampNoted
  BY <1>1, <1>7 DEF BossInv, CommandPart, UnnotedIsUnanswered
<1>13. q.op \in OnCommand /\ Within(r.level) /\ r.of = k
  BY <1>1, <1>3, <1>6, <1>7 DEF OnCommand
<1>. QED
  BY <1>1, <1>6, <1>7, <1>9, <1>10, <1>11, <1>12, <1>13, HeldIsWritten

\* A step of c that ends with a new status of its command.
LEMMA StatusWritten ==
  ASSUME BossInv, NEW c \in Clients, bossReq[c].op \in OnCommand,
         NEW status \in {"planned", "archived"},
         command' = [command EXCEPT ![bossReq[c].of].status = status], Holds(c, Resting),
         UNCHANGED <<clampNoted, bossServed, reduced, decisionVars>>,
         created' \subseteq created \cup {bossReq[c].of},
         bossReq[c].of \in reduced \ clampNoted => bossReq[c].of \notin created'
  PROVE  BossInv'
<1>1. /\ bossReq[c].of \in Commands /\ command[bossReq[c].of] \in CommandRow
      /\ CommandIsWithin(bossReq[c].of)
  BY HeldCommand
<1>2. PICK k \in Commands : k = bossReq[c].of
  BY <1>1
<1>3. PICK old \in CommandRow : old = command[k]
  BY <1>1, <1>2
<1>. DEFINE row == [old EXCEPT !.status = status]
<1>4. /\ row \in CommandRow /\ row.status = status /\ row.level = old.level
      /\ row.actions = old.actions
  BY DEF CommandRow
<1>5. command' = [command EXCEPT ![k] = row]
  BY <1>2, <1>3 DEF BossInv, BossTypeOK
<1>. HIDE DEF row
<1>6. /\ row.status # "absent" /\ Within(row.level)
      /\ \A i \in 1..Len(row.actions) :
           /\ Within(row.actions[i].level)
           /\ row.actions[i].granted => Within(row.actions[i].required)
  BY <1>1, <1>2, <1>3, <1>4 DEF CommandIsWithin
<1>7. k \in reduced \ clampNoted =>
        k \notin created' /\ \A d \in Clients : bossReq[d].op = "plan" => bossReq[d].of # k
  BY <1>2 DEF BossInv, CommandPart, UnnotedIsUnanswered
<1>. QED
  BY <1>2, <1>4, <1>5, <1>6, <1>7, RestingIsRequest, HeldIsWritten

LEMMA FinishPlanInv ==
  ASSUME BossInv, NEW c \in Clients, FinishPlan(c)
  PROVE  BossInv'
<1>1. bossReq[c].op = "plan" /\ created' = created \cup {bossReq[c].of}
  BY DEF FinishPlan
<1>2. bossReq[c].of \notin reduced \ clampNoted
  BY <1>1 DEF BossInv, CommandPart, UnnotedIsUnanswered
<1>. QED BY <1>1, <1>2, StatusWritten DEF FinishPlan, OnCommand

LEMMA ArchiveInv ==
  ASSUME BossInv, NEW c \in Clients, Archive(c)
  PROVE  BossInv'
<1>1. bossReq[c].op = "archive" /\ created' = created
  BY DEF Archive
<1>2. bossReq[c].of \in reduced \ clampNoted => bossReq[c].of \notin created
  BY DEF BossInv, CommandPart, UnnotedIsUnanswered
<1>. QED BY <1>1, <1>2, StatusWritten DEF Archive, OnCommand

LEMMA WriteUpdateInv ==
  ASSUME BossInv, NEW c \in Clients, WriteUpdate(c)
  PROVE  BossInv'
<1>. DEFINE q == bossReq[c]
<1>1. /\ q.op = "write" /\ Holds(c, Resting)
      /\ command' = [command EXCEPT
            ![q.of].level = IF q.level = Unset THEN @ ELSE q.level,
            ![q.of].status = IF q.status = Unset THEN @ ELSE q.status]
      /\ reduced' = IF q.level = Unset THEN reduced ELSE Reduced(q.of, q.clamped)
      /\ UNCHANGED <<clampNoted, bossServed, created, decisionVars>>
  BY DEF WriteUpdate
<1>2. /\ q \in BossRequest /\ q.of \in Commands /\ command[q.of] \in CommandRow
      /\ command[q.of].status # "absent" /\ CommandIsWithin(q.of)
  BY <1>1, HeldCommand DEF OnCommand
<1>3. /\ q.level \in Levels \cup {Unset} /\ q.clamped \in BOOLEAN
      /\ q.status \in {"received", "planned", "archived", Unset}
      /\ q.level # Unset => Within(q.level)
      /\ q.clamped => q.of \in clampNoted
  BY <1>1, <1>2, BossShape DEF BossInv, CommandPart, LevelsAreWithin, WriteIsNoted
<1>4. PICK k \in Commands : k = q.of
  BY <1>2
<1>5. PICK old \in CommandRow : old = command[k]
  BY <1>2, <1>4
<1>. DEFINE lev == IF q.level = Unset THEN old.level ELSE q.level
            st == IF q.status = Unset THEN old.status ELSE q.status
            row == [status |-> st, level |-> lev, actions |-> old.actions]
<1>6. /\ st \in {"received", "planned", "archived"} /\ lev \in Levels /\ Within(lev)
      /\ old.actions \in Seq(Action)
      /\ \A i \in 1..Len(old.actions) :
           /\ Within(old.actions[i].level)
           /\ old.actions[i].granted => Within(old.actions[i].required)
  <2>1. Within(old.level) /\ old.level \in Levels
    BY <1>2, <1>4, <1>5 DEF CommandIsWithin, CommandRow
  <2>2. old.status \in {"received", "planned", "archived"}
    BY <1>2, <1>4, <1>5 DEF CommandRow
  <2>3. old.actions \in Seq(Action)
    BY DEF CommandRow
  <2>. HIDE DEF q
  <2>. QED BY <1>2, <1>3, <1>4, <1>5, <2>1, <2>2, <2>3 DEF CommandIsWithin
<1>. HIDE DEF lev, st
<1>7. /\ row \in CommandRow /\ row.status = st /\ row.level = lev /\ row.actions = old.actions
  BY <1>6 DEF CommandRow
<1>8. command' = [command EXCEPT ![k] = row]
  <2>1. command' = [command EXCEPT ![k].level = lev, ![k].status = st]
    <3>. HIDE DEF q
    <3>. QED BY <1>1, <1>4, <1>5 DEF BossInv, BossTypeOK, CommandRow, lev, st
  <2>2. /\ command' \in [Commands -> CommandRow] /\ command \in [Commands -> CommandRow]
        /\ command'[k].status = st /\ command'[k].level = lev
        /\ command'[k].actions = old.actions
        /\ \A x \in Commands \ {k} : command'[x] = command[x]
    BY <1>5, <1>6, <2>1 DEF BossInv, BossTypeOK, CommandRow
  <2>3. command'[k] = row
    BY <2>2 DEF CommandRow
  <2>. HIDE DEF row
  <2>. QED BY <2>2, <2>3
<1>. HIDE DEF row
<1>9. reduced' \subseteq reduced \cup {k}
  BY <1>1, <1>4 DEF Reduced
<1>10. k \in reduced' \ clampNoted =>
         k \notin created' /\ \A d \in Clients : bossReq[d].op = "plan" => bossReq[d].of # k
  <2>1. k \in reduced' \ clampNoted => k \in reduced \ clampNoted
    BY <1>1, <1>3, <1>4 DEF Reduced
  <2>. QED BY <1>1, <2>1 DEF BossInv, CommandPart, UnnotedIsUnanswered
<1>11. q.op \in OnCommand /\ row.status # "absent" /\ Within(row.level)
       /\ \A i \in 1..Len(row.actions) :
            /\ Within(row.actions[i].level)
            /\ row.actions[i].granted => Within(row.actions[i].required)
  BY <1>1, <1>6, <1>7 DEF OnCommand
<1>. QED
  BY <1>1, <1>4, <1>7, <1>8, <1>9, <1>10, <1>11, RestingIsRequest, HeldIsWritten

\* What a step on a decision leaves of the commands.
LEMMA DecisionStepInv ==
  ASSUME BossInv, UNCHANGED commandVars, bossServed' \in 0..MaxBoss,
         bossReq' \in [Clients -> BossRequest],
         \A d \in Clients : bossReq'[d] = bossReq[d] \/ bossReq'[d].op \notin OnCommand,
         decision' \in [Decisions -> {"absent", "open", "observed"}],
         lessons' \in [Decisions -> Nat], outcomes' \in [Decisions -> Nat],
         crossing' \subseteq Decisions, DecisionPart'
  PROVE  BossInv'
<1>1. CommandPart'
  BY CommandFrame DEF BossInv
<1>. QED BY <1>1 DEF BossInv, BossTypeOK, commandVars

LEMMA RecordDecisionInv ==
  ASSUME BossInv, NEW c \in Clients, NEW d \in Decisions, RecordDecision(c, d)
  PROVE  BossInv'
<1>1. /\ BeginBoss(c) /\ decision[d] = "absent" /\ decision' = [decision EXCEPT ![d] = "open"]
      /\ UNCHANGED <<lessons, bossReq, outcomes, crossing>> /\ UNCHANGED commandVars
  BY DEF RecordDecision
<1>2. bossServed' \in 0..MaxBoss
  BY <1>1, BossAssumption DEF BeginBoss, BossInv, BossTypeOK
<1>3. MeetIsCrossing' /\ LateIsCrossing' /\ \A x \in Decisions : outcomes'[x] > 1 => x \in crossing'
  BY <1>1 DEF BossInv, DecisionPart, MeetIsCrossing, LateIsCrossing, OnDecision
<1>4. OpenHasNone'
  BY <1>1 DEF BossInv, BossTypeOK, DecisionPart, OpenHasNone
<1>5. LessonsAreDue'
  BY <1>1 DEF BossInv, DecisionPart, LessonsAreDue, LessonsDue
<1>6. DecisionPart'
  BY <1>3, <1>4, <1>5 DEF DecisionPart
<1>. QED BY <1>1, <1>2, <1>6, DecisionStepInv DEF BossInv, BossTypeOK

LEMMA LoadDecisionInv ==
  ASSUME BossInv, NEW c \in Clients, NEW d \in Decisions, LoadDecision(c, d)
  PROVE  BossInv'
<1>. DEFINE r == [op |-> "outcome", on |-> d]
<1>1. /\ BeginBoss(c) /\ decision[d] = "open" /\ Holds(c, r)
      /\ crossing' = IF OnDecision(d) = {} THEN crossing ELSE crossing \cup {d}
      /\ UNCHANGED <<decision, lessons, outcomes>> /\ UNCHANGED commandVars
  BY DEF LoadDecision, AwaitsOutcome
<1>2. bossServed' \in 0..MaxBoss /\ bossReq[c].op = "idle"
  BY <1>1, BossAssumption, RestingIsRequest DEF BeginBoss, BossInv, BossTypeOK
<1>3. r \in BossRequest /\ r.op = "outcome" /\ r.on = d
  BY DEF BossRequest
<1>. HIDE DEF r
<1>4. /\ bossReq' \in [Clients -> BossRequest]
      /\ bossReq'[c] = r /\ \A x \in Clients \ {c} : bossReq'[x] = bossReq[x]
  BY <1>1, <1>3, HoldsType
<1>5. crossing \subseteq crossing' /\ crossing' \subseteq Decisions
  BY <1>1 DEF BossInv, BossTypeOK
<1>6. /\ OnDecision(d)' = OnDecision(d) \cup {c}
      /\ \A x \in Decisions \ {d} : OnDecision(x)' = OnDecision(x)
      /\ \A x \in Decisions : LessonsDue(x)' = LessonsDue(x)
  BY <1>2, <1>3, <1>4 DEF OnDecision, LessonsDue
<1>7. outcomes[d] = 0
  BY <1>1 DEF BossInv, DecisionPart, OpenHasNone
<1>8. MeetIsCrossing'
  <2>. SUFFICES ASSUME NEW e \in Decisions, NEW x \in OnDecision(e)', NEW y \in OnDecision(e)', x # y
                PROVE  e \in crossing'
    BY DEF MeetIsCrossing
  <2>1. CASE e = d
    BY <1>1, <1>6, <2>1
  <2>2. CASE e # d
    BY <1>5, <1>6, <2>2 DEF BossInv, DecisionPart, MeetIsCrossing
  <2>. QED BY <2>1, <2>2
<1>9. LateIsCrossing' /\ OpenHasNone' /\ \A x \in Decisions : outcomes'[x] > 1 => x \in crossing'
  BY <1>1, <1>5, <1>6, <1>7 DEF BossInv, DecisionPart, LateIsCrossing, OpenHasNone
<1>10. LessonsAreDue'
  BY <1>1, <1>6 DEF BossInv, DecisionPart, LessonsAreDue
<1>11. DecisionPart'
  BY <1>8, <1>9, <1>10 DEF DecisionPart
<1>12. \A x \in Clients : bossReq'[x] = bossReq[x] \/ bossReq'[x].op \notin OnCommand
  BY <1>3, <1>4 DEF OnCommand
<1>. QED BY <1>1, <1>2, <1>4, <1>5, <1>11, <1>12, DecisionStepInv DEF BossInv, BossTypeOK

LEMMA WriteOutcomeInv ==
  ASSUME BossInv, NEW c \in Clients, WriteOutcome(c)
  PROVE  BossInv'
<1>0. PICK d : d = bossReq[c].on
  OBVIOUS
<1>. DEFINE r == [op |-> "lesson", on |-> d]
<1>1. /\ bossReq[c].op = "outcome" /\ Holds(c, r)
      /\ decision' = [decision EXCEPT ![d] = "observed"]
      /\ outcomes' = [outcomes EXCEPT ![d] = @ + 1]
      /\ UNCHANGED <<lessons, crossing, bossServed>> /\ UNCHANGED commandVars
  BY <1>0 DEF WriteOutcome
<1>2. d \in Decisions
  BY <1>0, <1>1, BossShape DEF BossInv, BossTypeOK
<1>3. r \in BossRequest /\ r.op = "lesson" /\ r.on = d
  BY <1>2 DEF BossRequest
<1>. HIDE DEF r
<1>4. /\ bossReq' \in [Clients -> BossRequest]
      /\ bossReq'[c] = r /\ \A x \in Clients \ {c} : bossReq'[x] = bossReq[x]
  BY <1>1, <1>3, HoldsType
<1>5. /\ c \in OnDecision(d) /\ OnDecision(d)' = OnDecision(d) \ {c}
      /\ \A x \in Decisions \ {d} : OnDecision(x)' = OnDecision(x)
      /\ c \notin LessonsDue(d) /\ LessonsDue(d)' = LessonsDue(d) \cup {c}
      /\ \A x \in Decisions \ {d} : LessonsDue(x)' = LessonsDue(x)
  BY <1>0, <1>1, <1>2, <1>3, <1>4 DEF OnDecision, LessonsDue
<1>6. /\ outcomes' \in [Decisions -> Nat] /\ outcomes'[d] = outcomes[d] + 1
      /\ \A x \in Decisions \ {d} : outcomes'[x] = outcomes[x]
      /\ decision' \in [Decisions -> {"absent", "open", "observed"}] /\ decision'[d] = "observed"
      /\ \A x \in Decisions \ {d} : decision'[x] = decision[x]
      /\ outcomes[d] \in Nat /\ lessons[d] \in Nat
  BY <1>1, <1>2 DEF BossInv, BossTypeOK
<1>7. MeetIsCrossing'
  <2>1. \A e \in Decisions : OnDecision(e)' \subseteq OnDecision(e)
    BY <1>5
  <2>. QED BY <1>1, <2>1 DEF BossInv, DecisionPart, MeetIsCrossing
<1>8. LateIsCrossing'
  <2>1. OnDecision(d)' # {} => d \in crossing
    BY <1>2, <1>5 DEF BossInv, DecisionPart, MeetIsCrossing
  <2>. QED BY <1>1, <1>5, <1>6, <2>1 DEF BossInv, DecisionPart, LateIsCrossing
<1>9. OpenHasNone'
  BY <1>6 DEF BossInv, DecisionPart, OpenHasNone
<1>10. \A x \in Decisions : outcomes'[x] > 1 => x \in crossing'
  <2>1. outcomes[d] > 0 => d \in crossing
    BY <1>2, <1>5 DEF BossInv, DecisionPart, LateIsCrossing
  <2>. QED BY <1>1, <1>6, <2>1 DEF BossInv, DecisionPart
<1>11. LessonsAreDue'
  <2>1. IsFiniteSet(LessonsDue(d)) /\ lessons[d] + Cardinality(LessonsDue(d)) <= outcomes[d]
    BY <1>2 DEF BossInv, DecisionPart, LessonsAreDue
  <2>2. /\ IsFiniteSet(LessonsDue(d) \cup {c}) /\ Cardinality(LessonsDue(d)) \in Nat
        /\ Cardinality(LessonsDue(d) \cup {c}) = Cardinality(LessonsDue(d)) + 1
    BY <1>5, <2>1, FS_AddElement, FS_CardinalityType
  <2>3. lessons[d] + Cardinality(LessonsDue(d) \cup {c}) <= outcomes'[d]
    BY <1>6, <2>1, <2>2
  <2>. SUFFICES ASSUME NEW e \in Decisions
                PROVE  IsFiniteSet(LessonsDue(e)') /\ lessons[e] + Cardinality(LessonsDue(e)') <= outcomes'[e]
    BY <1>1 DEF LessonsAreDue
  <2>4. CASE e = d
    BY <1>5, <2>2, <2>3, <2>4
  <2>5. CASE e # d
    BY <1>5, <1>6, <2>5 DEF BossInv, DecisionPart, LessonsAreDue
  <2>. QED BY <2>4, <2>5
<1>12. DecisionPart'
  BY <1>7, <1>8, <1>9, <1>10, <1>11 DEF DecisionPart
<1>13. \A x \in Clients : bossReq'[x] = bossReq[x] \/ bossReq'[x].op \notin OnCommand
  BY <1>3, <1>4 DEF OnCommand
<1>. QED BY <1>1, <1>4, <1>6, <1>12, <1>13, DecisionStepInv DEF BossInv, BossTypeOK

LEMMA AddLessonInv ==
  ASSUME BossInv, NEW c \in Clients, AddLesson(c)
  PROVE  BossInv'
<1>0. PICK d : d = bossReq[c].on
  OBVIOUS
<1>1. /\ bossReq[c].op = "lesson" /\ Holds(c, Resting)
      /\ lessons' = [lessons EXCEPT ![d] = @ + 1]
      /\ UNCHANGED <<decision, outcomes, crossing, bossServed>> /\ UNCHANGED commandVars
  BY <1>0 DEF AddLesson
<1>2. d \in Decisions
  BY <1>0, <1>1, BossShape DEF BossInv, BossTypeOK
<1>3. /\ bossReq' \in [Clients -> BossRequest]
      /\ bossReq'[c].op = "idle" /\ \A x \in Clients \ {c} : bossReq'[x] = bossReq[x]
  BY <1>1, RestingIsRequest, HoldsType
<1>4. /\ \A x \in Decisions : OnDecision(x)' = OnDecision(x)
      /\ c \in LessonsDue(d) /\ LessonsDue(d)' = LessonsDue(d) \ {c}
      /\ \A x \in Decisions \ {d} : LessonsDue(x)' = LessonsDue(x)
  BY <1>0, <1>1, <1>2, <1>3 DEF OnDecision, LessonsDue
<1>5. /\ lessons' \in [Decisions -> Nat] /\ lessons'[d] = lessons[d] + 1
      /\ \A x \in Decisions \ {d} : lessons'[x] = lessons[x]
      /\ outcomes[d] \in Nat /\ lessons[d] \in Nat
  BY <1>1, <1>2 DEF BossInv, BossTypeOK
<1>6. MeetIsCrossing' /\ LateIsCrossing' /\ OpenHasNone'
      /\ \A x \in Decisions : outcomes'[x] > 1 => x \in crossing'
  BY <1>1, <1>4 DEF BossInv, DecisionPart, MeetIsCrossing, LateIsCrossing, OpenHasNone
<1>7. LessonsAreDue'
  <2>1. IsFiniteSet(LessonsDue(d)) /\ lessons[d] + Cardinality(LessonsDue(d)) <= outcomes[d]
    BY <1>2 DEF BossInv, DecisionPart, LessonsAreDue
  <2>2. /\ IsFiniteSet(LessonsDue(d) \ {c}) /\ Cardinality(LessonsDue(d)) \in Nat
        /\ Cardinality(LessonsDue(d) \ {c}) = Cardinality(LessonsDue(d)) - 1
    BY <1>4, <2>1, FS_RemoveElement, FS_CardinalityType
  <2>3. lessons'[d] + Cardinality(LessonsDue(d) \ {c}) <= outcomes[d]
    BY <1>5, <2>1, <2>2
  <2>. SUFFICES ASSUME NEW e \in Decisions
                PROVE  IsFiniteSet(LessonsDue(e)') /\ lessons'[e] + Cardinality(LessonsDue(e)') <= outcomes[e]
    BY <1>1 DEF LessonsAreDue
  <2>4. CASE e = d
    BY <1>4, <2>2, <2>3, <2>4
  <2>5. CASE e # d
    BY <1>4, <1>5, <2>5 DEF BossInv, DecisionPart, LessonsAreDue
  <2>. QED BY <2>4, <2>5
<1>8. DecisionPart'
  BY <1>6, <1>7 DEF DecisionPart
<1>9. \A x \in Clients : bossReq'[x] = bossReq[x] \/ bossReq'[x].op \notin OnCommand
  BY <1>3 DEF OnCommand
<1>. QED BY <1>1, <1>3, <1>5, <1>8, <1>9, DecisionStepInv DEF BossInv, BossTypeOK

\* A request that ends without a write.
LEMMA RequestsEndInv ==
  ASSUME BossInv, UNCHANGED <<commandVars, decisionVars, bossServed>>,
         bossReq' \in [Clients -> BossRequest],
         \A x \in Clients : bossReq'[x] = bossReq[x] \/ bossReq'[x].op = "idle"
  PROVE  BossInv'
<1>1. CommandPart' /\ DecisionPart'
  BY CommandFrame, DecisionFrame DEF BossInv, BossTypeOK, OnCommand
<1>. QED BY <1>1 DEF BossInv, BossTypeOK, commandVars, decisionVars

LEMMA BossRequestFailsInv ==
  ASSUME BossInv, NEW c \in Clients, BossRequestFails(c)
  PROVE  BossInv'
<1>1. /\ bossReq' \in [Clients -> BossRequest]
      /\ \A x \in Clients : bossReq'[x] = bossReq[x] \/ bossReq'[x].op = "idle"
  BY RestingIsRequest, HoldsType DEF BossRequestFails
<1>. QED BY <1>1, RequestsEndInv DEF BossRequestFails

LEMMA BossDiesInv == ASSUME BossInv, BossDies PROVE BossInv'
<1>1. /\ bossReq' \in [Clients -> BossRequest]
      /\ \A x \in Clients : bossReq'[x].op = "idle"
  BY RestingIsRequest DEF BossDies
<1>. QED BY <1>1, RequestsEndInv DEF BossDies

LEMMA BossStepInv == ASSUME BossInv, [BossNext]_bossVars PROVE BossInv'
<1>1. ASSUME NEW c \in Clients, BossStep(c) PROVE BossInv'
  BY <1>1, NoteClampInv, PlanActionInv, FinishPlanInv, AuditUpdateInv, WriteUpdateInv, ArchiveInv,
     WriteOutcomeInv, AddLessonInv, BossRequestFailsInv DEF BossStep
<1>2. ASSUME NEW c \in Clients, NEW role \in Roles, BossPost(c, role) PROVE BossInv'
  BY <1>2, CreateCommandInv, RecordDecisionInv, LoadDecisionInv DEF BossPost
<1>3. ASSUME NEW c \in Clients, NEW role \in Roles, BossPatch(c, role) PROVE BossInv'
  BY <1>3, LoadForUpdateInv DEF BossPatch
<1>4. ASSUME NEW c \in Clients, BossDelete(c) PROVE BossInv'
  BY <1>4, LoadForArchiveInv DEF BossDelete
<1>5. CASE UNCHANGED bossVars
  <2>1. UNCHANGED <<commandVars, decisionVars, bossServed>> /\ bossReq' = bossReq
    BY <1>5 DEF bossVars, commandVars, decisionVars
  <2>. QED BY <2>1, RequestsEndInv DEF BossInv, BossTypeOK
<1>. QED BY <1>1, <1>2, <1>3, <1>4, <1>5, BossDiesInv DEF BossNext

\* The inductive invariant of the commands and the decisions.
THEOREM BossInvariant == BossSpec => []BossInv
<1>. QED BY BossInitInv, BossStepInv, PTL DEF BossSpec

-----------------------------------------------------------------------------
\* A request comes in as the owner.
LEMMA OwnerComes == RoleOf(FALSE) \in Roles
BY DEF RoleOf, Roles

\* The steps of the control plane, by what they change.
LEMMA StepOfAll ==
  ASSUME Next
  PROVE  /\ \/ \E k \in WindowKeys : Admit(k) \/ TurnAway(k)
            \/ Tick
            \/ ForgetWindows
            \/ UNCHANGED guardVars
         /\ \/ \E c \in Clients : GatewayStep(c)
            \/ \E c \in Clients, l \in AskedLevels, n \in Named : Invoke(c, RoleOf(FALSE), l, n)
            \/ GatewayDies
            \/ UNCHANGED gatewayVars
         /\ \/ \E c \in Clients : \/ BossStep(c)
                                  \/ BossPost(c, RoleOf(FALSE))
                                  \/ BossPatch(c, RoleOf(FALSE))
                                  \/ BossDelete(c)
            \/ BossDies
            \/ UNCHANGED bossVars
<1>1. ASSUME NEW c \in Clients, NEW k \in WindowKeys, Arrive(c, k)
      PROVE  /\ Admit(k)
             /\ \/ UNCHANGED bossVars
                   /\ \E l \in AskedLevels, n \in Named : Invoke(c, RoleOf(FALSE), l, n)
                \/ UNCHANGED gatewayVars
                   /\ \/ BossPost(c, RoleOf(FALSE))
                      \/ BossPatch(c, RoleOf(FALSE))
                      \/ BossDelete(c)
  BY <1>1 DEF Arrive, Handle, AskModel
<1>2. ASSUME NEW k \in WindowKeys, Refused(k)
      PROVE  TurnAway(k) /\ UNCHANGED gatewayVars /\ UNCHANGED bossVars
  BY <1>2 DEF Refused, handlerVars
<1>3. CASE Tick /\ UNCHANGED <<handlerVars, boundVars>>
  BY <1>3 DEF handlerVars
<1>4. CASE \E c \in Clients : GatewayStep(c) /\ UNCHANGED <<guardVars, bossVars, boundVars>>
  BY <1>4
<1>5. CASE \E c \in Clients : BossStep(c) /\ UNCHANGED <<guardVars, gatewayVars, boundVars>>
  BY <1>5
<1>6. CASE Restart
  BY <1>6 DEF Restart
<1>7. CASE \E c \in Clients, k \in WindowKeys : Arrive(c, k)
  BY <1>1, <1>7
<1>8. CASE \E k \in WindowKeys : Refused(k)
  BY <1>2, <1>8
<1>. QED BY <1>3, <1>4, <1>5, <1>6, <1>7, <1>8 DEF Next

\* The composed plane does to each of its parts only what the part allows: to
\* the limiter,
THEOREM RefinesGuards == Spec => GuardsSpec
<1>1. Init => GuardsInit
  BY DEF Init
<1>2. [Next]_vars => [GuardsNext]_guardVars
  BY StepOfAll DEF GuardsNext, vars
<1>. QED BY <1>1, <1>2, PTL DEF Spec, GuardsSpec

\* to the gateway,
THEOREM RefinesGateway == Spec => GatewaySpec
<1>1. Init => GatewayInit
  BY DEF Init
<1>2. [Next]_vars => [GatewayNext]_gatewayVars
  <2>. SUFFICES ASSUME [Next]_vars PROVE [GatewayNext]_gatewayVars
    OBVIOUS
  <2>1. CASE \E c \in Clients, l \in AskedLevels, n \in Named : Invoke(c, RoleOf(FALSE), l, n)
    BY <2>1, OwnerComes, BossAssumption DEF GatewayNext
  <2>2. CASE UNCHANGED vars
    BY <2>2 DEF vars, handlerVars
  <2>. QED BY <2>1, <2>2, StepOfAll DEF GatewayNext
<1>. QED BY <1>1, <1>2, PTL DEF Spec, GatewaySpec

\* and to the commands and decisions of the boss.
THEOREM RefinesBoss == Spec => BossSpec
<1>1. Init => BossInit
  BY DEF Init
<1>2. [Next]_vars => [BossNext]_bossVars
  <2>. SUFFICES ASSUME [Next]_vars PROVE [BossNext]_bossVars
    OBVIOUS
  <2>1. CASE UNCHANGED vars
    BY <2>1 DEF vars, handlerVars
  <2>. QED BY <2>1, OwnerComes, StepOfAll DEF BossNext
<1>. QED BY <1>1, <1>2, PTL DEF Spec, BossSpec

\* Every variable of the control plane keeps its type.
THEOREM ControlTypeSafety == Spec => []ControlTypeOK
<1>1. GuardsInv => GuardsTypeOK
  BY DEF GuardsInv
<1>2. GatewayInv => GatewayTypeOK
  BY DEF GatewayInv
<1>3. BossInv => BossTypeOK
  BY DEF BossInv
<1>4. Init => arrived \in 0..MaxRequests /\ restarts \in 0..MaxRestarts
  BY ControlAssumption DEF Init
<1>5. (arrived \in 0..MaxRequests /\ restarts \in 0..MaxRestarts) /\ [Next]_vars
      => (arrived \in 0..MaxRequests /\ restarts \in 0..MaxRestarts)'
  BY ControlAssumption DEF Next, Arrive, Refused, NextRequest, Restart, boundVars, vars
<1>6. GuardsTypeOK /\ GatewayTypeOK /\ BossTypeOK /\ arrived \in 0..MaxRequests /\ restarts \in 0..MaxRestarts
      => ControlTypeOK
  BY DEF ControlTypeOK
<1>. QED BY <1>1, <1>2, <1>3, <1>4, <1>5, <1>6, RefinesGuards, RefinesGateway, RefinesBoss,
     GuardsInvariant, GatewayInvariant, BossInvariant, PTL DEF Spec

\* A limiter that holds more windows than its cap holds none that had expired
\* when the newest was opened (rate-limit.guard.ts:48).
THEOREM MemoryStaysRecent == Spec => []MemoryIsRecent
<1>1. GuardsInv => MemoryIsRecent
  BY DEF GuardsInv
<1>. QED BY <1>1, RefinesGuards, GuardsInvariant, PTL

\* No stretch as long as a window lets twice the limit of one key through,
\* though windows are fixed and a client may spend two of them back to back
\* (rate-limit.guard.ts:50).
THEOREM WindowsBound == Spec => []WindowBudget
<1>. QED BY WindowBounds, RefinesGuards, WindowInvariant, PTL

\* A total is what was charged, but for what the comment of the property lists
\* (ai.service.ts:331-332).
THEOREM SpendAccounted == Spec => []SpendIsAccounted
<1>1. GatewayInv => SpendIsAccounted
  BY DEF GatewayInv, Balance, SpendIsAccounted, TotalGiven
<1>. QED BY <1>1, RefinesGateway, GatewayInvariant, PTL

\* A provider is verified by a real call of its own (ai.service.ts:106-108).
THEOREM VerifiedByEvidence == Spec => []VerifiedIsEarned
<1>1. GatewayInv => VerifiedIsEarned
  BY DEF GatewayInv
<1>. QED BY <1>1, RefinesGateway, GatewayInvariant, PTL

\* No stored level and no granted action passes the ceiling (autonomy.ts:131).
THEOREM AuthorityCapped == Spec => []AuthorityIsCapped
<1>1. BossInv => AuthorityIsCapped
  BY DEF BossInv, CommandPart, StoredAreWithin, CommandIsWithin, Within, AuthorityIsCapped
<1>. QED BY <1>1, RefinesBoss, BossInvariant, PTL

\* A command that was answered for has its reduction on record
\* (boss.service.ts:114).
THEOREM ClampsAudited == Spec => []ClampIsAudited
<1>1. BossInv => ClampIsAudited
  BY DEF BossInv, CommandPart, UnnotedIsUnanswered, ClampIsAudited
<1>. QED BY <1>1, RefinesBoss, BossInvariant, PTL

\* Only requests that had read a decision open at the same time give it two
\* outcomes (boss-memory.service.ts:122-123).
THEOREM OutcomesOnce == Spec => []OutcomeOnceUnlessCrossed
<1>1. BossInv => OutcomeOnceUnlessCrossed
  <2>. SUFFICES ASSUME BossInv, NEW d \in Decisions
                PROVE  (outcomes[d] > 1 => d \in crossing) /\ lessons[d] <= outcomes[d]
    BY DEF OutcomeOnceUnlessCrossed
  <2>1. IsFiniteSet(LessonsDue(d)) /\ lessons[d] + Cardinality(LessonsDue(d)) <= outcomes[d]
    BY DEF BossInv, DecisionPart, LessonsAreDue
  <2>2. Cardinality(LessonsDue(d)) \in Nat /\ lessons[d] \in Nat /\ outcomes[d] \in Nat
    BY <2>1, FS_CardinalityType DEF BossInv, BossTypeOK
  <2>3. lessons[d] <= outcomes[d]
    BY <2>1, <2>2
  <2>. QED BY <2>3 DEF BossInv, DecisionPart
<1>. QED BY <1>1, RefinesBoss, BossInvariant, PTL
==============================================================================
