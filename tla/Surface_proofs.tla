--------------------------- MODULE Surface_proofs ---------------------------
(* What TLAPS proves of the surface, for every list of deployments, whatever *)
(* the operators on a call's data do: what is assumed of a deployment is     *)
(* SurfaceAssumption.                                                        *)
(*                                                                           *)
(* A recursive function of the model is the function chosen to satisfy its   *)
(* equation.  To say anything of it one shows first that there is such a     *)
(* function, and then, by induction up to a number, what its values are; the *)
(* induction is over a set of numbers, of which the least one outside would  *)
(* have no one before it.                                                    *)
EXTENDS Surface, SequenceTheorems, FiniteSetTheorems, WellFoundedInduction, TLAPS

-----------------------------------------------------------------------------
(* A set of numbers that is not empty has a least one, and, when it is       *)
(* bounded, a greatest.                                                      *)
LEMMA Least ==
  ASSUME NEW S \in SUBSET Nat, S # {}
  PROVE  /\ \E m \in S : \A n \in S : m <= n
         /\ Min(S) \in S /\ \A n \in S : Min(S) <= n
<1>1. PICK m \in S : \A n \in S : ~(<<n, m>> \in OpToRel(<, Nat))
  BY NatLessThanWellFounded, WFMin
<1>2. \A n \in S : ~(n < m)
  BY <1>1 DEF OpToRel
<1>3. \A n \in S : m <= n
  BY <1>2
<1>4. QED BY <1>3 DEF Min

(* The greatest number of a bounded set.                                     *)
LEMMA Greatest ==
  ASSUME NEW top \in Nat, NEW S \in SUBSET (0..top), S # {}
  PROVE  Max(S) \in S /\ \A n \in S : n <= Max(S)
<1> DEFINE D == {top - n : n \in S}
<1>1. D \in SUBSET Nat /\ D # {}
  <2>1. \A n \in S : top - n \in Nat
    OBVIOUS
  <2>2. PICK n \in S : TRUE
    OBVIOUS
  <2>3. top - n \in D
    OBVIOUS
  <2>4. QED BY <2>1, <2>3
<1>2. \A n \in S : top - n \in D
  OBVIOUS
<1>3. \A d \in D : \E m \in S : d = top - m
  OBVIOUS
<1> HIDE DEF D
<1>4. PICK d \in D : \A n \in D : d <= n
  BY <1>1, Least
<1>5. PICK m \in S : d = top - m
  BY <1>3
<1>6. \A n \in S : n \in Nat /\ n <= m
  BY <1>2, <1>4, <1>5
<1>7. \E x \in S : \A y \in S : x >= y
  BY <1>6
<1>8. Max(S) \in S /\ \A y \in S : Max(S) >= y
  BY <1>7 DEF Max
<1>9. QED BY <1>6, <1>8

(* Induction up to a number, over a set.                                     *)
LEMMA UpTo ==
  ASSUME NEW N \in Nat, NEW S, 0 \in S, \A n \in 1..N : n - 1 \in S => n \in S
  PROVE  0..N \subseteq S
<1> SUFFICES ASSUME (0..N) \ S # {} PROVE FALSE
  OBVIOUS
<1>1. (0..N) \ S \in SUBSET Nat
  OBVIOUS
<1>2. PICK m \in (0..N) \ S : \A n \in (0..N) \ S : m <= n
  BY <1>1, Least
<1>3. m # 0 /\ m - 1 \in 0..N /\ m \in 1..N
  BY <1>2
<1>4. m - 1 \in S
  BY <1>2, <1>3
<1>5. QED BY <1>2, <1>3, <1>4

(* What a list of steps does, one after the other.                           *)
Steps(N, X) == [1..N -> [X -> X]]
Runs(f, N, X, b, s) == f \in [0..N -> X] /\ f[0] = b /\ \A n \in 1..N : f[n] = s[n][f[n - 1]]

(* A list of steps can be taken: there is a run of it.                       *)
LEMMA Recursion ==
  ASSUME NEW N \in Nat, NEW X, NEW b \in X, NEW s \in Steps(N, X)
  PROVE  \E f : Runs(f, N, X, b, s)
<1> USE DEF Steps
<1> DEFINE Upto(n, f) == f \in [0..n -> X] /\ f[0] = b /\ \A k \in 1..n : f[k] = s[k][f[k - 1]]
           S == {n \in 0..N : \E f : Upto(n, f)}
<1>1. 0 \in S
  <2> DEFINE f == [k \in 0..0 |-> b]
  <2>1. f \in [0..0 -> X] /\ f[0] = b /\ 1..0 = {}
    OBVIOUS
  <2>2. Upto(0, f)
    BY <2>1
  <2> HIDE DEF f
  <2>3. QED BY <2>2
<1>2. ASSUME NEW n \in 1..N, n - 1 \in S PROVE n \in S
  <2>1. PICK f : Upto(n - 1, f)
    BY <1>2
  <2> DEFINE g == [k \in 0..n |-> IF k = n THEN s[n][f[n - 1]] ELSE f[k]]
  <2>2. n - 1 \in 0..(n - 1) /\ f[n - 1] \in X
    BY <2>1
  <2>3. g \in [0..n -> X]
    BY <2>1, <2>2
  <2>4. \A k \in 1..n : g[k] = s[k][g[k - 1]]
    <3>1. g[n] = s[n][f[n - 1]] /\ g[n - 1] = f[n - 1]
      BY <2>2
    <3>2. \A k \in 1..(n - 1) : g[k] = f[k] /\ g[k - 1] = f[k - 1] /\ k \in 0..n
      OBVIOUS
    <3>3. QED BY <2>1, <3>1, <3>2
  <2>5. Upto(n, g)
    BY <2>1, <2>3, <2>4
  <2> HIDE DEF g
  <2>6. \E h : Upto(n, h)
    BY <2>5
  <2>7. QED BY <2>6
<1> HIDE DEF S
<1>3. N \in S
  <2>1. \A n \in 1..N : n - 1 \in S => n \in S
    BY <1>2
  <2>2. 0..N \subseteq S
    BY <1>1, <2>1, UpTo
  <2>3. QED BY <2>2
<1>4. PICK f : Upto(N, f)
  BY <1>3 DEF S
<1>5. QED BY <1>4 DEF Runs

(* The members of Seq(X) are lists.                                          *)
LEMMA Sequences ==
  ASSUME NEW X, NEW s \in Seq(X)
  PROVE  /\ IsSeq(s)
         /\ Len(s) \in Nat /\ DOMAIN s = 1..Len(s)
         /\ \A i \in DOMAIN s : s[i] \in X
<1>1. Len(s) \in Nat /\ s \in [1..Len(s) -> X]
  BY LenProperties
<1>2. s \in [1..Len(s) -> Range(s)]
  BY <1>1 DEF Range
<1>3. s \in Seq(Range(s))
  BY <1>1, <1>2, SeqDef
<1>4. QED BY <1>1, <1>3 DEF IsSeq

-----------------------------------------------------------------------------
(* What a deployment and its catalog are made of.                            *)
Fit(tool) ==
  /\ IsSeq(tool.id) /\ IsSeq(tool.name)
  /\ IsSeq(tool.patches) /\ \A n \in DOMAIN tool.patches : IsSeq(tool.patches[n].path)
Wellformed(tools) == IsSeq(tools) /\ \A n \in DOMAIN tools : Fit(tools[n])

Listings == UNION {world.offers[u] : u \in DOMAIN conf.upstreams}

Built ==
  /\ world \in Range(Deployments)
  /\ next \in Nat \ {0}
  /\ ups \in Seq(DOMAIN conf.upstreams)
  /\ \A i \in DOMAIN ups : ups[i] < next
  /\ \A i, j \in DOMAIN ups : i < j => ups[i] < ups[j]
  /\ listings \in Seq(Listings) /\ Len(listings) = Len(ups)
  /\ \A i \in DOMAIN ups : listings[i] \in world.offers[ups[i]]
  /\ phase = "serving" => Valid(conf)

(* A list of the deployment's.                                               *)
LEMMA Numbered1 ==
  ASSUME NEW s, IsSeq(s)
  PROVE  /\ Len(s) \in Nat /\ DOMAIN s = 1..Len(s) /\ s \in Seq(Range(s))
         /\ \A i \in DOMAIN s : s[i] \in Range(s)
<1>1. s \in Seq(Range(s))
  BY DEF IsSeq
<1>2. QED BY <1>1, LenProperties

(* Two lists joined.                                                         *)
LEMMA Join ==
  ASSUME NEW s, IsSeq(s), NEW t, IsSeq(t)
  PROVE  /\ IsSeq(s \o t) /\ Len(s \o t) = Len(s) + Len(t)
         /\ \A i \in 1..Len(s) : (s \o t)[i] = s[i]
         /\ \A i \in 1..Len(t) : (s \o t)[Len(s) + i] = t[i]
<1> DEFINE X == Range(s) \union Range(t)
<1>1. /\ Len(s) \in Nat /\ s \in Seq(Range(s)) /\ Len(t) \in Nat /\ t \in Seq(Range(t))
  BY Numbered1
<1>2. s \in Seq(X) /\ t \in Seq(X)
  BY <1>1, SeqMonotonic
<1> HIDE DEF X
<1>3. /\ s \o t \in Seq(X) /\ Len(s \o t) = Len(s) + Len(t)
      /\ \A i \in 1..(Len(s) + Len(t)) : (s \o t)[i] = IF i <= Len(s) THEN s[i] ELSE t[i - Len(s)]
  BY <1>2, ConcatProperties
<1>4. IsSeq(s \o t)
  BY <1>3, Sequences
<1>5. \A i \in 1..Len(s) : (s \o t)[i] = s[i]
  BY <1>1, <1>3
<1>6. ASSUME NEW i \in 1..Len(t) PROVE (s \o t)[Len(s) + i] = t[i]
  <2>1. Len(s) + i \in 1..(Len(s) + Len(t)) /\ ~(Len(s) + i <= Len(s)) /\ Len(s) + i - Len(s) = i
    BY <1>1
  <2>2. QED BY <1>3, <2>1
<1>7. QED BY <1>3, <1>4, <1>5, <1>6

(* A list of one.                                                            *)
LEMMA Single == \A x : IsSeq(<<x>>)
<1> SUFFICES ASSUME NEW x PROVE IsSeq(<<x>>)
  OBVIOUS
<1>1. <<x>> \in Seq({x})
  OBVIOUS
<1>2. QED BY <1>1, Sequences

(* The deployment the surface was built from is one of those assumed, and    *)
(* the upstreams that started are its.                                       *)
LEMMA TheDeployment ==
  ASSUME Built
  PROVE  /\ Deployable(world)
         /\ conf.upstreams \in Seq(Range(conf.upstreams))
         /\ DOMAIN conf.upstreams = 1..Len(conf.upstreams) /\ Len(conf.upstreams) \in Nat
         /\ DOMAIN ups = 1..Len(ups) /\ Len(ups) \in Nat
         /\ DOMAIN listings = DOMAIN ups
         /\ \A i \in DOMAIN ups : ups[i] \in DOMAIN conf.upstreams
<1>1. PICK i \in DOMAIN Deployments : world = Deployments[i]
  BY DEF Built, Range
<1>2. Deployable(world)
  BY <1>1, SurfaceAssumption
<1>3. IsSeq(conf.upstreams)
  BY <1>2 DEF Deployable, conf
<1>4. /\ conf.upstreams \in Seq(Range(conf.upstreams)) /\ Len(conf.upstreams) \in Nat
      /\ DOMAIN conf.upstreams = 1..Len(conf.upstreams)
  BY <1>3, Numbered1
<1>5. Len(ups) \in Nat /\ DOMAIN ups = 1..Len(ups) /\ ups \in [1..Len(ups) -> DOMAIN conf.upstreams]
  BY LenProperties DEF Built
<1>6. DOMAIN listings = 1..Len(listings)
  BY LenProperties DEF Built
<1>7. QED BY <1>2, <1>4, <1>5, <1>6 DEF Built

(* The overlay of an id is one of the configuration's, or empty.             *)
LEMMA OverlayFits ==
  ASSUME Deployable(world), NEW id
  PROVE  LET patches == OverlayOf(id).patches
         IN IsSeq(patches) /\ \A n \in DOMAIN patches : IsSeq(patches[n].path)
<1> DEFINE its == {i \in DOMAIN conf.overlays : conf.overlays[i].tool = id}
<1>1. CASE its = {}
  <2>1. OverlayOf(id).patches = <<>>
    BY <1>1 DEF OverlayOf, NewOverlay
  <2>2. <<>> \in Seq({}) /\ DOMAIN <<>> = {}
    OBVIOUS
  <2>3. IsSeq(<<>>)
    BY <2>2, Sequences
  <2>4. QED BY <2>1, <2>2, <2>3
<1>2. CASE its # {}
  <2>1. IsSeq(conf.overlays)
    BY DEF Deployable, conf
  <2>2. its \in SUBSET Nat
    BY <2>1, Numbered1
  <2>3. Min(its) \in its
    BY <1>2, <2>2, Least
  <2>4. OverlayOf(id) = conf.overlays[Min(its)] /\ Min(its) \in DOMAIN conf.overlays
    BY <1>2, <2>3 DEF OverlayOf
  <2>5. QED BY <2>4 DEF Deployable, conf
<1>3. QED BY <1>1, <1>2

(* What is kept of a listing.                                                *)
LEMMA KeptFits ==
  ASSUME Deployable(world), NEW i, NEW up, IsSeq(up.name), NEW listed, IsSeq(listed),
         \A n \in DOMAIN listed : IsSeq(listed[n].name)
  PROVE  LET Es == {Entry(i, up, listed[n]) : n \in DOMAIN listed}
         IN Kept(i, up, listed) \in Seq(Es) /\ \A e \in Es : Fit(e)
<1> DEFINE Es == {Entry(i, up, listed[n]) : n \in DOMAIN listed}
           X == Seq(Es)
           N == Len(listed)
           s == [n \in 1..N |-> [x \in X |->
                   IF PassesFilter(conf, up.name, Under(up.name, listed[n].name))
                   THEN Append(x, Entry(i, up, listed[n])) ELSE x]]
<1>1. N \in Nat /\ DOMAIN listed = 1..N
  BY Numbered1
<1>2. \A e \in Es : Fit(e)
  <2> SUFFICES ASSUME NEW n \in DOMAIN listed PROVE Fit(Entry(i, up, listed[n]))
    OBVIOUS
  <2> DEFINE id == Under(up.name, listed[n].name)
  <2>1. IsSeq(id)
    BY <1>1, Join, Single DEF Under
  <2>2. IsSeq(OverlayOf(id).patches) /\ \A m \in DOMAIN OverlayOf(id).patches : IsSeq(OverlayOf(id).patches[m].path)
    BY OverlayFits
  <2>3. /\ Entry(i, up, listed[n]).id = id /\ Entry(i, up, listed[n]).name = listed[n].name
        /\ Entry(i, up, listed[n]).patches = OverlayOf(id).patches
    BY DEF Entry
  <2>4. QED BY <2>1, <2>2, <2>3 DEF Fit
<1>3. s \in Steps(N, X)
  <2> USE DEF Steps
  <2> SUFFICES ASSUME NEW n \in 1..N, NEW x \in X PROVE Append(x, Entry(i, up, listed[n])) \in X
    OBVIOUS
  <2>1. Entry(i, up, listed[n]) \in Es
    BY <1>1
  <2>2. QED BY <2>1, AppendProperties
<1>4. <<>> \in X
  BY EmptySeq
<1> DEFINE K(f) == [n \in 0..N |-> IF n = 0 THEN <<>>
                      ELSE LET t == listed[n]
                           IN IF PassesFilter(conf, up.name, Under(up.name, t.name))
                              THEN Append(f[n - 1], Entry(i, up, t)) ELSE f[n - 1]]
<1>5. PICK f : Runs(f, N, X, <<>>, s)
  <2> HIDE DEF s, X, N
  <2>1. QED BY <1>1, <1>3, <1>4, Recursion
<1>6. f = K(f)
  <2>1. \A n \in 1..N : n - 1 \in 0..N
    BY <1>1
  <2>2. \A n \in 1..N : f[n - 1] \in X
    BY <1>5, <2>1 DEF Runs
  <2>3. \A n \in 1..N : s[n][f[n - 1]] =
          IF PassesFilter(conf, up.name, Under(up.name, listed[n].name))
          THEN Append(f[n - 1], Entry(i, up, listed[n])) ELSE f[n - 1]
    BY <2>2
  <2> HIDE DEF s, X
  <2>4. \A n \in 0..N : f[n] = K(f)[n]
    <3>1. f[0] = K(f)[0]
      BY <1>1, <1>5 DEF Runs
    <3>2. \A n \in 1..N : f[n] = K(f)[n]
      BY <1>1, <1>5, <2>3 DEF Runs
    <3> HIDE DEF K
    <3>3. \A n \in 0..N : n = 0 \/ n \in 1..N
      BY <1>1
    <3>4. QED BY <3>1, <3>2, <3>3
  <2>5. QED BY <1>5, <2>4 DEF Runs
<1> DEFINE k == CHOOSE g : g = K(g)
<1>7. k = K(k)
  BY <1>6
<1>8. Kept(i, up, listed) = k[N]
  BY DEF Kept
<1>9. \A n \in 0..N : k[n] \in X
  <2> DEFINE S == {n \in 0..N : k[n] \in X}
  <2>1. \A n \in 0..N : k[n] = K(k)[n]
    BY <1>7
  <2> HIDE DEF k
  <2>2. k[0] = <<>>
    BY <1>1, <2>1
  <2>3. ASSUME NEW n \in 1..N, k[n - 1] \in X PROVE k[n] \in X
    <3>1. k[n] = IF PassesFilter(conf, up.name, Under(up.name, listed[n].name))
                 THEN Append(k[n - 1], Entry(i, up, listed[n])) ELSE k[n - 1]
      BY <2>1
    <3>2. Entry(i, up, listed[n]) \in Es
      BY <1>1
    <3> HIDE DEF Es
    <3>3. QED BY <2>3, <3>1, <3>2, AppendProperties
  <2>4. 0 \in S /\ \A n \in 1..N : n - 1 \in S => n \in S
    <3> HIDE DEF X
    <3>1. 0 \in S
      BY <1>1, <1>4, <2>2
    <3>2. \A n \in 1..N : n - 1 \in S => n \in S
      BY <1>1, <2>3
    <3>3. QED BY <3>1, <3>2
  <2> HIDE DEF S
  <2>5. 0..N \subseteq S
    BY <1>1, <2>4, UpTo
  <2>6. QED BY <2>5 DEF S
<1>10. QED BY <1>1, <1>2, <1>8, <1>9

(* A catalog put together of what the upstreams listed is one.               *)
LEMMA Assembled ==
  ASSUME Built, NEW listed, DOMAIN listed = DOMAIN ups,
         \A i \in DOMAIN ups : listed[i] \in world.offers[ups[i]]
  PROVE  Wellformed(Assemble(ups, listed))
<1> DEFINE N == Len(ups)
           Up(i) == conf.upstreams[ups[i]]
           Es == UNION {{Entry(i, Up(i), listed[i][n]) : n \in DOMAIN listed[i]} : i \in 1..N}
           X == Seq(Es)
           s == [i \in 1..N |-> [x \in X |-> x \o Kept(i, Up(i), listed[i])]]
<1>1. /\ N \in Nat /\ DOMAIN ups = 1..N /\ Deployable(world)
      /\ \A i \in 1..N : ups[i] \in DOMAIN conf.upstreams
  BY TheDeployment
<1>2. ASSUME NEW i \in 1..N
      PROVE  LET E == {Entry(i, Up(i), listed[i][n]) : n \in DOMAIN listed[i]}
             IN Kept(i, Up(i), listed[i]) \in Seq(E) /\ \A e \in E : Fit(e)
  <2>1. /\ IsSeq(Up(i).name) /\ IsSeq(listed[i])
        /\ \A n \in DOMAIN listed[i] : IsSeq(listed[i][n].name)
    BY <1>1 DEF Deployable, conf
  <2>2. QED BY <1>1, <2>1, KeptFits
<1>3. \A e \in Es : Fit(e)
  BY <1>2
<1>4. \A i \in 1..N : Kept(i, Up(i), listed[i]) \in X
  <2> SUFFICES ASSUME NEW i \in 1..N PROVE Kept(i, Up(i), listed[i]) \in X
    OBVIOUS
  <2> DEFINE E == {Entry(i, Up(i), listed[i][n]) : n \in DOMAIN listed[i]}
  <2>1. Kept(i, Up(i), listed[i]) \in Seq(E)
    BY <1>2
  <2>2. E \subseteq Es
    OBVIOUS
  <2> HIDE DEF E, Es, Up
  <2>3. QED BY <2>1, <2>2, SeqMonotonic
<1>5. s \in Steps(N, X)
  <2> SUFFICES ASSUME NEW i \in 1..N, NEW x \in X PROVE x \o Kept(i, Up(i), listed[i]) \in X
    BY DEF Steps
  <2> HIDE DEF Es, Up
  <2>1. QED BY <1>4, ConcatProperties
<1>6. <<>> \in X
  BY EmptySeq
<1> DEFINE K(f) == [i \in 0..N |-> IF i = 0 THEN <<>> ELSE f[i - 1] \o Kept(i, Up(i), listed[i])]
<1>7. PICK f : Runs(f, N, X, <<>>, s)
  <2> HIDE DEF s, X, N
  <2>1. QED BY <1>1, <1>5, <1>6, Recursion
<1>8. f = K(f)
  <2>1. \A n \in 1..N : n - 1 \in 0..N
    BY <1>1
  <2>2. \A n \in 1..N : f[n - 1] \in X
    BY <1>7, <2>1 DEF Runs
  <2>3. \A n \in 1..N : s[n][f[n - 1]] = f[n - 1] \o Kept(n, Up(n), listed[n])
    BY <2>2
  <2> HIDE DEF s, X
  <2>4. f[0] = K(f)[0]
    BY <1>1, <1>7 DEF Runs
  <2>5. \A n \in 1..N : f[n] = K(f)[n]
    <3> HIDE DEF Up, Es
    <3>1. \A n \in 1..N : f[n] = f[n - 1] \o Kept(n, Up(n), listed[n])
      BY <1>7, <2>3 DEF Runs
    <3>2. \A n \in 1..N : n \in 0..N /\ n # 0
      BY <1>1
    <3>3. QED BY <3>1, <3>2
  <2> HIDE DEF K
  <2>6. \A n \in 0..N : n = 0 \/ n \in 1..N
    BY <1>1
  <2>7. \A n \in 0..N : f[n] = K(f)[n]
    BY <2>4, <2>5, <2>6
  <2>8. QED BY <1>7, <2>7 DEF Runs, K
<1> DEFINE k == CHOOSE g : g = K(g)
<1>9. k = K(k)
  BY <1>8
<1>10. Assemble(ups, listed) = k[N]
  BY DEF Assemble
<1>11. \A n \in 0..N : k[n] \in X
  <2> DEFINE S == {n \in 0..N : k[n] \in X}
  <2>1. \A n \in 0..N : k[n] = K(k)[n]
    BY <1>9
  <2> HIDE DEF k
  <2>2. k[0] = <<>>
    BY <1>1, <2>1
  <2>3. ASSUME NEW n \in 1..N, k[n - 1] \in X PROVE k[n] \in X
    <3> HIDE DEF Es, Up
    <3>1. n \in 0..N /\ n # 0
      BY <1>1
    <3>2. k[n] = k[n - 1] \o Kept(n, Up(n), listed[n])
      BY <2>1, <3>1
    <3>3. QED BY <1>4, <2>3, <3>2, ConcatProperties
  <2>4. 0 \in S /\ \A n \in 1..N : n - 1 \in S => n \in S
    <3> HIDE DEF X
    <3>1. 0 \in S
      BY <1>1, <1>6, <2>2
    <3>2. \A n \in 1..N : n - 1 \in S => n \in S
      BY <1>1, <2>3
    <3>3. QED BY <3>1, <3>2
  <2> HIDE DEF S
  <2>5. 0..N \subseteq S
    BY <1>1, <2>4, UpTo
  <2>6. QED BY <2>5 DEF S
<1>12. Assemble(ups, listed) \in Seq(Es)
  <2> HIDE DEF k, Es, N
  <2>1. N \in 0..N
    BY <1>1
  <2>2. QED BY <1>10, <1>11, <2>1
<1> HIDE DEF Es, Up, N
<1>13. /\ IsSeq(Assemble(ups, listed))
       /\ \A n \in DOMAIN Assemble(ups, listed) : Assemble(ups, listed)[n] \in Es
  BY <1>12, Sequences
<1>14. QED BY <1>3, <1>13 DEF Wellformed

-----------------------------------------------------------------------------
(* How the state is built up: a step of a caller, of an answer or of         *)
(* nobody's leaves the catalog and what it is made from alone.               *)
Fixed == <<world, phase, next, ups, listings, cat>>

(* A call on its way out leaves the catalog alone.                           *)
LEMMA SendKeeps ==
  ASSUME NEW c, NEW tool, NEW input, Send(c, tool, input)
  PROVE  UNCHANGED Fixed
BY DEF Send, Gives, Fixed

(* So does a step of a composite, which leaves what is read alone too.       *)
LEMMA RunStepKeeps ==
  ASSUME NEW c, NEW wf, NEW n, RunStep(c, wf, n)
  PROVE  UNCHANGED Fixed /\ UNCHANGED <<origin, heard, task>>
<1>1. ASSUME NEW said, Fails(c, wf, said) PROVE UNCHANGED Fixed
  BY <1>1 DEF Fails, Ends, Gives, Fixed
<1>2. ASSUME NEW tool, NEW input, SendStep(c, tool, input, wf, n) PROVE UNCHANGED Fixed
  BY <1>1, <1>2 DEF SendStep, Fixed
<1>3. ASSUME Ends(Tell(c, "workflow", {wf.id}, [workflow |-> wf])) PROVE UNCHANGED Fixed
  BY <1>3 DEF Ends, Gives, Fixed
<1>4. UNCHANGED Fixed
  BY <1>1, <1>2, <1>3 DEF RunStep
<1>5. QED BY <1>4 DEF RunStep

LEMMA StepAnswerKeeps ==
  ASSUME StepAnswer
  PROVE  UNCHANGED Fixed /\ UNCHANGED <<origin, heard, task>>
<1>1. ASSUME Fails(call.to, call.workflow, {}) PROVE UNCHANGED Fixed
  BY <1>1 DEF Fails, Ends, Gives, Fixed
<1>2. QED BY <1>1, RunStepKeeps DEF StepAnswer

(* So does what a caller asks.                                               *)
LEMMA UsesKeep ==
  ASSUME NEW c, Uses(c)
  PROVE  UNCHANGED Fixed
<1> USE DEF Fixed, Gives
<1>1. CASE ListTools(c)
  BY <1>1 DEF ListTools
<1>2. CASE Search(c)
  BY <1>2 DEF Search
<1>3. ASSUME NEW id, Details(c, id) PROVE UNCHANGED Fixed
  BY <1>3 DEF Details, Unknown
<1>4. ASSUME NEW id, CallTool(c, id) PROVE UNCHANGED Fixed
  BY <1>4, SendKeeps, RunStepKeeps DEF CallTool, Unknown
<1>5. CASE SourceMap(c)
  BY <1>5 DEF SourceMap
<1>6. ASSUME NEW name, CallByName(c, name) PROVE UNCHANGED Fixed
  BY <1>6, SendKeeps DEF CallByName, Unknown
<1>7. QED BY <1>1, <1>2, <1>3, <1>4, <1>5, <1>6 DEF Uses

(* So does what it reads, which leaves the call on the wire alone too.       *)
LEMMA PullsKeep ==
  ASSUME NEW c, Pulls(c)
  PROVE  UNCHANGED Fixed /\ call' = call
<1> USE DEF Fixed, Gives, Quiet
<1>1. ASSUME NEW doing, NEW uri, Begin(c, doing, uri) PROVE UNCHANGED Fixed /\ call' = call
  BY <1>1 DEF Begin
<1>2. CASE Fetch(c)
  BY <1>2 DEF Fetch
<1>3. CASE Listed(c)
  BY <1>3 DEF Listed
<1>4. ASSUME NEW uri, ReadResource(c, uri) PROVE UNCHANGED Fixed /\ call' = call
  BY <1>1, <1>4 DEF ReadResource
<1>5. ASSUME NEW name, GetPrompt(c, name) PROVE UNCHANGED Fixed /\ call' = call
  BY <1>5 DEF GetPrompt
<1>6. QED BY <1>1, <1>2, <1>3, <1>4, <1>5 DEF Pulls

(* Only starting up and a re-index change the catalog.                       *)
LEMMA NextKeeps ==
  ASSUME [Next]_vars
  PROVE  Connect \/ Start \/ (\E i \in DOMAIN ups : Reindex(i)) \/ UNCHANGED Fixed
<1>1. CASE \E c \in Callers : phase = "serving" /\ ((reply = Nobody /\ Uses(c)) \/ Pulls(c))
  BY <1>1, UsesKeep, PullsKeep
<1>2. CASE Answer \/ StepAnswer
  BY <1>2, StepAnswerKeeps DEF Answer, Gives, Fixed
<1>3. CASE phase = "serving" /\ ResolveSchema
  BY <1>3 DEF ResolveSchema, Gives, Fixed
<1>4. CASE Taken
  BY <1>4 DEF Taken, Fixed
<1>5. CASE UNCHANGED vars
  BY <1>5 DEF vars, Fixed
<1>6. QED BY <1>1, <1>2, <1>3, <1>4, <1>5 DEF Next

Base == Built /\ Wellformed(cat)

(* Nothing is built at first.                                                *)
LEMMA InitBase == Init => Base
<1> SUFFICES ASSUME Init PROVE Base
  OBVIOUS
<1> USE DEF Init
<1>1. <<>> \in Seq(DOMAIN conf.upstreams) /\ <<>> \in Seq(Listings) /\ DOMAIN <<>> = {} /\ Len(<<>>) = 0
  OBVIOUS
<1>2. Built
  BY <1>1 DEF Built
<1>3. IsSeq(<<>>)
  BY <1>1, Sequences
<1>4. Wellformed(cat)
  BY <1>1, <1>3 DEF Wellformed
<1>5. QED BY <1>2, <1>4 DEF Base

(* Another upstream started.                                                 *)
LEMMA ConnectBase ==
  ASSUME Base, Connect
  PROVE  Base'
<1> USE DEF Connect
<1>1. /\ Deployable(world) /\ Len(conf.upstreams) \in Nat /\ DOMAIN conf.upstreams = 1..Len(conf.upstreams)
      /\ DOMAIN ups = 1..Len(ups) /\ Len(ups) \in Nat /\ DOMAIN listings = DOMAIN ups
      /\ \A i \in DOMAIN ups : ups[i] \in DOMAIN conf.upstreams
  BY TheDeployment DEF Base
<1>2. world' = world /\ conf' = conf /\ Listings' = Listings
  BY DEF conf, Listings
<1>3. next \in DOMAIN conf.upstreams /\ next \in Nat \ {0}
  BY <1>1 DEF Base, Built
<1>0. /\ \A i \in DOMAIN ups : ups[i] \in Nat /\ ups[i] < next
      /\ \A i, j \in DOMAIN ups : i < j => ups[i] < ups[j]
  BY <1>1 DEF Base, Built
<1>4. Wellformed(cat)'
  BY DEF Base, Wellformed, Fit
<1>5. (phase = "serving" => Valid(conf))'
  BY <1>2 DEF Base, Built, Valid
<1>6. next' \in Nat \ {0}
  BY <1>3
<1>7. CASE UNCHANGED <<ups, listings>>
  <2>1. next' = next + 1
    OBVIOUS
  <2>2. \A i \in DOMAIN ups' : (ups[i])' < next'
    BY <1>0, <1>3, <1>7, <2>1
  <2>3. QED BY <1>2, <1>4, <1>5, <1>6, <1>7, <2>2 DEF Base, Built
<1>8. CASE \E listed \in world.offers[next] : ups' = Append(ups, next) /\ listings' = Append(listings, listed) /\ next' = next + 1
  <2>1. PICK listed \in world.offers[next] : ups' = Append(ups, next) /\ listings' = Append(listings, listed)
    BY <1>8
  <2>2. next' = next + 1
    BY <1>8
  <2>3. ups \in Seq(DOMAIN conf.upstreams) /\ listings \in Seq(Listings) /\ listed \in Listings /\ Len(listings) = Len(ups)
    BY <1>3 DEF Base, Built, Listings
  <2>4. /\ ups' \in Seq(DOMAIN conf.upstreams) /\ Len(ups') = Len(ups) + 1
        /\ \A i \in 1..Len(ups) : ups'[i] = ups[i]
        /\ ups'[Len(ups) + 1] = next
    BY <1>3, <2>1, <2>3, AppendProperties
  <2>5. /\ listings' \in Seq(Listings) /\ Len(listings') = Len(ups) + 1
        /\ \A i \in 1..Len(ups) : listings'[i] = listings[i]
        /\ listings'[Len(ups) + 1] = listed
    BY <2>1, <2>3, AppendProperties
  <2>6. DOMAIN ups' = 1..(Len(ups) + 1)
    BY <2>4, LenProperties
  <2>7. \A i \in DOMAIN ups' : i \in 1..Len(ups) \/ i = Len(ups) + 1
    BY <1>1, <2>6
  <2>8. \A i \in DOMAIN ups' : ups'[i] < next'
    <3> HIDE DEF Connect
    <3> SUFFICES ASSUME NEW i \in DOMAIN ups' PROVE ups'[i] < next'
      OBVIOUS
    <3>1. CASE i \in 1..Len(ups)
      BY <1>0, <1>1, <1>3, <2>2, <2>4, <3>1
    <3>2. CASE i = Len(ups) + 1
      BY <1>3, <2>2, <2>4, <3>2
    <3>3. QED BY <2>7, <3>1, <3>2
  <2>9. \A i, j \in DOMAIN ups' : i < j => ups'[i] < ups'[j]
    <3> HIDE DEF Connect
    <3> SUFFICES ASSUME NEW i \in DOMAIN ups', NEW j \in DOMAIN ups', i < j PROVE ups'[i] < ups'[j]
      OBVIOUS
    <3>1. i \in 1..Len(ups)
      BY <1>1, <2>6
    <3>2. CASE j \in 1..Len(ups)
      BY <1>0, <1>1, <2>4, <3>1, <3>2
    <3>3. CASE j = Len(ups) + 1
      BY <1>0, <1>1, <2>4, <3>1, <3>3
    <3>4. QED BY <2>7, <3>2, <3>3
  <2>10. \A i \in DOMAIN ups' : listings'[i] \in world.offers[ups'[i]]
    BY <1>1, <2>4, <2>5, <2>7 DEF Base, Built
  <2>11. QED BY <1>2, <1>4, <1>5, <1>6, <2>4, <2>5, <2>8, <2>9, <2>10 DEF Base, Built
<1>9. QED BY <1>7, <1>8

(* The catalog assembled.                                                    *)
LEMMA StartBase ==
  ASSUME Base, Start
  PROVE  Base'
<1> USE DEF Start
<1>1. Wellformed(Assemble(ups, listings))
  BY Assembled, TheDeployment DEF Base, Built
<1>2. cat' = cat \/ cat' = Assemble(ups, listings)
  OBVIOUS
<1>3. Wellformed(cat)'
  BY <1>1, <1>2 DEF Base, Wellformed, Fit
<1>4. phase' = "serving" => Valid(conf)
  OBVIOUS
<1>5. Built'
  BY <1>4 DEF Base, Built, conf, Listings
<1>6. QED BY <1>3, <1>5 DEF Base

(* A changed listing taken in.                                               *)
LEMMA ReindexBase ==
  ASSUME Base, NEW i \in DOMAIN ups, Reindex(i)
  PROVE  Base'
<1> USE DEF Reindex
<1>1. /\ DOMAIN ups = 1..Len(ups) /\ DOMAIN listings = DOMAIN ups /\ Len(ups) \in Nat
      /\ \A j \in DOMAIN ups : ups[j] \in DOMAIN conf.upstreams
  BY TheDeployment DEF Base
<1>2. PICK listed \in world.offers[ups[i]] :
        listings' = [listings EXCEPT ![i] = listed] /\ cat' = Assemble(ups, listings')
  OBVIOUS
<1>3. listed \in Listings
  BY <1>1 DEF Listings
<1>4. listings' \in Seq(Listings) /\ Len(listings') = Len(listings)
  BY <1>1, <1>2, <1>3, ExceptSeq DEF Base, Built
<1>5. DOMAIN listings' = DOMAIN ups /\ \A j \in DOMAIN ups : listings'[j] \in world.offers[ups[j]]
  BY <1>1, <1>2 DEF Base, Built
<1>6. Wellformed(Assemble(ups, listings'))
  BY <1>5, Assembled DEF Base
<1>7. UNCHANGED <<world, phase, next, ups>>
  OBVIOUS
<1> HIDE DEF Reindex
<1>8. Wellformed(cat)'
  <2>1. Wellformed(cat')
    BY <1>2, <1>6
  <2>2. QED BY <2>1 DEF Wellformed, Fit
<1>9. Built'
  BY <1>4, <1>5, <1>7 DEF Base, Built, conf, Listings
<1>10. QED BY <1>8, <1>9 DEF Base

(* Every step keeps the catalog well-formed.                                 *)
LEMMA NextBase ==
  ASSUME Base, [Next]_vars
  PROVE  Base'
<1>1. CASE UNCHANGED Fixed
  BY <1>1 DEF Fixed, Base, Built, Wellformed, Fit, conf, Listings
<1>2. QED BY <1>1, NextKeeps, ConnectBase, StartBase, ReindexBase

(* The catalog is always made of what the configuration and the listings     *)
(* say.                                                                      *)
LEMMA AlwaysBase == Spec => []Base
<1>1. Base /\ [Next]_vars => Base'
  BY NextBase
<1>2. QED BY InitBase, <1>1, PTL DEF Spec

-----------------------------------------------------------------------------
(* The tool an id stands for has it.                                         *)
LEMMA DefHasId ==
  ASSUME NEW tools, Wellformed(tools), NEW id, Known(tools, id)
  PROVE  \E i \in DOMAIN tools : Def(tools, id) = tools[i] /\ tools[i].id = id
<1> DEFINE its == {i \in DOMAIN tools : tools[i].id = id}
<1>1. Len(tools) \in Nat /\ DOMAIN tools = 1..Len(tools)
  BY Numbered1 DEF Wellformed
<1>2. its # {} /\ its \subseteq 0..Len(tools)
  BY <1>1 DEF Known
<1>3. Max(its) \in its
  <2> HIDE DEF its
  <2>1. QED BY <1>1, <1>2, Greatest
<1>4. QED BY <1>3 DEF Def

(* A map that is added to.                                                   *)
LEMMA AlsoIs ==
  ASSUME NEW f, NEW g
  PROVE  /\ DOMAIN Also(f, g) = DOMAIN f \union DOMAIN g
         /\ \A x \in DOMAIN f : Also(f, g)[x] = f[x]
         /\ \A x \in DOMAIN g \ DOMAIN f : Also(f, g)[x] = g[x]
BY DEF Also

(* Both maps into one set.                                                   *)
LEMMA AlsoFills ==
  ASSUME NEW D, NEW E, NEW S, NEW f \in [D -> S], NEW g \in [E -> S]
  PROVE  Also(f, g) \in [D \union E -> S]
BY DEF Also

(* An entry comes from the one or from the other.                            *)
LEMMA AlsoAt ==
  ASSUME NEW f, NEW g, NEW h, h = Also(f, g), NEW x \in DOMAIN h
  PROVE  \/ x \in DOMAIN f /\ h[x] = f[x]
         \/ x \notin DOMAIN f /\ x \in DOMAIN g /\ h[x] = g[x]
BY DEF Also

(* The names are given one tool after the other.                             *)
Gets(tools, n, before) ==
  Also([name \in {NameFor(tools, tools[n], DOMAIN before)} |-> tools[n].id], before)

Names(tools, e) ==
  /\ e[0] = <<>>
  /\ \A n \in 1..Len(tools) : e[n] = Gets(tools, n, e[n - 1])

(* The names a catalog exposes come about so.                                *)
LEMMA Naming ==
  ASSUME NEW tools, Wellformed(tools)
  PROVE  \E e : Names(tools, e) /\ Named(tools) = e[Len(tools)]
<1> DEFINE N == Len(tools)
           Ids == {tools[n].id : n \in 1..N}
           Mins == {Min(F) : F \in SUBSET (DOMAIN Numerals)}
           Ns == UNION {{SanitizeName(tools[n].name, 0), SanitizeName(tools[n].id, 0)}
                         \union {Numbered(SanitizeName(tools[n].id, 2), m) : m \in Mins} : n \in 1..N}
           X == UNION {[D -> Ids] : D \in SUBSET Ns}
           s == [n \in 1..N |-> [x \in X |-> Gets(tools, n, x)]]
<1>1. N \in Nat /\ DOMAIN tools = 1..N
  BY Numbered1 DEF Wellformed
<1>2. ASSUME NEW n \in 1..N, NEW taken PROVE NameFor(tools, tools[n], taken) \in Ns
  <2> DEFINE free == {m \in DOMAIN Numerals : Numbered(SanitizeName(tools[n].id, 2), m) \notin taken}
  <2>1. Min(free) \in Mins
    OBVIOUS
  <2> HIDE DEF Mins
  <2>2. \/ NameFor(tools, tools[n], taken) = SanitizeName(tools[n].name, 0)
        \/ NameFor(tools, tools[n], taken) = SanitizeName(tools[n].id, 0)
        \/ NameFor(tools, tools[n], taken) = Numbered(SanitizeName(tools[n].id, 2), Min(free))
    BY DEF NameFor
  <2>3. QED BY <2>1, <2>2
<1>3. ASSUME NEW n \in 1..N, NEW x \in X PROVE Gets(tools, n, x) \in X
  <2>1. PICK D \in SUBSET Ns : x \in [D -> Ids]
    OBVIOUS
  <2> DEFINE nm == NameFor(tools, tools[n], DOMAIN x)
             f == [name \in {nm} |-> tools[n].id]
  <2>2. nm \in Ns /\ tools[n].id \in Ids
    BY <1>2
  <2>3. f \in [{nm} -> Ids]
    BY <2>2
  <2>4. Gets(tools, n, x) = Also(f, x)
    BY DEF Gets
  <2> HIDE DEF f, nm, Ids, Ns
  <2>5. Also(f, x) \in [{nm} \union D -> Ids]
    BY <2>1, <2>3, AlsoFills
  <2>6. {nm} \union D \in SUBSET Ns
    BY <2>2
  <2>7. QED BY <2>4, <2>5, <2>6
<1>4. s \in Steps(N, X)
  <2> HIDE DEF X
  <2>1. QED BY <1>3 DEF Steps
<1>5. <<>> \in X
  <2>1. <<>> \in [{} -> Ids] /\ {} \in SUBSET Ns
    OBVIOUS
  <2>2. QED BY <2>1
<1> DEFINE K(f) == [n \in 0..N |-> IF n = 0 THEN <<>> ELSE Gets(tools, n, f[n - 1])]
<1>6. PICK f : Runs(f, N, X, <<>>, s)
  <2> HIDE DEF s, X, N
  <2>1. QED BY <1>1, <1>4, <1>5, Recursion
<1>7. f = K(f)
  <2>1. \A n \in 1..N : n - 1 \in 0..N /\ n \in 0..N /\ n # 0
    BY <1>1
  <2>2. \A n \in 1..N : f[n - 1] \in X
    BY <1>6, <2>1 DEF Runs
  <2>3. \A n \in 1..N : f[n] = Gets(tools, n, f[n - 1])
    <3> HIDE DEF X
    <3>1. QED BY <1>6, <2>2 DEF Runs
  <2> HIDE DEF s, X
  <2>4. f[0] = K(f)[0]
    BY <1>1, <1>6 DEF Runs
  <2>5. \A n \in 1..N : f[n] = K(f)[n]
    BY <2>1, <2>3
  <2> HIDE DEF K
  <2>6. \A n \in 0..N : n = 0 \/ n \in 1..N
    BY <1>1
  <2>7. \A n \in 0..N : f[n] = K(f)[n]
    BY <2>4, <2>5, <2>6
  <2>8. QED BY <1>6, <2>7 DEF Runs, K
<1> DEFINE k == CHOOSE g : g = K(g)
<1>8. k = K(k)
  BY <1>7
<1>9. Named(tools) = k[N]
  BY DEF Named, Gets
<1>10. Names(tools, k)
  <2>1. \A n \in 0..N : k[n] = K(k)[n]
    BY <1>8
  <2> HIDE DEF k
  <2>2. k[0] = <<>>
    BY <1>1, <2>1
  <2>3. \A n \in 1..N : n \in 0..N /\ n # 0
    BY <1>1
  <2>4. \A n \in 1..N : k[n] = Gets(tools, n, k[n - 1])
    BY <2>1, <2>3
  <2>5. QED BY <2>2, <2>4 DEF Names
<1>11. QED BY <1>9, <1>10

(* A name is the name of a tool there is.                                    *)
LEMMA NamesKnown ==
  ASSUME NEW tools, Wellformed(tools), NEW name \in DOMAIN Named(tools)
  PROVE  Known(tools, Named(tools)[name])
<1>1. Len(tools) \in Nat /\ DOMAIN tools = 1..Len(tools)
  BY Numbered1 DEF Wellformed
<1>2. PICK e : Names(tools, e) /\ Named(tools) = e[Len(tools)]
  BY Naming
<1> DEFINE S == {n \in 0..Len(tools) : \A x \in DOMAIN e[n] : Known(tools, e[n][x])}
<1>3. 0 \in S
  <2>1. e[0] = <<>> /\ DOMAIN <<>> = {}
    BY <1>2 DEF Names
  <2>2. QED BY <1>1, <2>1
<1>4. \A n \in 1..Len(tools) : n - 1 \in S => n \in S
  <2> SUFFICES ASSUME NEW n \in 1..Len(tools), n - 1 \in S, NEW x \in DOMAIN e[n] PROVE Known(tools, e[n][x])
    BY <1>1
  <2> DEFINE f == [y \in {NameFor(tools, tools[n], DOMAIN e[n - 1])} |-> tools[n].id]
  <2>1. e[n] = Also(f, e[n - 1])
    BY <1>2 DEF Names, Gets
  <2>2. \A y \in DOMAIN f : f[y] = tools[n].id
    OBVIOUS
  <2> HIDE DEF f
  <2>3. CASE x \in DOMAIN f
    <3>1. e[n][x] = tools[n].id
      BY <2>1, <2>2, <2>3, AlsoAt
    <3>2. QED BY <1>1, <3>1 DEF Known
  <2>4. CASE x \notin DOMAIN f
    <3>1. x \in DOMAIN e[n - 1] /\ e[n][x] = e[n - 1][x]
      BY <2>1, <2>4, AlsoAt
    <3>2. QED BY <3>1
  <2>5. QED BY <2>3, <2>4
<1> HIDE DEF S
<1>5. 0..Len(tools) \subseteq S
  BY <1>1, <1>3, <1>4, UpTo
<1>6. Len(tools) \in S
  BY <1>1, <1>5
<1>7. QED BY <1>2, <1>6 DEF S

-----------------------------------------------------------------------------
(* Only what is visible is mentioned: an answer's ids are permitted to the   *)
(* caller it is for, or are the steps of a composite that failed and that it *)
(* may run.  Those of the call on the wire, whose answer repeats them, are   *)
(* permitted, and a composite is run for those who may run it.  The world,   *)
(* and with it what is permitted, never changes.                             *)
Discreet(r) == r.to \in Callers => \A id \in r.ids : Permits(r.to, id)
Reports(r) ==
  /\ r.kind = "failed" /\ Permits(r.to, r.workflow.id)
  /\ \A id \in r.ids : Permits(r.to, id) \/ id \in Range(r.workflow.steps)
Proper(r) == Discreet(r) \/ Reports(r)
Carries(r) ==
  /\ {"to", "kind", "ids"} \subseteq DOMAIN r /\ Discreet(r)
  /\ r.kind = "step" => Permits(r.to, r.workflow.id)
Sealed == call # Nothing => Carries(call)

(* An answer says to whom it goes, what it is and what it mentions.          *)
LEMMA TellSays ==
  ASSUME NEW c, NEW kind, NEW ids, NEW more
  PROVE  LET told == Tell(c, kind, ids, more)
         IN /\ {"to", "kind", "ids"} \subseteq DOMAIN told
            /\ told.to = c /\ told.kind = kind /\ told.ids = ids
            /\ \A x \in DOMAIN more \ {"to", "kind", "ids"} : x \in DOMAIN told /\ told[x] = more[x]
<1> DEFINE said == Say(c, kind, ids)
<1>1. DOMAIN said = {"to", "kind", "ids"} /\ said.to = c /\ said.kind = kind /\ said.ids = ids
  BY DEF Say
<1>2. Tell(c, kind, ids, more) = Also(said, more)
  BY DEF Tell
<1> DEFINE told == Tell(c, kind, ids, more)
<1> HIDE DEF said, told
<1>3. told = Also(said, more)
  BY <1>2 DEF told
<1>4. /\ DOMAIN told = DOMAIN said \union DOMAIN more
      /\ \A x \in DOMAIN said : told[x] = said[x]
      /\ \A x \in DOMAIN more \ DOMAIN said : told[x] = more[x]
  BY <1>3 DEF Also
<1>5. {"to", "kind", "ids"} \subseteq DOMAIN told /\ told.to = c /\ told.kind = kind /\ told.ids = ids
  <2>1. "to" \in DOMAIN said /\ "kind" \in DOMAIN said /\ "ids" \in DOMAIN said
    BY <1>1
  <2>2. told["to"] = said["to"] /\ told["kind"] = said["kind"] /\ told["ids"] = said["ids"]
    BY <1>4, <2>1, Zenon
  <2>3. QED BY <1>1, <1>4, <2>2
<1>6. \A x \in DOMAIN more \ {"to", "kind", "ids"} : x \in DOMAIN told /\ told[x] = more[x]
  BY <1>1, <1>4
<1>7. QED BY <1>5, <1>6 DEF told

(* What it is, by itself.                                                    *)
LEMMA TellKind == \A c, kind, ids, more : Tell(c, kind, ids, more).kind = kind
BY TellSays

(* An answer that mentions permitted ids alone is discreet.                  *)
LEMMA DiscreetTell ==
  ASSUME NEW c, NEW kind, NEW ids, NEW more, \A id \in ids : Permits(c, id)
  PROVE  Discreet(Tell(c, kind, ids, more)) /\ Discreet(Say(c, kind, ids))
<1>1. Discreet(Tell(c, kind, ids, more))
  BY TellSays DEF Discreet
<1>2. Discreet(Say(c, kind, ids))
  BY DEF Say, Discreet
<1>3. QED BY <1>1, <1>2

(* The deployment never changes.                                             *)
LEMMA WorldStays == [Next]_vars => world' = world
BY NextKeeps DEF Connect, Start, Reindex, Fixed

(* A discreet answer stays so.                                               *)
LEMMA DiscreetSteps ==
  ASSUME world' = world, NEW r, Discreet(r)
  PROVE  Discreet(r)'
BY DEF Discreet, Permits, conf

(* A call of a permitted tool, in the place of an answer taken.              *)
LEMMA SendDiscreet ==
  ASSUME NEW c, NEW tool, NEW input, Permits(c, tool.id), Send(c, tool, input), Discreet(reply), Sealed
  PROVE  Discreet(reply') /\ (call' # Nothing => Carries(call'))
<1>1. PICK ready :
        \/ /\ \E more : reply' = Tell(c, "refused", {tool.id}, more)
           /\ call' = call
        \/ /\ \E more : call' = Tell(c, "sent", {tool.id}, more)
           /\ reply' = reply
  BY DEF Send, Gives, Quiet
<1>2. CASE (\E more : reply' = Tell(c, "refused", {tool.id}, more)) /\ call' = call
  BY <1>2, DiscreetTell DEF Sealed
<1>3. CASE (\E more : call' = Tell(c, "sent", {tool.id}, more)) /\ reply' = reply
  <2>1. PICK more : call' = Tell(c, "sent", {tool.id}, more)
    BY <1>3
  <2>2. Discreet(call')
    BY <2>1, DiscreetTell
  <2>3. {"to", "kind", "ids"} \subseteq DOMAIN call' /\ call'.kind = "sent"
    BY <2>1, TellSays
  <2>4. QED BY <1>3, <2>2, <2>3 DEF Carries
<1>4. QED BY <1>1, <1>2, <1>3

(* The near misses of a mistyped name.                                       *)
LEMMA UnknownDiscreet ==
  ASSUME NEW c, NEW ids, \A id \in ids : Permits(c, id), Unknown(c, ids)
  PROVE  Discreet(reply')
<1>1. PICK close \in DidYouMean(ids) : reply' = Say(c, "unknown", close)
  BY DEF Unknown, Gives
<1>2. close \subseteq ids
  BY DEF DidYouMean
<1>3. QED BY <1>1, <1>2, DiscreetTell

Hushed == Proper(reply) /\ Sealed
HushedNext == Proper(reply') /\ (call' # Nothing => Carries(call'))

(* What a step of a composite does: it ends the composite, or it fails it    *)
(* with a report, or its call goes out.                                      *)
Goes(c, wf, tool, ready) ==
  /\ reply' = reply
  /\ \E input, n : call' = Tell(c, "step", {tool.id},
                                [tool |-> tool, input |-> input, sent |-> ready.args, workflow |-> wf, step |-> n])

Advanced(c, wf) ==
  \/ call' = Nothing /\ reply' = Tell(c, "workflow", {wf.id}, [workflow |-> wf])
  \/ /\ call' = Nothing
     /\ \E close \in SUBSET Candidates(c) :
          reply' = Tell(c, "failed", {wf.id} \union Range(wf.steps) \union close, [workflow |-> wf])
  \/ \E id, args : LET ready == Prepared(Def(cat, id), args, world.secrets)
                   IN Answerable(c, id) /\ ready.refused = "no" /\ Goes(c, wf, Def(cat, id), ready)

LEMMA FailsAdvance ==
  ASSUME NEW c, NEW wf, NEW close \in SUBSET Candidates(c), Fails(c, wf, close)
  PROVE  Advanced(c, wf)
BY DEF Fails, Ends, Gives, Advanced

LEMMA RunStepAdvances ==
  ASSUME NEW c, NEW wf, NEW n, RunStep(c, wf, n)
  PROVE  Advanced(c, wf)
<1>1. CASE Ends(Tell(c, "workflow", {wf.id}, [workflow |-> wf]))
  BY <1>1 DEF Ends, Gives, Advanced
<1>2. ASSUME NEW close \in DidYouMean(Candidates(c)), Fails(c, wf, close) PROVE Advanced(c, wf)
  BY <1>2, FailsAdvance DEF DidYouMean
<1>3. ASSUME NEW input, Answerable(c, wf.steps[n]), SendStep(c, Def(cat, wf.steps[n]), input, wf, n)
      PROVE  Advanced(c, wf)
  <2> DEFINE tool == Def(cat, wf.steps[n])
             ready == Prepared(tool, input.args, world.secrets)
  <2>1. CASE Fails(c, wf, {})
    BY <2>1, FailsAdvance
  <2>2. CASE /\ ready.refused = "no" /\ reply' = reply
             /\ call' = Tell(c, "step", {tool.id},
                             [tool |-> tool, input |-> input, sent |-> ready.args, workflow |-> wf, step |-> n])
    <3>1. Goes(c, wf, tool, ready)
      BY <2>2 DEF Goes
    <3>2. QED BY <1>3, <2>2, <3>1 DEF Advanced
  <2>3. QED BY <1>3, <2>1, <2>2 DEF SendStep
<1>4. QED BY <1>1, <1>2, <1>3 DEF RunStep

LEMMA StepAnswerAdvances ==
  ASSUME StepAnswer
  PROVE  call # Nothing /\ call.kind = "step" /\ Advanced(call.to, call.workflow)
<1>1. CASE Fails(call.to, call.workflow, {})
  BY <1>1, FailsAdvance DEF StepAnswer
<1>2. ASSUME NEW n, RunStep(call.to, call.workflow, n) PROVE Advanced(call.to, call.workflow)
  BY <1>2, RunStepAdvances
<1>3. QED BY <1>1, <1>2 DEF StepAnswer

(* A composite is the one its id names.                                      *)
LEMMA WorkflowHasId ==
  ASSUME NEW id, IsWorkflow(id)
  PROVE  WorkflowOf(id).id = id
<1>1. \E wf \in Range(conf.workflows) : wf.id = id
  BY DEF IsWorkflow, Range
<1>2. QED BY <1>1 DEF WorkflowOf

(* Its steps mention what is permitted, or fail with a report.               *)
LEMMA AdvancedDiscreet ==
  ASSUME Base, Hushed, NEW c, NEW wf, Permits(c, wf.id), Advanced(c, wf)
  PROVE  HushedNext
<1> USE DEF Hushed, HushedNext
<1>1. CASE call' = Nothing /\ reply' = Tell(c, "workflow", {wf.id}, [workflow |-> wf])
  BY <1>1, DiscreetTell DEF Proper
<1>2. ASSUME NEW close \in SUBSET Candidates(c), call' = Nothing,
             reply' = Tell(c, "failed", {wf.id} \union Range(wf.steps) \union close, [workflow |-> wf])
      PROVE  HushedNext
  <2> DEFINE ids == {wf.id} \union Range(wf.steps) \union close
             more == [workflow |-> wf]
  <2>1. "workflow" \in DOMAIN more \ {"to", "kind", "ids"} /\ more["workflow"] = wf
    OBVIOUS
  <2>2. \A id \in ids : Permits(c, id) \/ id \in Range(wf.steps)
    BY DEF Candidates
  <2>3. reply' = Tell(c, "failed", ids, more)
    BY <1>2
  <2> HIDE DEF ids, more
  <2>4. reply'.to = c /\ reply'.kind = "failed" /\ reply'.ids = ids /\ reply'["workflow"] = wf
    BY <2>1, <2>3, TellSays
  <2>5. Reports(reply')
    BY <2>2, <2>4 DEF Reports
  <2>6. QED BY <1>2, <2>5 DEF Proper
<1>3. ASSUME NEW id, NEW ready, Answerable(c, id), Goes(c, wf, Def(cat, id), ready) PROVE HushedNext
  <2> DEFINE tool == Def(cat, id)
  <2>1. PICK more : /\ call' = Tell(c, "step", {tool.id}, more)
                    /\ "workflow" \in DOMAIN more \ {"to", "kind", "ids"} /\ more["workflow"] = wf
    BY <1>3 DEF Goes
  <2>2. Permits(c, tool.id)
    BY <1>3, DefHasId DEF Answerable, Base
  <2> HIDE DEF tool
  <2>3. Discreet(call')
    BY <2>1, <2>2, DiscreetTell
  <2>4. /\ {"to", "kind", "ids"} \subseteq DOMAIN call'
        /\ call'.to = c /\ call'["workflow"] = wf
    BY <2>1, TellSays
  <2>5. QED BY <1>3, <2>3, <2>4 DEF Carries, Goes
<1>4. QED BY <1>1, <1>2, <1>3 DEF Advanced

(* Whatever a caller asks, the answer is discreet.                           *)
LEMMA UsesDiscreet ==
  ASSUME Base, Hushed, reply = Nobody, NEW c, Uses(c)
  PROVE  HushedNext
<1> USE DEF Hushed, HushedNext, Proper
<1>0. Discreet(reply)
  BY DEF Discreet, Nobody
<1>1. CASE ListTools(c)
  <2> DEFINE exposed == ExposedNames(cat)
             names == {n \in DOMAIN exposed : Known(cat, exposed[n]) /\ Permits(c, exposed[n])}
  <2>1. /\ reply' = Tell(c, "tools", {exposed[n] : n \in names}, [names |-> names])
        /\ call' = call
    BY <1>1 DEF ListTools, Gives, Quiet
  <2>2. Discreet(reply')
    <3>1. \A n \in names : Permits(c, exposed[n])
      OBVIOUS
    <3> HIDE DEF names, exposed
    <3>2. \A id \in {exposed[n] : n \in names} : Permits(c, id)
      BY <3>1
    <3>3. QED BY <2>1, <3>2, DiscreetTell
  <2>3. QED BY <2>1, <2>2 DEF Sealed
<1>2. CASE Search(c)
  <2>1. PICK ranking, k, more :
          /\ reply' = Tell(c, "found", {ranking[i] : i \in Served(c, ranking, k)}, more)
          /\ call' = call
    BY <1>2 DEF Search, Gives, Quiet
  <2>2. \A i \in Served(c, ranking, k) : Permits(c, ranking[i])
    BY DEF Served
  <2>3. Discreet(reply')
    BY <2>1, <2>2, DiscreetTell
  <2>4. QED BY <2>1, <2>3 DEF Sealed
<1>3. ASSUME NEW id, Details(c, id) PROVE HushedNext
  <2>1. call' = call
    BY <1>3 DEF Details, Quiet
  <2>2. CASE IsWorkflow(id) /\ Permits(c, id)
    <3>1. reply' = Say(c, "steps", {id})
      BY <1>3, <2>2 DEF Details, Gives
    <3>2. QED BY <2>1, <2>2, <3>1, DiscreetTell DEF Sealed
  <2>3. CASE ~(IsWorkflow(id) /\ Permits(c, id)) /\ ~Answerable(c, id)
    <3>1. Unknown(c, Candidates(c))
      BY <1>3, <2>3 DEF Details
    <3>2. Discreet(reply')
      BY <3>1, UnknownDiscreet DEF Candidates
    <3>3. QED BY <2>1, <3>2 DEF Sealed
  <2>4. CASE ~(IsWorkflow(id) /\ Permits(c, id)) /\ Answerable(c, id)
    <3>1. reply' = Tell(c, "details", {id}, DetailsOf(Def(cat, id)))
      BY <1>3, <2>4 DEF Details, Gives
    <3>2. Discreet(reply')
      BY <2>4, <3>1, DiscreetTell DEF Answerable
    <3>3. QED BY <2>1, <3>2 DEF Sealed
  <2>5. QED BY <2>2, <2>3, <2>4
<1>4. ASSUME NEW id, CallTool(c, id) PROVE HushedNext
  <2>1. CASE IsWorkflow(id) /\ Permits(c, id) /\ RunStep(c, WorkflowOf(id), 1)
    BY <2>1, WorkflowHasId, RunStepAdvances, AdvancedDiscreet
  <2>2. CASE Answerable(c, id) /\ \E input \in world.inputs : Send(c, Def(cat, id), input)
    <3>1. Permits(c, Def(cat, id).id)
      BY <2>2, DefHasId DEF Answerable, Base
    <3>2. QED BY <1>0, <2>2, <3>1, SendDiscreet
  <2>3. CASE Unknown(c, Candidates(c)) /\ Quiet
    <3>1. Discreet(reply') /\ call' = call
      BY <2>3, UnknownDiscreet DEF Candidates, Quiet
    <3>2. QED BY <3>1 DEF Sealed
  <2>4. QED BY <1>4, <2>1, <2>2, <2>3 DEF CallTool
<1>5. CASE SourceMap(c)
  <2>1. reply' = Say(c, "map", {cat[i].id : i \in {n \in DOMAIN cat : Permits(c, cat[n].id)}}) /\ call' = call
    BY <1>5 DEF SourceMap, Gives, Quiet
  <2>2. Discreet(reply')
    BY <2>1, DiscreetTell
  <2>3. QED BY <2>1, <2>2 DEF Sealed
<1>6. ASSUME NEW name, CallByName(c, name) PROVE HushedNext
  <2> DEFINE exposed == ExposedNames(cat)
  <2>1. exposed = Named(cat)
    BY <1>6 DEF CallByName, ExposedNames
  <2>2. CASE name \in DOMAIN exposed /\ Permits(c, exposed[name])
    <3>1. PICK input : Send(c, Def(cat, exposed[name]), input)
      BY <1>6, <2>2 DEF CallByName
    <3>2. Known(cat, exposed[name])
      BY <2>1, <2>2, NamesKnown DEF Base
    <3>3. Permits(c, Def(cat, exposed[name]).id)
      BY <2>2, <3>2, DefHasId DEF Base
    <3>4. QED BY <1>0, <3>1, <3>3, SendDiscreet
  <2>3. CASE ~(name \in DOMAIN exposed /\ Permits(c, exposed[name]))
    <3>1. Unknown(c, {exposed[n] : n \in {n \in DOMAIN exposed : Permits(c, exposed[n])}}) /\ Quiet
      BY <1>6, <2>3 DEF CallByName
    <3>2. Discreet(reply') /\ call' = call
      BY <3>1, UnknownDiscreet DEF Quiet
    <3>3. QED BY <3>2 DEF Sealed
  <2>4. QED BY <2>2, <2>3
<1>7. QED BY <1>1, <1>2, <1>3, <1>4, <1>5, <1>6 DEF Uses

(* What a read answers mentions no id.                                       *)
LEMMA ReadSays ==
  ASSUME NEW c, NEW uri, NEW routes
  PROVE  \E kind, more : Read(c, uri, routes) = Tell(c, kind, {}, more)
BY DEF Read

(* What a pull answers names no tool.                                        *)
LEMMA PullsTell ==
  ASSUME NEW c, Pulls(c)
  PROVE  reply' = reply \/ \E kind, more : reply' = Tell(c, kind, {}, more)
<1>1. ASSUME NEW doing, NEW uri, Begin(c, doing, uri) PROVE reply' = reply
  BY <1>1 DEF Begin
<1>2. CASE Fetch(c)
  BY <1>2 DEF Fetch
<1>3. CASE Listed(c)
  BY <1>3, ReadSays DEF Listed, Gives
<1>4. ASSUME NEW uri, ReadResource(c, uri)
      PROVE  reply' = reply \/ \E kind, more : reply' = Tell(c, kind, {}, more)
  BY <1>1, <1>4, ReadSays DEF ReadResource, Gives
<1>5. ASSUME NEW name, GetPrompt(c, name) PROVE \E kind, more : reply' = Tell(c, kind, {}, more)
  BY <1>5 DEF GetPrompt, Gives
<1>6. QED BY <1>1, <1>2, <1>3, <1>4, <1>5 DEF Pulls

(* Every step leaves the answer and the call discreet.                       *)
LEMMA NextDiscreet ==
  ASSUME Base, Hushed, Next
  PROVE  HushedNext
<1> USE DEF Hushed, HushedNext, Proper
<1>1. CASE Connect \/ Start \/ \E i \in DOMAIN ups : Reindex(i)
  BY <1>1 DEF Connect, Start, Reindex, Sealed
<1>2. ASSUME NEW c, reply = Nobody, Uses(c) PROVE HushedNext
  BY <1>2, UsesDiscreet
<1>3. ASSUME NEW c, Pulls(c) PROVE HushedNext
  <2>1. Proper(reply')
    BY <1>3, PullsTell, DiscreetTell
  <2>2. QED BY <1>3, <2>1, PullsKeep DEF Sealed
<1>4. CASE Answer
  <2>1. PICK more : call # Nothing /\ call' = Nothing /\ reply' = Also([call EXCEPT !.kind = "result"], more)
    BY <1>4 DEF Answer, Gives
  <2> DEFINE f == [call EXCEPT !.kind = "result"]
  <2>2. {"to", "ids"} \subseteq DOMAIN f /\ f.to = call.to /\ f.ids = call.ids
    BY <2>1 DEF Sealed, Carries
  <2>3. reply' = Also(f, more)
    BY <2>1
  <2> HIDE DEF f
  <2>4. reply'.to = call.to /\ reply'.ids = call.ids
    BY <2>2, <2>3, AlsoIs
  <2>5. QED BY <2>1, <2>4 DEF Sealed, Carries, Discreet
<1>5. CASE ResolveSchema
  <2>1. PICK more : reply' = Tell("nobody", "resolved", {}, more) /\ call' = call
    BY <1>5 DEF ResolveSchema, Gives, Quiet
  <2>2. Discreet(reply')
    BY <2>1, DiscreetTell
  <2>3. QED BY <2>1, <2>2 DEF Sealed
<1>6. CASE Taken
  <2>1. reply' = Nobody /\ call' = call
    BY <1>6 DEF Taken
  <2>2. Nobody.ids = {}
    BY DEF Nobody
  <2>3. QED BY <2>1, <2>2 DEF Sealed, Discreet
<1>7. CASE StepAnswer
  <2>1. Permits(call.to, call.workflow.id)
    BY <1>7, StepAnswerAdvances DEF Sealed, Carries
  <2>2. QED BY <1>7, <2>1, StepAnswerAdvances, AdvancedDiscreet
<1>8. QED BY <1>1, <1>2, <1>3, <1>4, <1>5, <1>6, <1>7 DEF Next

(* The answer and the call on the wire are discreet throughout.              *)
LEMMA AlwaysHushed == Spec => []Hushed
<1>1. Init => Hushed
  BY DEF Init, Hushed, Proper, Discreet, Sealed, Nobody, Nothing
<1>2. Base /\ Hushed /\ [Next]_vars => Hushed'
  <2> SUFFICES ASSUME Base, Hushed, [Next]_vars PROVE Hushed'
    OBVIOUS
  <2>1. HushedNext
    <3>1. CASE UNCHANGED vars
      BY <3>1 DEF vars, Hushed, HushedNext, Sealed
    <3>2. QED BY <3>1, NextDiscreet
  <2>2. QED BY <2>1, WorldStays DEF HushedNext, Hushed, Proper, Reports, Sealed, Carries, Discreet, Permits, conf
<1>3. QED BY <1>1, <1>2, AlwaysBase, PTL DEF Spec

(* No answer names a tool or a workflow its caller's scopes hide: not the    *)
(* listing, the search, the near misses, the source map, nor what a call     *)
(* comes back with (Surface::allowed and may_call, which every one of        *)
(* these asks).  What a failed composite's report gives away is the tools of *)
(* its own steps, to those who may run it, and nothing else (route_call,     *)
(* workflow_failure).                                                        *)
THEOREM OnlyVisibleMentioned == Spec => []MentionsOnlyVisible
<1>1. Hushed => MentionsOnlyVisible
  BY DEF Hushed, Proper, Reports, MentionsOnlyVisible, Discreet, Permits
<1>2. QED BY <1>1, AlwaysHushed, PTL

-----------------------------------------------------------------------------
(* A search that comes back short.                                           *)
LEMMA Picture ==
  ASSUME NEW f, IsFiniteSet(DOMAIN f)
  PROVE  IsFiniteSet({f[x] : x \in DOMAIN f})
<1> DEFINE T == {f[x] : x \in DOMAIN f}
           g == [x \in DOMAIN f |-> f[x]]
<1>1. g \in Surjection(DOMAIN f, T)
  BY DEF Surjection
<1> HIDE DEF g, T
<1>2. IsFiniteSet(T)
  BY <1>1, FS_Surjection
<1>3. QED BY <1>2 DEF T

(* A list is finite.                                                         *)
LEMMA SeqFinite ==
  ASSUME NEW s, IsSeq(s)
  PROVE  IsFiniteSet(DOMAIN s)
BY Numbered1, FS_Interval

(* What can be searched is finite.                                           *)
LEMMA CorpusFinite ==
  ASSUME Base
  PROVE  IsFiniteSet(Corpus)
<1> DEFINE f == [i \in DOMAIN cat |-> cat[i].id]
           g == [i \in DOMAIN conf.workflows |-> conf.workflows[i].id]
<1>1. IsSeq(cat) /\ IsSeq(conf.workflows)
  BY TheDeployment DEF Base, Wellformed, Deployable, conf
<1>2. IsFiniteSet(DOMAIN f) /\ IsFiniteSet(DOMAIN g)
  BY <1>1, SeqFinite
<1>3. IsFiniteSet({f[x] : x \in DOMAIN f}) /\ IsFiniteSet({g[x] : x \in DOMAIN g})
  <2> HIDE DEF f, g
  <2>1. QED BY <1>2, Picture
<1>4. Corpus = {f[x] : x \in DOMAIN f} \union {g[x] : x \in DOMAIN g}
  BY DEF Corpus
<1> HIDE DEF f, g
<1>5. QED BY <1>3, <1>4, FS_Union

(* Of a set of hits the first K are served: all, when they are fewer.        *)
LEMMA AllServed ==
  ASSUME NEW V \in SUBSET Nat, IsFiniteSet(V), NEW K \in Nat,
         NEW S, S = {i \in V : Cardinality({j \in V : j < i}) < K}, Cardinality(S) < K
  PROVE  S = V
<1> SUFFICES ASSUME V \ S # {} PROVE FALSE
  OBVIOUS
<1>1. V \ S \in SUBSET Nat
  OBVIOUS
<1>2. PICK m \in V \ S : \A n \in V \ S : m <= n
  BY <1>1, Least
<1> DEFINE before == {j \in V : j < m}
<1>3. before \subseteq S
  <2> SUFFICES ASSUME NEW j \in V, j < m, j \notin S PROVE FALSE
    OBVIOUS
  <2>1. m <= j /\ m \in Nat /\ j \in Nat
    BY <1>2
  <2>2. QED BY <2>1
<1>4. IsFiniteSet(S) /\ Cardinality(S) \in Nat
  <2>1. S \in SUBSET V
    OBVIOUS
  <2>2. IsFiniteSet(S)
    BY <2>1, FS_Subset
  <2>3. QED BY <2>2, FS_CardinalityType
<1>5. IsFiniteSet(before) /\ Cardinality(before) <= Cardinality(S) /\ Cardinality(before) \in Nat
  <2> HIDE DEF before
  <2>1. QED BY <1>3, <1>4, FS_Subset, FS_CardinalityType
<1>6. Cardinality(before) < K
  <2> HIDE DEF before
  <2>1. QED BY <1>4, <1>5
<1>7. m \in S
  BY <1>2, <1>6
<1>8. QED BY <1>2, <1>7

Unstarved(w, c, ranking, k, served) ==
  LET seen == {i \in DOMAIN ranking : Allowed(w.conf, w.grants[c], ranking[i])}
      hidden == {i \in DOMAIN ranking \ seen : i <= 3 * k}
  IN Cardinality(served) < k /\ Cardinality(served) < Cardinality(seen) => Cardinality(hidden) > 2 * k

(* What a search serves is all it may, or what it lacks is hidden.           *)
LEMMA ServedWell ==
  ASSUME Base, NEW c, NEW ranking \in Rankings(Corpus), NEW k \in world.searches
  PROVE  Unstarved(world, c, ranking, Asked(k), Served(c, ranking, k))
<1>1. IsFiniteSet(Corpus) /\ Cardinality(Corpus) \in Nat
  BY CorpusFinite, FS_CardinalityType
<1>2. PICK N \in Nat : DOMAIN ranking = 1..N
  BY <1>1 DEF Rankings
<1> DEFINE K == Asked(k)
<1>3. K \in Nat
  BY SurfaceAssumption, TheDeployment DEF Asked, Base, Deployable
<1> DEFINE seen == {i \in 1..N : Permits(c, ranking[i])}
           hidden == {i \in (1..N) \ seen : i <= 3 * K}
           V == {i \in seen : i <= 3 * K}
           S == Served(c, ranking, k)
<1>4. S = {i \in V : Cardinality({j \in V : j < i}) < K}
  <2>1. V = {i \in 1..N : i <= OverFetch(K) /\ Permits(c, ranking[i])}
    BY <1>3 DEF OverFetch
  <2> HIDE DEF V
  <2>2. QED BY <1>2, <2>1 DEF Served
<1> SUFFICES ASSUME Cardinality(S) < K, Cardinality(S) < Cardinality(seen)
             PROVE  Cardinality(hidden) > 2 * K
  BY <1>2 DEF Unstarved, Permits, conf
<1> HIDE DEF K
<1>5. IsFiniteSet(1..(3 * K)) /\ Cardinality(1..(3 * K)) = 3 * K
  BY <1>3, FS_Interval
<1>6. V \in SUBSET (1..(3 * K)) /\ V \in SUBSET Nat
  BY <1>2, <1>3
<1>7. IsFiniteSet(V) /\ Cardinality(V) \in Nat
  <2> HIDE DEF V
  <2>1. QED BY <1>5, <1>6, FS_Subset, FS_CardinalityType
<1>8. S = V
  <2> HIDE DEF V, S
  <2>1. QED BY <1>3, <1>4, <1>6, <1>7, AllServed
<1>9. PICK i \in seen : i \notin V
  <2>1. V \subseteq seen /\ V # seen
    <3>1. V \subseteq seen
      OBVIOUS
    <3> HIDE DEF V, seen
    <3>2. QED BY <1>3, <1>7, <1>8, <3>1
  <2> HIDE DEF V, seen
  <2>2. QED BY <2>1
<1>10. 3 * K < N
  BY <1>2, <1>3, <1>9
<1>11. hidden = (1..(3 * K)) \ V
  BY <1>2, <1>3, <1>10
<1>12. (1..(3 * K)) \cap V = V
  BY <1>6
<1>13. Cardinality(hidden) = 3 * K - Cardinality(V)
  <2> DEFINE U == 1..(3 * K)
  <2>1. IsFiniteSet(U) /\ Cardinality(U) = 3 * K /\ hidden = U \ V /\ U \cap V = V
    BY <1>5, <1>11, <1>12
  <2> HIDE DEF hidden, V, U
  <2>2. Cardinality(U \ V) = Cardinality(U) - Cardinality(U \cap V)
    BY <2>1, FS_Difference
  <2>3. QED BY <2>1, <2>2
<1>14. Cardinality(V) < K
  BY <1>8
<1> HIDE DEF hidden, V, seen, S
<1>15. QED BY <1>3, <1>7, <1>13, <1>14

(* Nothing but a search finds.                                               *)
LEMMA SendKind ==
  ASSUME NEW c, NEW tool, NEW input, Send(c, tool, input)
  PROVE  reply' = reply \/ reply'.kind # "found"
<1>1. CASE \E more : reply' = Tell(c, "refused", {tool.id}, more)
  BY <1>1, TellSays
<1>2. QED BY <1>1 DEF Send, Gives

(* A mistyped name finds nothing.                                            *)
LEMMA UnknownKind ==
  ASSUME NEW c, NEW ids, Unknown(c, ids)
  PROVE  reply'.kind # "found"
BY DEF Unknown, Gives, Say

(* Nor does a step of a composite, or a read.                                *)
LEMMA AdvancedKind ==
  ASSUME NEW c, NEW wf, Advanced(c, wf)
  PROVE  reply' = reply \/ reply'.kind \in {"workflow", "failed"}
<1>1. CASE reply' = Tell(c, "workflow", {wf.id}, [workflow |-> wf])
  BY <1>1, TellKind
<1>2. ASSUME NEW ids, reply' = Tell(c, "failed", ids, [workflow |-> wf]) PROVE reply'.kind = "failed"
  BY <1>2, TellKind
<1>3. QED BY <1>1, <1>2 DEF Advanced, Goes

(* What a caller asks finds nothing, unless it is a search.                  *)
LEMMA UsesKind ==
  ASSUME NEW c, Uses(c)
  PROVE  Search(c) \/ reply' = reply \/ reply'.kind # "found"
<1>1. CASE ListTools(c)
  BY <1>1, TellSays DEF ListTools, Gives
<1>2. ASSUME NEW id, Details(c, id) PROVE reply'.kind # "found"
  <2>1. CASE reply' = Say(c, "steps", {id})
    BY <2>1 DEF Say
  <2>2. CASE Unknown(c, Candidates(c))
    BY <2>2, UnknownKind
  <2>3. CASE reply' = Tell(c, "details", {id}, DetailsOf(Def(cat, id)))
    BY <2>3, TellSays
  <2>4. QED BY <1>2, <2>1, <2>2, <2>3 DEF Details, Gives
<1>3. ASSUME NEW id, CallTool(c, id) PROVE reply' = reply \/ reply'.kind # "found"
  <2>1. ASSUME NEW wf, NEW n, RunStep(c, wf, n) PROVE reply' = reply \/ reply'.kind # "found"
    BY <2>1, RunStepAdvances, AdvancedKind
  <2>2. QED BY <1>3, <2>1, SendKind, UnknownKind DEF CallTool
<1>4. CASE SourceMap(c)
  BY <1>4 DEF SourceMap, Gives, Say
<1>5. ASSUME NEW name, CallByName(c, name) PROVE reply' = reply \/ reply'.kind # "found"
  BY <1>5, SendKind, UnknownKind DEF CallByName
<1>6. QED BY <1>1, <1>2, <1>3, <1>4, <1>5 DEF Uses

(* What it reads finds nothing.                                              *)
LEMMA PullsKind ==
  ASSUME NEW c, Pulls(c)
  PROVE  reply' = reply \/ reply'.kind # "found"
<1>1. ASSUME NEW doing, NEW uri, Begin(c, doing, uri) PROVE reply' = reply
  BY <1>1 DEF Begin
<1>2. CASE Fetch(c)
  BY <1>2 DEF Fetch
<1>3. ASSUME NEW uri, NEW routes PROVE Read(c, uri, routes).kind # "found"
  <2>1. \/ \E more : Read(c, uri, routes) = Tell(c, "read", {}, more)
        \/ \E more : Read(c, uri, routes) = Tell(c, "unreadable", {}, more)
    BY DEF Read
  <2>2. ASSUME NEW more PROVE Tell(c, "read", {}, more).kind = "read" /\ Tell(c, "unreadable", {}, more).kind = "unreadable"
    BY TellSays
  <2>3. QED BY <2>1, <2>2
<1>4. CASE Listed(c)
  <2> DEFINE mine == task[c]
  <2>1. \/ reply' = Tell(c, "resources", {}, [uris |-> DOMAIN mine.found])
        \/ reply' = Tell(c, "prompts", {}, [names |-> DOMAIN mine.found])
        \/ reply' = Read(c, mine.uri, origin')
    BY <1>4 DEF Listed, Gives
  <2>2. QED BY <1>3, <2>1, TellSays
<1>5. ASSUME NEW uri, ReadResource(c, uri) PROVE reply' = reply \/ reply'.kind # "found"
  BY <1>1, <1>3, <1>5 DEF ReadResource, Gives
<1>6. ASSUME NEW name, GetPrompt(c, name) PROVE reply'.kind # "found"
  <2>1. \/ \E more : reply' = Tell(c, "unprompted", {}, more)
        \/ \E more : reply' = Tell(c, "prompt", {}, more)
    BY <1>6 DEF GetPrompt, Gives
  <2>2. ASSUME NEW more PROVE Tell(c, "unprompted", {}, more).kind = "unprompted" /\ Tell(c, "prompt", {}, more).kind = "prompt"
    BY TellSays
  <2>3. QED BY <2>1, <2>2
<1>7. QED BY <1>1, <1>2, <1>4, <1>5, <1>6 DEF Pulls

(* A new page of hits is what a search came back with.                       *)
LEMMA OnlySearchFinds ==
  ASSUME Sealed, Next, reply'.kind = "found", reply' # reply
  PROVE  \E c \in Callers : Search(c)
<1>1. CASE Connect \/ Start \/ \E i \in DOMAIN ups : Reindex(i)
  BY <1>1 DEF Connect, Start, Reindex
<1>2. CASE Answer
  <2>1. PICK more : call # Nothing /\ reply' = Also([call EXCEPT !.kind = "result"], more)
    BY <1>2 DEF Answer, Gives
  <2> DEFINE f == [call EXCEPT !.kind = "result"]
  <2>2. "kind" \in DOMAIN f /\ f.kind = "result"
    BY <2>1 DEF Sealed, Carries
  <2>3. reply' = Also(f, more)
    BY <2>1
  <2> HIDE DEF f
  <2>4. reply'.kind = "result"
    BY <2>2, <2>3, AlsoIs
  <2>5. QED BY <2>4
<1>3. CASE ResolveSchema
  <2>1. PICK more : reply' = Tell("nobody", "resolved", {}, more)
    BY <1>3 DEF ResolveSchema, Gives
  <2>2. QED BY <2>1, TellSays
<1>4. CASE Taken
  BY <1>4 DEF Taken, Nobody
<1>5. CASE StepAnswer
  BY <1>5, StepAnswerAdvances, AdvancedKind
<1>6. QED BY <1>1, <1>2, <1>3, <1>4, <1>5, UsesKind, PullsKind DEF Next

(* A search comes back short only where more than twice the page asked for   *)
(* is hidden among its best hits (Surface::search_text, which reads three    *)
(* times as many as it serves).                                              *)
THEOREM NotStarved == Spec => []SearchNotStarved
<1>1. Init => SearchNotStarved
  BY DEF Init, SearchNotStarved, Nobody
<1>2. Base /\ Hushed /\ SearchNotStarved /\ [Next]_vars => SearchNotStarved'
  <2> SUFFICES ASSUME Base, Hushed, SearchNotStarved, [Next]_vars, reply'.kind = "found"
               PROVE  Unstarved(world', reply'.to, reply'.ranking, Asked(reply'.k), reply'.served)
    BY DEF SearchNotStarved, Unstarved, Permits, conf
  <2>1. CASE reply' = reply
    <3>1. Unstarved(world, reply.to, reply.ranking, Asked(reply.k), reply.served)
      BY <2>1 DEF SearchNotStarved, Unstarved, Permits, conf
    <3>2. QED BY <2>1, <3>1, WorldStays
  <2>2. CASE reply' # reply
    <3>1. Next
      BY <2>2 DEF vars
    <3>2. PICK c \in Callers : Search(c)
      BY <2>2, <3>1, OnlySearchFinds DEF Hushed
    <3>3. PICK ranking \in Rankings(Corpus), k \in world.searches :
            LET served == Served(c, ranking, k)
            IN reply' = Tell(c, "found", {ranking[i] : i \in served},
                             [ranking |-> ranking, k |-> k, served |-> served])
      BY <3>2 DEF Search, Gives
    <3> DEFINE served == Served(c, ranking, k)
               more == [ranking |-> ranking, k |-> k, served |-> served]
    <3>4. DOMAIN more = {"ranking", "k", "served"} /\ more.ranking = ranking /\ more.k = k /\ more.served = served
      OBVIOUS
    <3>5. reply' = Tell(c, "found", {ranking[i] : i \in served}, more)
      BY <3>3
    <3> HIDE DEF more, served
    <3>6. reply'.to = c /\ reply'.ranking = ranking /\ reply'.k = k /\ reply'.served = served
      BY <3>4, <3>5, TellSays
    <3>7. Unstarved(world, c, ranking, Asked(k), served)
      BY ServedWell DEF served
    <3>8. QED BY <3>6, <3>7, WorldStays
  <2>3. QED BY <2>1, <2>2
<1>3. QED BY <1>1, <1>2, AlwaysBase, AlwaysHushed, PTL DEF Spec

-----------------------------------------------------------------------------
(* Names.                                                                    *)
LEMMA Made ==
  ASSUME NEW n \in Nat, NEW X, NEW f \in [1..n -> X]
  PROVE  IsSeq(f) /\ Len(f) = n
<1>1. f \in Seq(X)
  BY SeqDef
<1>2. Len(f) \in Nat /\ DOMAIN f = 1..Len(f)
  BY <1>1, LenProperties
<1>3. Len(f) = n
  BY <1>2
<1>4. QED BY <1>1, <1>3, Sequences

(* A name is cut to the room it has.                                         *)
LEMMA SanitizedFits ==
  ASSUME NEW id, IsSeq(id), NEW reserve \in 0..2
  PROVE  IsSeq(SanitizeName(id, reserve)) /\ Len(SanitizeName(id, reserve)) <= NameCap - reserve
<1> DEFINE room == IF Len(id) < NameCap - reserve THEN Len(id) ELSE NameCap - reserve
           f == [i \in 1..room |-> IF id[i] = "." THEN "_" ELSE id[i]]
<1>1. Len(id) \in Nat /\ NameCap \in Nat /\ NameCap >= 2
  BY Numbered1, SurfaceAssumption
<1>2. room \in Nat /\ room <= NameCap - reserve
  BY <1>1
<1>3. f \in [1..room -> Range(f)]
  BY DEF Range
<1>4. SanitizeName(id, reserve) = f
  BY DEF SanitizeName
<1> HIDE DEF f, room
<1>5. IsSeq(f) /\ Len(f) = room
  BY <1>2, <1>3, Made
<1>6. QED BY <1>2, <1>4, <1>5

(* A numbered name fits too, and another number is another name.             *)
LEMMA NumberedWell ==
  ASSUME NEW base, IsSeq(base), Len(base) <= NameCap - 2
  PROVE  /\ \A m : IsSeq(Numbered(base, m)) /\ Len(Numbered(base, m)) <= NameCap
         /\ \A m, n \in DOMAIN Numerals : Numbered(base, m) = Numbered(base, n) => m = n
<1>1. Len(base) \in Nat /\ NameCap \in Nat
  BY Numbered1, SurfaceAssumption
<1>2. ASSUME NEW m
      PROVE  /\ IsSeq(Numbered(base, m)) /\ Len(Numbered(base, m)) = Len(base) + 2
             /\ Numbered(base, m)[Len(base) + 2] = Numerals[m]
  <2> DEFINE end == <<"_", Numerals[m]>>
  <2>1. end \in Seq({"_", Numerals[m]}) /\ Len(end) = 2 /\ end[2] = Numerals[m]
    OBVIOUS
  <2>2. Numbered(base, m) = base \o end
    BY DEF Numbered
  <2> HIDE DEF end
  <2>3. IsSeq(end)
    BY <2>1, Sequences
  <2>4. IsSeq(base \o end) /\ Len(base \o end) = Len(base) + Len(end)
        /\ \A i \in 1..Len(end) : (base \o end)[Len(base) + i] = end[i]
    BY <2>3, Join
  <2>5. (base \o end)[Len(base) + 2] = Numerals[m]
    <3>0. Len(end) = 2
      BY <2>1, Zenon
    <3>1. 2 \in 1..Len(end)
      BY <3>0
    <3>2. (base \o end)[Len(base) + 2] = end[2]
      BY <2>4, <3>1
    <3>3. QED BY <2>1, <3>2
  <2>6. QED BY <2>1, <2>2, <2>4, <2>5
<1>3. \A m : IsSeq(Numbered(base, m)) /\ Len(Numbered(base, m)) <= NameCap
  BY <1>1, <1>2
<1>4. \A m, n \in DOMAIN Numerals : Numbered(base, m) = Numbered(base, n) => m = n
  <2> SUFFICES ASSUME NEW m \in DOMAIN Numerals, NEW n \in DOMAIN Numerals, Numbered(base, m) = Numbered(base, n)
               PROVE  m = n
    OBVIOUS
  <2>1. Numerals[m] = Numerals[n]
    BY <1>2
  <2>2. QED BY <2>1, SurfaceAssumption DEF IsInjective
<1>5. QED BY <1>3, <1>4

(* A tool's name is not taken, as long as there are numbers.                 *)
LEMMA NameFresh ==
  ASSUME NEW tools, NEW t, Fit(t),
         NEW taken, IsFiniteSet(taken), Cardinality(taken) < Len(Numerals)
  PROVE  NameFor(tools, t, taken) \notin taken /\ Len(NameFor(tools, t, taken)) <= NameCap
<1> DEFINE base == SanitizeName(t.id, 2)
           free == {n \in DOMAIN Numerals : Numbered(base, n) \notin taken}
<1>1. Len(SanitizeName(t.name, 0)) <= NameCap /\ Len(SanitizeName(t.id, 0)) <= NameCap
  BY SanitizedFits, SurfaceAssumption DEF Fit
<1>2. IsSeq(base) /\ Len(base) <= NameCap - 2
  BY SanitizedFits DEF Fit
<1>3. Len(Numerals) \in Nat /\ DOMAIN Numerals = 1..Len(Numerals)
  BY Numbered1, SurfaceAssumption
<1>4. free # {}
  <2> SUFFICES ASSUME \A n \in DOMAIN Numerals : Numbered(base, n) \in taken PROVE FALSE
    OBVIOUS
  <2> DEFINE f == [n \in 1..Len(Numerals) |-> Numbered(base, n)]
             D == 1..Len(Numerals)
  <2> HIDE DEF base
  <2>1. f \in [D -> taken]
    BY <1>3
  <2>2. \A m, n \in D : f[m] = f[n] => m = n
    BY <1>2, <1>3, NumberedWell
  <2> HIDE DEF f
  <2>3. f \in Injection(D, taken)
    <3>1. \A m, n \in DOMAIN f : f[m] = f[n] => m = n
      BY <2>1, <2>2
    <3>2. QED BY <2>1, <3>1 DEF Injection, IsInjective
  <2>4. IsFiniteSet(D) /\ Cardinality(D) = Len(Numerals)
    BY <1>3, FS_Interval, SMTT(20)
  <2> HIDE DEF D
  <2>5. Cardinality(D) <= Cardinality(taken)
    BY <2>3, FS_Injection
  <2>6. Cardinality(taken) \in Nat
    BY FS_CardinalityType
  <2>7. QED BY <1>3, <2>4, <2>5, <2>6
<1>5. free \in SUBSET Nat
  BY <1>3
<1>6. Min(free) \in free
  <2> HIDE DEF free
  <2>1. QED BY <1>4, <1>5, Least
<1>7. Numbered(base, Min(free)) \notin taken /\ Len(Numbered(base, Min(free))) <= NameCap
  <2>1. Numbered(base, Min(free)) \notin taken
    BY <1>6
  <2> HIDE DEF base, free
  <2>2. QED BY <1>2, <2>1, NumberedWell
<1>8. \/ /\ NameFor(tools, t, taken) \notin taken
         /\ \/ NameFor(tools, t, taken) = SanitizeName(t.name, 0)
            \/ NameFor(tools, t, taken) = SanitizeName(t.id, 0)
      \/ NameFor(tools, t, taken) = Numbered(base, Min(free))
  BY DEF NameFor
<1> HIDE DEF base, free
<1>9. QED BY <1>1, <1>7, <1>8

(* One name for each tool, none too long.                                    *)
LEMMA NamesWell ==
  ASSUME NEW tools, Wellformed(tools), Len(tools) <= Len(Numerals)
  PROVE  /\ \A name \in DOMAIN Named(tools) : Len(name) <= NameCap
         /\ {Named(tools)[name] : name \in DOMAIN Named(tools)} = {tools[i].id : i \in DOMAIN tools}
         /\ Cardinality(DOMAIN Named(tools)) = Len(tools)
<1>1. Len(tools) \in Nat /\ DOMAIN tools = 1..Len(tools) /\ Len(Numerals) \in Nat
  BY Numbered1, SurfaceAssumption DEF Wellformed
<1>2. PICK e : Names(tools, e) /\ Named(tools) = e[Len(tools)]
  BY Naming
<1> DEFINE Good(n) == /\ IsFiniteSet(DOMAIN e[n]) /\ Cardinality(DOMAIN e[n]) = n
                      /\ \A name \in DOMAIN e[n] : Len(name) <= NameCap
                      /\ {e[n][name] : name \in DOMAIN e[n]} = {tools[i].id : i \in 1..n}
           S == {n \in 0..Len(tools) : Good(n)}
<1>3. 0 \in S
  <2>1. e[0] = <<>> /\ DOMAIN <<>> = {} /\ 1..0 = {}
    BY <1>2 DEF Names
  <2>2. QED BY <1>1, <2>1, FS_EmptySet
<1>4. \A n \in 1..Len(tools) : n - 1 \in S => n \in S
  <2> HIDE DEF Good
  <2> SUFFICES ASSUME NEW n \in 1..Len(tools), n - 1 \in S PROVE Good(n)
    BY <1>1
  <2> USE DEF Good
  <2> DEFINE was == e[n - 1]
             nm == NameFor(tools, tools[n], DOMAIN was)
             f == [name \in {nm} |-> tools[n].id]
  <2>1. Good(n - 1)
    OBVIOUS
  <2>2. Fit(tools[n])
    BY <1>1 DEF Wellformed
  <2>3. IsFiniteSet(DOMAIN was) /\ Cardinality(DOMAIN was) = n - 1 /\ n - 1 < Len(Numerals)
    BY <1>1, <2>1
  <2>4. nm \notin DOMAIN was /\ Len(nm) <= NameCap
    BY <2>2, <2>3, NameFresh
  <2>5. e[n] = Also(f, was)
    BY <1>2 DEF Names, Gets
  <2>6. DOMAIN f = {nm} /\ f[nm] = tools[n].id
    OBVIOUS
  <2>7. \A name \in DOMAIN was : Len(name) <= NameCap
    BY <2>1
  <2>8. {was[name] : name \in DOMAIN was} = {tools[i].id : i \in 1..(n - 1)}
    BY <2>1
  <2> HIDE DEF was, nm, f, S, Good
  <2>9. DOMAIN e[n] = DOMAIN was \union {nm}
    BY <2>5, <2>6 DEF Also
  <2>10. e[n][nm] = tools[n].id /\ \A name \in DOMAIN was : e[n][name] = was[name]
    BY <2>4, <2>5, <2>6 DEF Also
  <2>11. IsFiniteSet(DOMAIN e[n]) /\ Cardinality(DOMAIN e[n]) = n
    BY <2>3, <2>4, <2>9, FS_AddElement
  <2>12. \A name \in DOMAIN e[n] : Len(name) <= NameCap
    BY <2>4, <2>7, <2>9
  <2>13. {e[n][name] : name \in DOMAIN e[n]} = {tools[i].id : i \in 1..n}
    <3>1. {e[n][name] : name \in DOMAIN e[n]} = {was[name] : name \in DOMAIN was} \union {tools[n].id}
      BY <2>9, <2>10
    <3>2. {tools[i].id : i \in 1..n} = {tools[i].id : i \in 1..(n - 1)} \union {tools[n].id}
      OBVIOUS
    <3>3. QED BY <2>8, <3>1, <3>2
  <2>14. QED BY <2>11, <2>12, <2>13 DEF Good
<1> HIDE DEF S
<1>5. 0..Len(tools) \subseteq S
  BY <1>1, <1>3, <1>4, UpTo
<1>6. Len(tools) \in S
  BY <1>1, <1>5
<1>7. QED BY <1>1, <1>2, <1>6 DEF S

(* So it is for every catalog.                                               *)
LEMMA CatalogNamed ==
  ASSUME NEW tools, Wellformed(tools)
  PROVE  ToolsNamed(tools)
<1> SUFFICES ASSUME conf.mode = "passthrough", Len(tools) <= Len(Numerals)
             PROVE  /\ \A name \in DOMAIN Named(tools) : Len(name) <= NameCap
                    /\ {Named(tools)[name] : name \in DOMAIN Named(tools)} = {tools[i].id : i \in DOMAIN tools}
                    /\ Cardinality(DOMAIN Named(tools)) = Len(tools)
  BY DEF ToolsNamed, ExposedNames
<1>1. QED BY NamesWell

-----------------------------------------------------------------------------
(* Routes.  Every route leads to an upstream that lists its URI, and every   *)
(* URI a caller was told of has one.                                         *)
Leads(routes) ==
  \A uri \in DOMAIN routes : routes[uri] \in DOMAIN ups /\ uri \in world.resources[ups[routes[uri]]]

Errand(mine) ==
  /\ DOMAIN mine = {"doing", "at", "found", "uri"}
  /\ mine.at \in Nat \ {0}
  /\ mine.doing # "prompts" => Leads(mine.found)

Routed ==
  /\ Leads(origin)
  /\ DOMAIN heard = Callers /\ DOMAIN task = Callers
  /\ \A c \in Callers : Leads(heard[c]) /\ DOMAIN heard[c] \subseteq DOMAIN origin
  /\ \A c \in Callers : Errand(task[c])

(* A request begins with nothing found.                                      *)
LEMMA RestingErrand == \A doing, uri : Errand([Resting EXCEPT !.doing = doing, !.uri = uri])
<1> SUFFICES ASSUME NEW doing, NEW uri PROVE Errand([Resting EXCEPT !.doing = doing, !.uri = uri])
  OBVIOUS
<1> DEFINE mine == [Resting EXCEPT !.doing = doing, !.uri = uri]
<1>1. DOMAIN mine = {"doing", "at", "found", "uri"} /\ mine.at = 1 /\ mine.found = <<>>
  BY DEF Resting
<1>2. Leads(<<>>)
  BY DEF Leads
<1> HIDE DEF mine
<1>3. Errand(mine)
  BY <1>1, <1>2 DEF Errand
<1>4. QED BY <1>3 DEF mine

(* So does a caller with no request.                                         *)
LEMMA RestingIs == Errand(Resting)
<1>1. DOMAIN Resting = {"doing", "at", "found", "uri"} /\ Resting.at = 1 /\ Resting.found = <<>>
  BY DEF Resting
<1>2. Leads(<<>>)
  BY DEF Leads
<1>3. QED BY <1>1, <1>2 DEF Errand

(* There are no routes at first.                                             *)
LEMMA InitRouted == Init => Routed
<1> SUFFICES ASSUME Init PROVE Routed
  OBVIOUS
<1>1. Leads(<<>>) /\ DOMAIN <<>> = {}
  BY DEF Leads
<1>2. QED BY <1>1, RestingIs DEF Init, Routed

(* The routes that lead somewhere still do when upstreams are added.         *)
LEMMA UpsGrow ==
  ASSUME Base, [Next]_vars
  PROVE  DOMAIN ups \subseteq DOMAIN ups' /\ \A i \in DOMAIN ups : ups'[i] = ups[i]
<1>1. CASE Connect
  <2>1. CASE ups' = ups
    BY <2>1
  <2>2. CASE ups' = Append(ups, next)
    <3>1. next \in DOMAIN conf.upstreams /\ ups \in Seq(DOMAIN conf.upstreams) /\ DOMAIN ups = 1..Len(ups) /\ Len(ups) \in Nat
      BY <1>1, TheDeployment DEF Connect, Base, Built
    <3>2. /\ ups' \in Seq(DOMAIN conf.upstreams) /\ Len(ups') = Len(ups) + 1
          /\ \A i \in 1..Len(ups) : ups'[i] = ups[i]
      BY <2>2, <3>1, AppendProperties
    <3>3. DOMAIN ups' = 1..(Len(ups) + 1)
      BY <3>2, LenProperties
    <3>4. QED BY <3>1, <3>2, <3>3
  <2>3. QED BY <1>1, <2>1, <2>2 DEF Connect
<1>2. CASE ups' = ups
  BY <1>2
<1>3. QED BY <1>1, <1>2, NextKeeps DEF Start, Reindex, Fixed

(* So routes that lead somewhere still do.                                   *)
LEMMA LeadsStill ==
  ASSUME Base, [Next]_vars, NEW routes, Leads(routes)
  PROVE  /\ \A uri \in DOMAIN routes : routes[uri] \in DOMAIN ups' /\ uri \in world'.resources[ups'[routes[uri]]]
<1>1. \A uri \in DOMAIN routes : routes[uri] \in DOMAIN ups /\ uri \in world.resources[ups[routes[uri]]]
  BY DEF Leads
<1>2. QED BY <1>1, UpsGrow, WorldStays

(* A step changes the routes only by a pull.                                 *)
LEMMA UsesRoutes ==
  ASSUME NEW c, Uses(c)
  PROVE  UNCHANGED <<origin, heard, task>>
<1> USE DEF Quiet
<1>1. ASSUME NEW tool, NEW input, Send(c, tool, input) PROVE UNCHANGED <<origin, heard, task>>
  BY <1>1 DEF Send
<1>2. ASSUME NEW id, CallTool(c, id) PROVE UNCHANGED <<origin, heard, task>>
  BY <1>1, <1>2, RunStepKeeps DEF CallTool
<1>3. ASSUME NEW name, CallByName(c, name) PROVE UNCHANGED <<origin, heard, task>>
  BY <1>1, <1>3 DEF CallByName
<1>4. QED BY <1>2, <1>3 DEF Uses, ListTools, Search, Details, SourceMap

RoutesNext ==
  /\ Leads(origin')
  /\ DOMAIN heard' = Callers /\ DOMAIN task' = Callers
  /\ \A c \in Callers : Leads(heard'[c]) /\ DOMAIN heard'[c] \subseteq DOMAIN origin'
  /\ \A c \in Callers : Errand(task'[c])

(* A request that begins.                                                    *)
LEMMA BeginRoutes ==
  ASSUME Routed, NEW c \in Callers, NEW doing, NEW uri, Begin(c, doing, uri)
  PROVE  RoutesNext
<1>1. task' = [task EXCEPT ![c] = [Resting EXCEPT !.doing = doing, !.uri = uri]] /\ origin' = origin /\ heard' = heard
  BY DEF Begin
<1>2. \A d \in Callers : Errand(task'[d])
  BY <1>1, RestingErrand DEF Routed
<1>3. QED BY <1>1, <1>2 DEF Routed, RoutesNext

(* A page of one upstream: its URIs lead to it.                              *)
LEMMA FetchRoutes ==
  ASSUME Base, Routed, NEW c \in Callers, Fetch(c)
  PROVE  RoutesNext
<1> DEFINE i == task[c].at
           doing == task[c].doing
<1>1. PICK page \in Pages(c, doing, i) :
        /\ task' = [task EXCEPT ![c].at = i + 1, ![c].found = Also([x \in page |-> i], @)]
        /\ origin' = origin /\ heard' = heard /\ i <= Len(ups)
  BY DEF Fetch
<1>2. Errand(task[c]) /\ DOMAIN ups = 1..Len(ups) /\ Len(ups) \in Nat
  BY TheDeployment DEF Routed
<1>3. i \in DOMAIN ups
  BY <1>1, <1>2, TheDeployment DEF Base, Errand
<1> DEFINE f == [x \in page |-> i]
           found == Also(f, task[c].found)
           mine == task'[c]
<1>4. DOMAIN mine = {"doing", "at", "found", "uri"} /\ mine.at = i + 1 /\ mine.found = found /\ mine.doing = doing
  BY <1>1, <1>2 DEF Routed, Errand
<1>5. doing # "prompts" => Leads(found)
  <2> SUFFICES ASSUME doing # "prompts", NEW uri \in DOMAIN found
               PROVE  found[uri] \in DOMAIN ups /\ uri \in world.resources[ups[found[uri]]]
    BY DEF Leads
  <2>1. page \subseteq world.resources[ups[i]]
    BY <1>1 DEF Pages, Offers
  <2>2. Leads(task[c].found)
    BY <1>2 DEF Errand
  <2>3. DOMAIN f = page /\ \A x \in page : f[x] = i
    OBVIOUS
  <2> HIDE DEF f, i, doing
  <2>4. \/ uri \in DOMAIN f /\ found[uri] = f[uri]
        \/ uri \in DOMAIN task[c].found /\ found[uri] = task[c].found[uri]
    BY AlsoAt
  <2>5. QED BY <1>3, <2>1, <2>2, <2>3, <2>4 DEF Leads
<1> HIDE DEF f, found, mine
<1>6. Errand(mine)
  BY <1>2, <1>4, <1>5 DEF Errand
<1>7. \A d \in Callers : d # c => task'[d] = task[d]
  BY <1>1 DEF Routed
<1>8. \A d \in Callers : Errand(task'[d])
  BY <1>6, <1>7 DEF Routed, mine
<1>9. DOMAIN task' = Callers
  BY <1>1 DEF Routed
<1>10. QED BY <1>1, <1>8, <1>9 DEF Routed, RoutesNext

(* The routes of a listing joined to the others.                             *)
LEMMA LearnedLeads ==
  ASSUME Leads(origin), NEW found, Leads(found)
  PROVE  Leads(Learned(found)) /\ DOMAIN found \subseteq DOMAIN Learned(found) /\ DOMAIN origin \subseteq DOMAIN Learned(found)
<1>1. Learned(found) = Also(found, origin)
  BY DEF Learned
<1>2. DOMAIN Learned(found) = DOMAIN found \union DOMAIN origin
  BY <1>1 DEF Also
<1>3. Leads(Learned(found))
  BY <1>1, AlsoAt DEF Leads
<1>4. QED BY <1>2, <1>3

(* A listing that ends.                                                      *)
LEMMA ListedRoutes ==
  ASSUME Base, Routed, NEW c \in Callers, Listed(c)
  PROVE  RoutesNext
<1> DEFINE mine == task[c]
<1>1. /\ task' = [task EXCEPT ![c] = Resting]
      /\ origin' = IF mine.doing = "prompts" THEN origin ELSE Learned(mine.found)
      /\ heard' = IF mine.doing = "list" THEN [heard EXCEPT ![c] = mine.found] ELSE heard
  BY DEF Listed
<1>2. DOMAIN task' = Callers /\ \A d \in Callers : Errand(task'[d])
  BY <1>1, RestingIs DEF Routed
<1>3. CASE mine.doing = "prompts"
  <2>1. origin' = origin /\ heard' = heard
    BY <1>1, <1>3
  <2>2. QED BY <1>2, <2>1 DEF Routed, RoutesNext
<1>4. CASE mine.doing # "prompts"
  <2>1. Leads(mine.found) /\ Leads(origin)
    BY <1>4 DEF Routed, Errand
  <2>2. origin' = Learned(mine.found)
    BY <1>1, <1>4
  <2>3. Leads(origin') /\ DOMAIN mine.found \subseteq DOMAIN origin' /\ DOMAIN origin \subseteq DOMAIN origin'
    BY <2>1, <2>2, LearnedLeads
  <2>4. heard' = heard \/ heard' = [heard EXCEPT ![c] = mine.found]
    BY <1>1
  <2>5. DOMAIN heard' = Callers /\ \A d \in Callers : heard'[d] = heard[d] \/ heard'[d] = mine.found
    BY <2>4 DEF Routed
  <2> HIDE DEF mine
  <2>6. \A d \in Callers : Leads(heard'[d]) /\ DOMAIN heard'[d] \subseteq DOMAIN origin'
    BY <2>1, <2>3, <2>5 DEF Routed
  <2>7. QED BY <1>2, <2>3, <2>5, <2>6 DEF RoutesNext
<1>5. QED BY <1>3, <1>4

(* Every step keeps the routes right.                                        *)
LEMMA NextRouted ==
  ASSUME Base, Routed, [Next]_vars
  PROVE  Routed'
<1>1. RoutesNext
  <2>1. CASE UNCHANGED <<origin, heard, task>>
    BY <2>1 DEF Routed, RoutesNext
  <2>2. ASSUME NEW c \in Callers, Pulls(c) PROVE RoutesNext
    <3>1. CASE Fetch(c) \/ Listed(c)
      BY <3>1, FetchRoutes, ListedRoutes
    <3>2. CASE \E doing, uri : Begin(c, doing, uri)
      BY <3>2, BeginRoutes
    <3>3. CASE UNCHANGED <<origin, heard, task>>
      BY <2>1, <3>3
    <3>4. QED BY <2>2, <3>1, <3>2, <3>3 DEF Pulls, ReadResource, GetPrompt, Quiet
  <2>3. QED BY <2>1, <2>2, UsesRoutes, StepAnswerKeeps DEF Next, vars, Connect, Start, Reindex, Answer, ResolveSchema, Taken, Quiet
<1>2. Leads(origin)'
  BY <1>1, LeadsStill DEF RoutesNext, Leads
<1>3. \A c \in Callers : Leads(heard[c])'
  BY <1>1, LeadsStill DEF RoutesNext, Leads
<1>4. \A c \in Callers : Errand(task[c])'
  <2> SUFFICES ASSUME NEW c \in Callers PROVE Errand(task[c])'
    OBVIOUS
  <2>1. Errand(task'[c])
    BY <1>1 DEF RoutesNext
  <2>2. task'[c].doing # "prompts" => Leads(task'[c].found)
    BY <2>1 DEF Errand
  <2>3. (task[c].doing # "prompts" => Leads(task[c].found))'
    BY <2>2, LeadsStill DEF Leads
  <2>4. QED BY <2>1, <2>3 DEF Errand
<1>5. QED BY <1>1, <1>2, <1>3, <1>4 DEF Routed, RoutesNext

(* Every route leads to an upstream that lists its URI, and what a caller    *)
(* was told of has one.                                                      *)
LEMMA AlwaysRouted == Spec => []Routed
<1>1. Base /\ Routed /\ [Next]_vars => Routed'
  BY NextRouted
<1>2. QED BY InitRouted, <1>1, AlwaysBase, PTL DEF Spec

(* What a pull answers, it answers from the routes and catalog there are.    *)
ReadableNext ==
  reply'.kind = "unreadable" =>
    LET routes == heard'[reply'.to]
    IN reply'.uri \in DOMAIN routes =>
         \/ \E j \in DOMAIN ups \ {routes[reply'.uri]} : reply'.uri \in world.resources[ups[j]]
         \/ ~UpstreamVisible(reply'.to, routes[reply'.uri])

(* A URI with a route is unreadable only where the upstream is hidden, or    *)
(* another one lists it.                                                     *)
LEMMA ReadWell ==
  ASSUME Routed, NEW c, NEW uri, NEW routes, Leads(routes), NEW i
  PROVE  Read(c, uri, routes).kind = "unreadable" /\ uri \in DOMAIN routes =>
           \/ \E j \in DOMAIN ups \ {i} : uri \in world.resources[ups[j]]
           \/ ~UpstreamVisible(c, i)
<1> SUFFICES ASSUME Read(c, uri, routes).kind = "unreadable", uri \in DOMAIN routes, UpstreamVisible(c, i)
             PROVE  \E j \in DOMAIN ups \ {i} : uri \in world.resources[ups[j]]
  OBVIOUS
<1>1. ~UpstreamVisible(c, routes[uri])
  <2> SUFFICES ASSUME UpstreamVisible(c, routes[uri]) PROVE FALSE
    OBVIOUS
  <2>1. \E more : Read(c, uri, routes) = Tell(c, "read", {}, more)
    BY DEF Read
  <2>2. QED BY <2>1, TellKind
<1>2. routes[uri] # i /\ routes[uri] \in DOMAIN ups /\ uri \in world.resources[ups[routes[uri]]]
  BY <1>1 DEF Leads
<1>3. QED BY <1>2

(* A read answers the caller that asked, of the URI it asked for.            *)
LEMMA ReadOf ==
  ASSUME NEW c, NEW uri, NEW routes
  PROVE  Read(c, uri, routes).to = c /\ Read(c, uri, routes).uri = uri
<1>1. \E kind, from : \/ Read(c, uri, routes) = Tell(c, kind, {}, [uri |-> uri, from |-> from])
                      \/ Read(c, uri, routes) = Tell(c, kind, {}, [uri |-> uri])
  BY DEF Read
<1>2. ASSUME NEW kind, NEW from, Read(c, uri, routes) = Tell(c, kind, {}, [uri |-> uri, from |-> from])
      PROVE  Read(c, uri, routes).to = c /\ Read(c, uri, routes).uri = uri
  <2> DEFINE more == [uri |-> uri, from |-> from]
  <2>1. "uri" \in DOMAIN more \ {"to", "kind", "ids"} /\ more.uri = uri
    OBVIOUS
  <2> HIDE DEF more
  <2>2. Tell(c, kind, {}, more).to = c /\ Tell(c, kind, {}, more).uri = more.uri
    BY <2>1, TellSays
  <2>3. QED BY <1>2, <2>1, <2>2 DEF more
<1>3. ASSUME NEW kind, Read(c, uri, routes) = Tell(c, kind, {}, [uri |-> uri])
      PROVE  Read(c, uri, routes).to = c /\ Read(c, uri, routes).uri = uri
  <2> DEFINE more == [uri |-> uri]
  <2>1. "uri" \in DOMAIN more \ {"to", "kind", "ids"} /\ more.uri = uri
    OBVIOUS
  <2> HIDE DEF more
  <2>2. Tell(c, kind, {}, more).to = c /\ Tell(c, kind, {}, more).uri = more.uri
    BY <2>1, TellSays
  <2>3. QED BY <1>3, <2>1, <2>2 DEF more
<1>4. QED BY <1>1, <1>2, <1>3

(* A read is readable or not.                                                *)
LEMMA ReadKind ==
  ASSUME NEW c, NEW uri, NEW routes
  PROVE  Read(c, uri, routes).kind \in {"read", "unreadable"}
<1>1. \/ \E more : Read(c, uri, routes) = Tell(c, "read", {}, more)
      \/ \E more : Read(c, uri, routes) = Tell(c, "unreadable", {}, more)
  BY DEF Read
<1>2. QED BY <1>1, TellKind

(* A read that first had to list.                                            *)
LEMMA ListedReadable ==
  ASSUME Base, Routed, NEW c \in Callers, Listed(c)
  PROVE  ReadableNext
<1> DEFINE mine == task[c]
<1>1. /\ origin' = IF mine.doing = "prompts" THEN origin ELSE Learned(mine.found)
      /\ heard' = IF mine.doing = "list" THEN [heard EXCEPT ![c] = mine.found] ELSE heard
      /\ \/ \E more : reply' = Tell(c, "resources", {}, more)
         \/ \E more : reply' = Tell(c, "prompts", {}, more)
         \/ reply' = Read(c, mine.uri, origin') /\ mine.doing # "list" /\ mine.doing # "prompts"
  BY DEF Listed, Gives
<1>2. CASE \E more : reply' = Tell(c, "resources", {}, more) \/ reply' = Tell(c, "prompts", {}, more)
  BY <1>2, TellKind DEF ReadableNext
<1>3. CASE reply' = Read(c, mine.uri, origin') /\ mine.doing # "list" /\ mine.doing # "prompts"
  <2>1. heard' = heard /\ origin' = Learned(mine.found)
    BY <1>1, <1>3
  <2>2. Leads(mine.found) /\ Leads(origin) /\ DOMAIN heard[c] \subseteq DOMAIN origin
    BY <1>3 DEF Routed, Errand
  <2>3. Leads(origin') /\ DOMAIN origin \subseteq DOMAIN origin'
    BY <2>1, <2>2, LearnedLeads
  <2>4. reply'.to = c /\ reply'.uri = mine.uri
    BY <1>3, ReadOf
  <2>5. \A i : reply'.kind = "unreadable" /\ mine.uri \in DOMAIN origin' =>
           \/ \E j \in DOMAIN ups \ {i} : mine.uri \in world.resources[ups[j]]
           \/ ~UpstreamVisible(c, i)
    BY <1>3, <2>3, ReadWell
  <2> HIDE DEF mine
  <2>6. QED BY <2>5, <2>1, <2>2, <2>3, <2>4 DEF ReadableNext
<1>4. QED BY <1>1, <1>2, <1>3

(* A read of a URI with a route.                                             *)
LEMMA ReadReadable ==
  ASSUME Base, Routed, NEW c \in Callers, NEW uri, uri \in DOMAIN origin, Gives(Read(c, uri, origin)), Quiet
  PROVE  ReadableNext
<1>1. reply' = Read(c, uri, origin) /\ heard' = heard
  BY DEF Gives, Quiet
<1>2. reply'.to = c /\ reply'.uri = uri
  BY <1>1, ReadOf
<1>3. \A i : reply'.kind = "unreadable" =>
         \/ \E j \in DOMAIN ups \ {i} : uri \in world.resources[ups[j]]
         \/ ~UpstreamVisible(c, i)
  BY <1>1, ReadWell DEF Routed
<1>4. QED BY <1>1, <1>2, <1>3 DEF ReadableNext

-----------------------------------------------------------------------------
(* Prompts.                                                                  *)
LEMMA PrefixAt ==
  ASSUME NEW s, IsSeq(s), NEW t, IsSeq(t)
  PROVE  IsPrefix(s, t) <=> Len(s) <= Len(t) /\ \A i \in 1..Len(s) : s[i] = t[i]
<1>1. /\ Len(s) \in Nat /\ DOMAIN s = 1..Len(s) /\ s \in Seq(Range(s)) /\ \A i \in DOMAIN s : s[i] \in Range(s)
      /\ Len(t) \in Nat /\ DOMAIN t = 1..Len(t) /\ t \in Seq(Range(t)) /\ \A i \in DOMAIN t : t[i] \in Range(t)
  BY Numbered1
<1> SUFFICES ASSUME Len(s) <= Len(t)
             PROVE  SubSeq(s, 1, Len(s)) = SubSeq(t, 1, Len(s)) <=> \A i \in 1..Len(s) : s[i] = t[i]
  BY DEF IsPrefix
<1> DEFINE n == Len(s)
           a == SubSeq(s, 1, n)
           b == SubSeq(t, 1, n)
           X == Range(s) \union Range(t)
<1>2. (\A i \in 1..n : s[i] \in X) /\ (\A i \in 1..n : t[i] \in X)
  BY <1>1
<1>3. n \in Nat
  BY <1>1
<1> HIDE DEF X, n
<1>4. a \in Seq(X) /\ Len(a) = n /\ \A i \in 1..n : a[i] = s[i]
  <2>1. a \in Seq(X) /\ Len(a) = (IF 1 <= n THEN n - 1 + 1 ELSE 0) /\ \A i \in 1..(n - 1 + 1) : a[i] = s[1 + i - 1]
    BY <1>2, <1>3, SubSeqProperties
  <2>2. n - 1 + 1 = n /\ \A i \in 1..n : 1 + i - 1 = i
    BY <1>3
  <2> HIDE DEF a
  <2>3. QED BY <1>3, <2>1, <2>2
<1>5. b \in Seq(X) /\ Len(b) = n /\ \A i \in 1..n : b[i] = t[i]
  <2>1. b \in Seq(X) /\ Len(b) = (IF 1 <= n THEN n - 1 + 1 ELSE 0) /\ \A i \in 1..(n - 1 + 1) : b[i] = t[1 + i - 1]
    BY <1>2, <1>3, SubSeqProperties
  <2>2. n - 1 + 1 = n /\ \A i \in 1..n : 1 + i - 1 = i
    BY <1>3
  <2> HIDE DEF b
  <2>3. QED BY <1>3, <2>1, <2>2
<1> HIDE DEF a, b
<1>6. a = b => \A i \in 1..n : s[i] = t[i]
  BY <1>4, <1>5
<1>7. (\A i \in 1..n : s[i] = t[i]) => a = b
  BY <1>4, <1>5, SeqEqual
<1>8. QED BY <1>6, <1>7 DEF a, b, n

(* Two lists with the same elements are one.                                 *)
LEMMA SeqSame ==
  ASSUME NEW s, IsSeq(s), NEW t, IsSeq(t), Len(s) = Len(t), \A i \in 1..Len(s) : s[i] = t[i]
  PROVE  s = t
<1> DEFINE X == Range(s) \union Range(t)
<1>1. s \in Seq(Range(s)) /\ t \in Seq(Range(t))
  BY Numbered1
<1>2. s \in Seq(X) /\ t \in Seq(X)
  BY <1>1, SeqMonotonic
<1> HIDE DEF X
<1>3. QED BY <1>2, SeqEqual

(* The names of one upstream's prompts start with the upstream's, and of     *)
(* two such starts of one length there is only one.                          *)
LEMMA Starts ==
  ASSUME NEW up, IsSeq(up)
  PROVE  /\ IsSeq(Under(up, <<>>)) /\ Len(Under(up, <<>>)) = Len(up) + 1
         /\ \A i \in 1..Len(up) : Under(up, <<>>)[i] = up[i]
         /\ \A p : IsSeq(p) /\ p # <<>> => IsSeq(Under(up, p)) /\ IsStrictPrefix(Under(up, <<>>), Under(up, p))
<1> DEFINE dot == <<".">>
           front == up \o dot
<1>1. IsSeq(dot) /\ Len(dot) = 1 /\ Len(up) \in Nat
  BY Single, Numbered1
<1> HIDE DEF dot
<1>2. IsSeq(front) /\ Len(front) = Len(up) + 1 /\ \A i \in 1..Len(up) : front[i] = up[i]
  <2>1. /\ IsSeq(up \o dot) /\ Len(up \o dot) = Len(up) + Len(dot)
        /\ \A i \in 1..Len(up) : (up \o dot)[i] = up[i]
    BY <1>1, Join
  <2>2. QED BY <1>1, <2>1
<1>3. Under(up, <<>>) = front
  <2>1. front \in Seq(Range(front))
    BY <1>2, Numbered1
  <2>2. Under(up, <<>>) = front \o <<>>
    BY DEF Under, dot
  <2> HIDE DEF front
  <2>3. QED BY <2>1, <2>2, ConcatEmptySeq
<1>4. ASSUME NEW p, IsSeq(p), p # <<>>
      PROVE  IsSeq(Under(up, p)) /\ IsStrictPrefix(front, Under(up, p))
  <2>1. Under(up, p) = front \o p
    BY DEF Under, dot
  <2>2. Len(p) \in Nat \ {0}
    BY <1>4, Numbered1, EmptySeq
  <2> HIDE DEF front
  <2>3. /\ IsSeq(front \o p) /\ Len(front \o p) = Len(front) + Len(p)
        /\ \A i \in 1..Len(front) : (front \o p)[i] = front[i]
    BY <1>2, <1>4, Join
  <2>4. IsPrefix(front, front \o p)
    <3> DEFINE whole == front \o p
    <3>1. IsSeq(whole) /\ Len(front) <= Len(whole) /\ \A i \in 1..Len(front) : front[i] = whole[i]
      BY <1>1, <1>2, <2>2, <2>3
    <3> HIDE DEF whole
    <3>2. IsPrefix(front, whole)
      BY <1>2, <3>1, PrefixAt
    <3>3. QED BY <3>2 DEF whole
  <2>5. front # front \o p
    BY <1>1, <1>2, <2>2, <2>3
  <2>6. QED BY <2>1, <2>3, <2>4, <2>5 DEF IsStrictPrefix
<1> HIDE DEF front
<1>5. QED BY <1>2, <1>3, <1>4

(* Two upstream names of one length that start a prompt's are one.           *)
LEMMA SameStart ==
  ASSUME NEW x, IsSeq(x), NEW y, IsSeq(y), NEW name, IsSeq(name), Len(x) = Len(y),
         IsStrictPrefix(Under(x, <<>>), name), IsStrictPrefix(Under(y, <<>>), name)
  PROVE  x = y
<1>1. /\ IsSeq(Under(x, <<>>)) /\ Len(Under(x, <<>>)) = Len(x) + 1
      /\ \A i \in 1..Len(x) : Under(x, <<>>)[i] = x[i]
  BY Starts
<1>2. /\ IsSeq(Under(y, <<>>)) /\ Len(Under(y, <<>>)) = Len(y) + 1
      /\ \A i \in 1..Len(y) : Under(y, <<>>)[i] = y[i]
  BY Starts
<1>3. \A i \in 1..(Len(x) + 1) : Under(x, <<>>)[i] = name[i] /\ Under(y, <<>>)[i] = name[i]
  BY <1>1, <1>2, PrefixAt DEF IsStrictPrefix
<1>4. Len(x) \in Nat
  BY Numbered1
<1>5. \A i \in 1..Len(x) : i \in 1..(Len(x) + 1)
  BY <1>4
<1>6. \A i \in 1..Len(x) : x[i] = y[i]
  BY <1>1, <1>2, <1>3, <1>5
<1>7. QED BY <1>6, SeqSame

RoundTripNext ==
  reply'.kind = "prompt" =>
    \A i \in DOMAIN ups :
      LET Length(n) == Len(conf.upstreams[ups[n]].name)
          mine == \E p \in world.prompts[ups[i]] :
                    p # <<>> /\ Length(i) > 0 /\ reply'.name = Under(conf.upstreams[ups[i]].name, p)
      IN mine /\ UpstreamVisible(reply'.to, i) => reply'.from = i \/ Length(reply'.from) > Length(i)

(* The owner of a prompt has the longest name of those that start it.        *)
LEMMA OwnerLongest ==
  ASSUME Built, NEW c, NEW name, Owners(c, name) # {}
  PROVE  /\ PromptOwner(c, name) \in Owners(c, name)
         /\ \A j \in Owners(c, name) :
              Len(conf.upstreams[ups[PromptOwner(c, name)]].name) >= Len(conf.upstreams[ups[j]].name)
<1> DEFINE L == [i \in DOMAIN ups |-> Len(conf.upstreams[ups[i]].name)]
           O == Owners(c, name)
<1>1. \A i \in DOMAIN ups : L[i] \in Nat
  <2> SUFFICES ASSUME NEW i \in DOMAIN ups PROVE Len(conf.upstreams[ups[i]].name) \in Nat
    OBVIOUS
  <2>1. IsSeq(conf.upstreams[ups[i]].name)
    BY TheDeployment DEF Deployable, conf
  <2>2. QED BY <2>1, Numbered1
<1>2. O \subseteq DOMAIN ups
  BY DEF Owners
<1>3. IsFiniteSet(O)
  <2>1. IsFiniteSet(DOMAIN ups)
    BY TheDeployment, FS_Interval
  <2> HIDE DEF O
  <2>2. QED BY <1>2, <2>1, FS_Subset
<1> DEFINE Ls == {L[i] : i \in O}
<1>4. PICK top \in Nat : \A l \in Ls : l <= top
  <2> DEFINE S == {n \in 0..Len(ups) : \E t \in Nat : \A i \in O : i <= n => L[i] <= t}
  <2>1. Len(ups) \in Nat /\ DOMAIN ups = 1..Len(ups)
    BY TheDeployment
  <2> HIDE DEF O, L
  <2>2. 0 \in S
    BY <1>2, <2>1
  <2>3. \A n \in 1..Len(ups) : n - 1 \in S => n \in S
    <3> SUFFICES ASSUME NEW n \in 1..Len(ups), n - 1 \in S PROVE \E t \in Nat : \A i \in O : i <= n => L[i] <= t
      BY <2>1
    <3>1. PICK t \in Nat : \A i \in O : i <= n - 1 => L[i] <= t
      OBVIOUS
    <3> DEFINE t2 == t + L[n]
    <3>2. t2 \in Nat /\ L[n] \in Nat
      BY <1>1, <2>1
    <3>3. \A i \in O : i <= n => L[i] <= t2
      BY <1>1, <1>2, <2>1, <3>1, <3>2
    <3>4. QED BY <3>2, <3>3
  <2> HIDE DEF S
  <2>4. 0..Len(ups) \subseteq S
    BY <2>1, <2>2, <2>3, UpTo
  <2>5. Len(ups) \in S
    BY <2>1, <2>4
  <2>6. PICK t \in Nat : \A i \in O : i <= Len(ups) => L[i] <= t
    BY <2>5 DEF S
  <2>7. \A l \in Ls : l <= t
    BY <1>2, <2>1, <2>6
  <2>8. QED BY <2>7
<1>5. Ls \in SUBSET (0..top) /\ Ls # {}
  <2>1. Ls # {}
    OBVIOUS
  <2> HIDE DEF O, L
  <2>2. QED BY <1>1, <1>2, <1>4, <2>1
<1>6. Max(Ls) \in Ls /\ \A l \in Ls : l <= Max(Ls)
  <2> HIDE DEF Ls
  <2>1. QED BY <1>5, Greatest
<1>7. PICK i \in O : L[i] = Max(Ls)
  BY <1>6
<1>8. \A j \in O : L[i] >= L[j]
  <2> HIDE DEF O, L
  <2>1. \A j \in O : L[j] \in Ls
    OBVIOUS
  <2>2. QED BY <1>1, <1>2, <1>6, <1>7, <2>1
<1>9. \E k \in O : \A j \in O : Len(conf.upstreams[ups[k]].name) >= Len(conf.upstreams[ups[j]].name)
  BY <1>2, <1>8
<1>10. QED BY <1>9 DEF PromptOwner

(* A prompt is asked of the upstream that listed it.                         *)
LEMMA PromptReturns ==
  ASSUME Base, NEW c, NEW name, GetPrompt(c, name)
  PROVE  RoundTripNext
<1> SUFFICES ASSUME reply'.kind = "prompt", NEW i \in DOMAIN ups, UpstreamVisible(reply'.to, i),
                    NEW p \in world.prompts[ups[i]], p # <<>>, Len(conf.upstreams[ups[i]].name) > 0,
                    reply'.name = Under(conf.upstreams[ups[i]].name, p)
             PROVE  \/ reply'.from = i
                    \/ Len(conf.upstreams[ups[reply'.from]].name) > Len(conf.upstreams[ups[i]].name)
  BY DEF RoundTripNext
<1> DEFINE o == PromptOwner(c, name)
           more == [name |-> name, from |-> o, bare |-> Bare(o, name)]
           Up(n) == conf.upstreams[ups[n]].name
<1>1. Built /\ Deployable(world) /\ \A n \in DOMAIN ups : ups[n] \in DOMAIN conf.upstreams
  BY TheDeployment DEF Base
<1>2. Owners(c, name) # {}
  <2> SUFFICES ASSUME Owners(c, name) = {} PROVE FALSE
    OBVIOUS
  <2>1. reply' = Tell(c, "unprompted", {}, [name |-> name])
    BY DEF GetPrompt, Gives
  <2>2. QED BY <2>1, TellKind
<1>3. reply' = Tell(c, "prompt", {}, more)
  BY <1>2 DEF GetPrompt, Gives
<1>4. reply'.to = c /\ reply'.name = name /\ reply'.from = o
  <2>1. {"name", "from"} \subseteq DOMAIN more \ {"to", "kind", "ids"} /\ more.name = name /\ more.from = o
    OBVIOUS
  <2> HIDE DEF more, o
  <2>2. QED BY <1>3, <2>1, TellSays
<1>5. \A n \in DOMAIN ups : IsSeq(Up(n)) /\ Len(Up(n)) \in Nat
  <2> SUFFICES ASSUME NEW n \in DOMAIN ups PROVE IsSeq(Up(n)) /\ Len(Up(n)) \in Nat
    OBVIOUS
  <2>1. IsSeq(Up(n))
    BY <1>1 DEF Deployable, conf
  <2> HIDE DEF Up
  <2>2. QED BY <2>1, Numbered1
<1>6. IsSeq(p)
  BY <1>1 DEF Deployable, conf
<1>7. IsSeq(name) /\ IsStrictPrefix(Under(Up(i), <<>>), name)
  <2>1. name = Under(Up(i), p)
    BY <1>4
  <2> HIDE DEF Up
  <2>2. QED BY <1>5, <1>6, <2>1, Starts
<1>8. i \in Owners(c, name)
  <2>1. Up(i) # <<>>
    <3>1. Len(<<>>) = 0
      OBVIOUS
    <3>2. QED BY <3>1
  <2>2. QED BY <1>4, <1>7, <2>1 DEF Owners
<1>9. o \in Owners(c, name) /\ Len(Up(o)) >= Len(Up(i))
  BY <1>1, <1>2, <1>8, OwnerLongest
<1>10. o \in DOMAIN ups /\ IsStrictPrefix(Under(Up(o), <<>>), name)
  BY <1>9 DEF Owners
<1>11. ASSUME Len(Up(o)) = Len(Up(i)) PROVE o = i
  <2>1. Up(o) = Up(i)
    <3> HIDE DEF Up, o
    <3>1. QED BY <1>5, <1>7, <1>10, <1>11, SameStart
  <2>2. Valid(conf)
    BY <1>1 DEF GetPrompt, Gives, Built
  <2>3. ups[o] = ups[i]
    BY <1>1, <1>10, <2>1, <2>2 DEF Valid, Distinct
  <2>4. DOMAIN ups = 1..Len(ups) /\ Len(ups) \in Nat /\ ups[o] \in Nat /\ ups[i] \in Nat
    BY <1>1, <1>10, TheDeployment
  <2> HIDE DEF o
  <2>5. QED BY <1>1, <1>10, <2>3, <2>4 DEF Built
<1> HIDE DEF o, Up
<1>12. QED BY <1>4, <1>5, <1>9, <1>10, <1>11 DEF Up

(* Only a pull answers a read or a prompt.                                   *)
LEMMA UsesNoRead ==
  ASSUME NEW c, Uses(c)
  PROVE  reply' = reply \/ reply'.kind \notin {"unreadable", "prompt"}
<1> DEFINE Else(r) == r = reply \/ r.kind \notin {"unreadable", "prompt"}
<1>1. ASSUME NEW kind, NEW ids, NEW more, kind \notin {"unreadable", "prompt"}, reply' = Tell(c, kind, ids, more)
      PROVE  Else(reply')
  BY <1>1, TellKind
<1>2. ASSUME NEW kind, NEW ids, kind \notin {"unreadable", "prompt"}, reply' = Say(c, kind, ids)
      PROVE  Else(reply')
  BY <1>2 DEF Say
<1>3. ASSUME NEW ids, Unknown(c, ids) PROVE Else(reply')
  BY <1>3, <1>2 DEF Unknown, Gives
<1>4. ASSUME NEW tool, NEW input, Send(c, tool, input) PROVE Else(reply')
  BY <1>4, <1>1 DEF Send, Gives
<1>5. CASE ListTools(c)
  BY <1>5, <1>1 DEF ListTools, Gives
<1>6. CASE Search(c)
  BY <1>6, <1>1 DEF Search, Gives
<1>7. ASSUME NEW id, Details(c, id) PROVE Else(reply')
  BY <1>7, <1>1, <1>2, <1>3 DEF Details, Gives
<1>8. ASSUME NEW id, CallTool(c, id) PROVE Else(reply')
  <2>1. ASSUME NEW wf, NEW n, RunStep(c, wf, n) PROVE Else(reply')
    BY <2>1, RunStepAdvances, AdvancedKind
  <2>2. QED BY <1>8, <2>1, <1>3, <1>4 DEF CallTool
<1>9. CASE SourceMap(c)
  BY <1>9, <1>2 DEF SourceMap, Gives
<1>10. ASSUME NEW name, CallByName(c, name) PROVE Else(reply')
  BY <1>10, <1>3, <1>4 DEF CallByName
<1>11. QED BY <1>5, <1>6, <1>7, <1>8, <1>9, <1>10 DEF Uses

(* What a pull answers keeps what a listing promised.                        *)
LEMMA PullsHonour ==
  ASSUME Base, Routed, NEW c \in Callers, Pulls(c), reply' # reply
  PROVE  ReadableNext /\ RoundTripNext
<1>1. CASE Fetch(c) \/ \E doing, uri : Begin(c, doing, uri)
  BY <1>1 DEF Fetch, Begin
<1>2. CASE Listed(c)
  <2>1. \/ \E more : reply' = Tell(c, "resources", {}, more)
        \/ \E more : reply' = Tell(c, "prompts", {}, more)
        \/ reply' = Read(c, task[c].uri, origin')
    BY <1>2 DEF Listed, Gives
  <2>2. reply'.kind # "prompt"
    BY <2>1, ReadKind, TellKind
  <2>3. QED BY <1>2, <2>2, ListedReadable DEF RoundTripNext
<1>3. CASE \E uri : uri \in DOMAIN origin /\ Gives(Read(c, uri, origin)) /\ Quiet
  <2>1. PICK uri : uri \in DOMAIN origin /\ Gives(Read(c, uri, origin)) /\ Quiet
    BY <1>3
  <2>2. reply'.kind # "prompt"
    BY <2>1, ReadKind DEF Gives
  <2>3. QED BY <2>1, <2>2, ReadReadable DEF RoundTripNext
<1>4. CASE \E name : GetPrompt(c, name)
  <2>1. PICK name : GetPrompt(c, name)
    BY <1>4
  <2>2. \/ \E more : reply' = Tell(c, "unprompted", {}, more)
        \/ \E more : reply' = Tell(c, "prompt", {}, more)
    BY <2>1 DEF GetPrompt, Gives
  <2>3. reply'.kind # "unreadable"
    BY <2>2, TellKind
  <2>4. QED BY <2>1, <2>3, PromptReturns DEF ReadableNext
<1>5. QED BY <1>1, <1>2, <1>3, <1>4 DEF Pulls, ReadResource

(* And so does every step.                                                   *)
LEMMA StepHonours ==
  ASSUME Base, Base', Routed, Hushed, [Next]_vars
  PROVE  /\ \A tools \in {cat'} \ {cat} : ToolsNamed(tools)
         /\ reply' # reply => (ResourcesReadable /\ PromptsRoundTrip)'
<1>1. \A tools \in {cat'} \ {cat} : ToolsNamed(tools)
  BY CatalogNamed DEF Base
<1>2. ASSUME reply' # reply PROVE (ResourcesReadable /\ PromptsRoundTrip)'
  <2>1. CASE \E c \in Callers : Pulls(c)
    <3>1. PICK c \in Callers : Pulls(c)
      BY <2>1
    <3>2. ReadableNext /\ RoundTripNext
      BY <1>2, <3>1, PullsHonour
    <3>3. world' = world /\ ups' = ups /\ cat' = cat
      BY <3>1, PullsKeep DEF Fixed
    <3>4. ResourcesReadable'
      BY <3>2, <3>3, SMTT(30) DEF ResourcesReadable, ReadableNext, UpstreamVisible, Permits, conf
    <3>5. PromptsRoundTrip'
      BY <3>2, <3>3, SMTT(30) DEF PromptsRoundTrip, RoundTripNext, UpstreamVisible, Permits, conf
    <3>6. QED BY <3>4, <3>5
  <2>2. CASE reply'.kind \notin {"unreadable", "prompt"}
    BY <2>2 DEF ResourcesReadable, PromptsRoundTrip
  <2>3. CASE \E c \in Callers : Uses(c)
    BY <1>2, <2>2, <2>3, UsesNoRead
  <2>4. CASE Answer
    <3>1. PICK more : call # Nothing /\ reply' = Also([call EXCEPT !.kind = "result"], more)
      BY <2>4 DEF Answer, Gives
    <3> DEFINE f == [call EXCEPT !.kind = "result"]
    <3>2. "kind" \in DOMAIN f /\ f.kind = "result"
      BY <3>1 DEF Hushed, Sealed, Carries
    <3>3. reply' = Also(f, more)
      BY <3>1
    <3> HIDE DEF f
    <3>4. reply'.kind = "result"
      BY <3>2, <3>3, AlsoIs
    <3>5. QED BY <2>2, <3>4
  <2>5. CASE ResolveSchema
    <3>1. PICK more : reply' = Tell("nobody", "resolved", {}, more)
      BY <2>5 DEF ResolveSchema, Gives
    <3>2. reply'.kind = "resolved"
      BY <3>1, TellKind
    <3>3. QED BY <2>2, <3>2
  <2>6. CASE Taken
    BY <2>2, <2>6 DEF Taken, Nobody
  <2>7. CASE StepAnswer
    BY <1>2, <2>2, <2>7, StepAnswerAdvances, AdvancedKind
  <2>8. QED BY <1>2, <2>1, <2>3, <2>4, <2>5, <2>6, <2>7 DEF Next, vars, Connect, Start, Reindex
<1>3. QED BY <1>1, <1>2

(* What a listing promises, the later request gets: every tool of a          *)
(* catalog has a name of its own within MAX_NAME_LEN (exposed_names), a      *)
(* listed resource is read and a listed prompt goes to the upstream that     *)
(* has it (read_resource, get_prompt).                                       *)
THEOREM ListingsAreHonoured == Spec => ListingsHonoured
<1>1. Base /\ Base' /\ Routed /\ Hushed /\ [Next]_vars =>
        [/\ \A tools \in {cat'} \ {cat} : ToolsNamed(tools)
         /\ reply' # reply => (ResourcesReadable /\ PromptsRoundTrip)']_vars
  BY StepHonours
<1>2. QED BY <1>1, AlwaysBase, AlwaysRouted, AlwaysHushed, PTL DEF Spec, ListingsHonoured

-----------------------------------------------------------------------------
(* What the model does step by step to a JSON value: the walk to a place,    *)
(* the edit on its way down and back up, and one patch after the other.      *)
Stepped(kind, x, arg) ==
  CASE kind = "walk" -> Child(x, arg)
    [] kind = "down" -> IF Has(x, arg) THEN x.object[arg] ELSE Empty
    [] kind = "up" -> IF ~IsObj(arg[1]) THEN arg[1] ELSE With(arg[1], arg[2], x)
    [] kind = "patch" -> IF Supplied(arg[1]) THEN SetAt(x, arg[1].path, arg[2][arg[1].source]) ELSE x

Trail(kind, N, b, args, f) == f = [n \in 0..N |-> IF n = 0 THEN b ELSE Stepped(kind, f[n - 1], args[n])]

(* Such steps can be taken, one after the other.                             *)
LEMMA Stepwise ==
  ASSUME NEW kind, NEW N \in Nat, NEW b, NEW args
  PROVE  \E f : Trail(kind, N, b, args, f)
<1> DEFINE Upto(n, f) == DOMAIN f = 0..n /\ f[0] = b /\ \A k \in 1..n : f[k] = Stepped(kind, f[k - 1], args[k])
           S == {n \in 0..N : \E f : Upto(n, f)}
<1>1. 0 \in S
  <2> DEFINE f == [k \in 0..0 |-> b]
  <2>1. DOMAIN f = 0..0 /\ f[0] = b /\ 1..0 = {}
    OBVIOUS
  <2> HIDE DEF f
  <2>2. QED BY <2>1
<1>2. ASSUME NEW n \in 1..N, n - 1 \in S PROVE n \in S
  <2>1. PICK f : Upto(n - 1, f)
    BY <1>2
  <2> DEFINE g == [k \in 0..n |-> IF k = n THEN Stepped(kind, f[n - 1], args[n]) ELSE f[k]]
  <2>2. DOMAIN g = 0..n
    OBVIOUS
  <2>3. g[0] = b
    BY <2>1
  <2>4. \A k \in 1..n : g[k] = Stepped(kind, g[k - 1], args[k])
    <3>1. g[n] = Stepped(kind, f[n - 1], args[n]) /\ g[n - 1] = f[n - 1]
      OBVIOUS
    <3>2. \A k \in 1..(n - 1) : g[k] = f[k] /\ g[k - 1] = f[k - 1]
      OBVIOUS
    <3> HIDE DEF g
    <3>3. \A k \in 1..(n - 1) : g[k] = Stepped(kind, g[k - 1], args[k])
      BY <2>1, <3>2
    <3>4. \A k \in 1..n : k = n \/ k \in 1..(n - 1)
      OBVIOUS
    <3>5. QED BY <3>1, <3>3, <3>4
  <2> HIDE DEF g
  <2>5. \E h : Upto(n, h)
    BY <2>2, <2>3, <2>4
  <2>6. QED BY <2>5
<1> HIDE DEF S
<1>3. N \in S
  <2>1. \A n \in 1..N : n - 1 \in S => n \in S
    BY <1>2
  <2>2. 0..N \subseteq S
    BY <1>1, <2>1, UpTo
  <2>3. QED BY <2>2
<1>4. PICK f : Upto(N, f)
  BY <1>3 DEF S
<1> DEFINE K(g) == [n \in 0..N |-> IF n = 0 THEN b ELSE Stepped(kind, g[n - 1], args[n])]
           h == [n \in 0..N |-> f[n]]
<1>5. \A n \in 0..N : h[n] = K(h)[n]
  <2>1. h[0] = K(h)[0]
    BY <1>4
  <2>2. \A n \in 1..N : n \in 0..N /\ n - 1 \in 0..N /\ n # 0
    OBVIOUS
  <2>3. \A n \in 1..N : h[n] = K(h)[n]
    BY <1>4, <2>2
  <2>4. \A n \in 0..N : n = 0 \/ n \in 1..N
    OBVIOUS
  <2> HIDE DEF h, K
  <2>5. QED BY <2>1, <2>3, <2>4
<1>6. h = K(h)
  BY <1>5
<1>7. QED BY <1>6 DEF Trail

(* The walk to a place is made so.                                           *)
LEMMA Walked ==
  ASSUME NEW v, NEW q, IsSeq(q)
  PROVE  Walk(v, q)[0] = v /\ \A n \in 1..Len(q) : Walk(v, q)[n] = Child(Walk(v, q)[n - 1], q[n])
<1> DEFINE N == Len(q)
           K(g) == [n \in 0..N |-> IF n = 0 THEN v ELSE Child(g[n - 1], q[n])]
           k == CHOOSE g : g = K(g)
<1>1. N \in Nat
  BY Numbered1
<1> HIDE DEF N
<1>2. \E g : g = K(g)
  <2>1. \A x, arg : Stepped("walk", x, arg) = Child(x, arg)
    BY DEF Stepped
  <2>2. PICK g : Trail("walk", N, v, q, g)
    BY <1>1, Stepwise
  <2>3. g = K(g)
    BY <2>1, <2>2 DEF Trail
  <2>4. QED BY <2>3
<1>3. k = K(k)
  BY <1>2
<1>4. Walk(v, q) = k
  BY DEF Walk, N
<1> HIDE DEF k
<1>5. \A n \in 0..N : k[n] = IF n = 0 THEN v ELSE Child(k[n - 1], q[n])
  BY <1>3
<1>6. 0 \in 0..N /\ \A n \in 1..N : n \in 0..N /\ n # 0
  BY <1>1
<1>7. QED BY <1>4, <1>5, <1>6 DEF N

(* The nodes an edit finds, and what becomes of each: the value at the end,  *)
(* and above it each object with the entry replaced.                         *)
Down(v, p, node) ==
  /\ node[0] = v
  /\ \A n \in 1..Len(p) : node[n] = IF Has(node[n - 1], p[n]) THEN node[n - 1].object[p[n]] ELSE Empty
Up(p, w, node, after) ==
  /\ after[Len(p)] = w
  /\ \A n \in 0..(Len(p) - 1) : after[n] = IF ~IsObj(node[n]) THEN node[n] ELSE With(node[n], p[n + 1], after[n + 1])

(* And so is an edit.                                                        *)
LEMMA SetAtIs ==
  ASSUME NEW v, NEW p, IsSeq(p), p # <<>>, NEW w
  PROVE  \E node, after : Down(v, p, node) /\ Up(p, w, node, after) /\ SetAt(v, p, w) = after[0]
<1> DEFINE L == Len(p)
           Kd(g) == [n \in 0..L |->
                       IF n = 0 THEN v
                       ELSE LET above == g[n - 1] IN IF Has(above, p[n]) THEN above.object[p[n]] ELSE Empty]
           node == CHOOSE g : g = Kd(g)
           Ku(g) == [up \in 0..L |->
                       LET n == L - up
                           keeps == n = L - 1 /\ ~TRUE /\ Has(node[n], p[n + 1])
                       IN IF up = 0 THEN w
                          ELSE IF ~IsObj(node[n]) \/ keeps THEN node[n]
                          ELSE With(node[n], p[n + 1], g[up - 1])]
           put == CHOOSE g : g = Ku(g)
<1>1. SetAt(v, p, w) = put[L]
  BY DEF SetAt, PutAt
<1>2. L \in Nat
  BY Numbered1
<1> HIDE DEF L
<1>3. node = Kd(node)
  <2>1. \A x, arg : Stepped("down", x, arg) = IF Has(x, arg) THEN x.object[arg] ELSE Empty
    BY DEF Stepped
  <2>2. PICK g : Trail("down", L, v, p, g)
    BY <1>2, Stepwise
  <2>3. g = Kd(g)
    BY <2>1, <2>2 DEF Trail
  <2>4. QED BY <2>3
<1> HIDE DEF node
<1>4. put = Ku(put)
  <2> DEFINE args == [n \in 1..L |-> <<node[L - n], p[L - n + 1]>>]
  <2>1. \A x, arg : Stepped("up", x, arg) = IF ~IsObj(arg[1]) THEN arg[1] ELSE With(arg[1], arg[2], x)
    BY DEF Stepped
  <2>2. PICK g : Trail("up", L, w, args, g)
    <3> HIDE DEF args
    <3>1. QED BY <1>2, Stepwise
  <2>3. \A n \in 1..L : args[n][1] = node[L - n] /\ args[n][2] = p[L - n + 1]
    OBVIOUS
  <2> HIDE DEF args
  <2>4. g = [n \in 0..L |-> IF n = 0 THEN w ELSE Stepped("up", g[n - 1], args[n])]
    BY <2>2 DEF Trail
  <2>5. ASSUME NEW n \in 0..L PROVE g[n] = Ku(g)[n]
    <3>1. CASE n = 0
      BY <2>4, <3>1
    <3>2. CASE n # 0
      <4>1. n \in 1..L
        BY <1>2, <3>2
      <4>2. g[n] = Stepped("up", g[n - 1], args[n])
        BY <2>4, <3>2
      <4>3. Ku(g)[n] = IF ~IsObj(node[L - n]) THEN node[L - n] ELSE With(node[L - n], p[L - n + 1], g[n - 1])
        BY <3>2
      <4> HIDE DEF Ku
      <4>4. QED BY <2>1, <2>3, <4>1, <4>2, <4>3
    <3>3. QED BY <3>1, <3>2
  <2>6. DOMAIN g = 0..L /\ g = [n \in 0..L |-> g[n]]
    BY <2>4
  <2>7. g = Ku(g)
    BY <2>5, <2>6
  <2>8. QED BY <2>7
<1> HIDE DEF put
<1> DEFINE after == [n \in 0..L |-> put[L - n]]
<1>5. Down(v, p, node)
  <2>1. \A n \in 0..L : node[n] = Kd(node)[n]
    BY <1>3
  <2>2. 0 \in 0..L /\ \A n \in 1..L : n \in 0..L /\ n # 0
    BY <1>2
  <2>3. QED BY <2>1, <2>2 DEF Down, L
<1>6. \A up \in 0..L : put[up] = IF up = 0 THEN w
                                 ELSE IF ~IsObj(node[L - up]) THEN node[L - up]
                                 ELSE With(node[L - up], p[L - up + 1], put[up - 1])
  BY <1>4
<1>7. Up(p, w, node, after)
  <2>1. after[L] = w
    BY <1>2, <1>6
  <2>2. ASSUME NEW n \in 0..(L - 1)
        PROVE  after[n] = IF ~IsObj(node[n]) THEN node[n] ELSE With(node[n], p[n + 1], after[n + 1])
    <3>1. L - n \in 0..L /\ L - n # 0 /\ L - (L - n) = n /\ L - n - 1 = L - (n + 1) /\ n + 1 \in 0..L /\ n \in 0..L
      BY <1>2
    <3>2. after[n] = put[L - n] /\ after[n + 1] = put[L - n - 1]
      BY <3>1
    <3> HIDE DEF after
    <3>3. QED BY <1>6, <3>1, <3>2
  <2> HIDE DEF after
  <2>3. QED BY <2>1, <2>2 DEF Up, L
<1>8. SetAt(v, p, w) = after[0]
  BY <1>1, <1>2
<1> HIDE DEF after
<1>9. QED BY <1>5, <1>7, <1>8

(* An object with an entry put in has it, and the others as before.          *)
LEMMA WithIs ==
  ASSUME NEW v, NEW key, NEW w
  PROVE  LET x == With(v, key, w)
         IN /\ Has(x, key) /\ Child(x, key) = w
            /\ \A other : other # key /\ Has(v, other) => Has(x, other) /\ Child(x, other) = Child(v, other)
<1> DEFINE x == With(v, key, w)
           f == [k \in Keys(v) \union {key} |-> IF k = key THEN w ELSE v.object[k]]
<1>1. x = [object |-> f] /\ x.object = f /\ IsObj(x)
  BY DEF With, Obj, IsObj
<1> HIDE DEF x
<1>2. Keys(x) = Keys(v) \union {key}
  BY <1>1 DEF Keys
<1>3. \A k \in Keys(x) : Has(x, k) /\ Child(x, k) = f[k]
  BY <1>1 DEF Has, Child
<1>4. \A k \in Keys(v) : Child(v, k) = v.object[k]
  BY DEF Has, Child
<1>5. QED BY <1>2, <1>3, <1>4 DEF Has, x

(* How far the walk to a place follows the keys of objects; and what it is   *)
(* for a place to be owned by some values: one of them is there, or          *)
(* something other than an object is in the way.                             *)
Met(v, q, n) == \A m \in 1..n : Has(Walk(v, q)[m - 1], q[m])
Blocked(v, q, n) == Met(v, q, n) /\ ~IsObj(Walk(v, q)[n])
Owned(v, q, W) ==
  \/ Met(v, q, Len(q)) /\ Walk(v, q)[Len(q)] \in W
  \/ \E n \in 0..(Len(q) - 1) : Blocked(v, q, n)

(* After an edit the place has the value, unless something else than an      *)
(* object was in the way, and is still.                                      *)
LEMMA SetFills ==
  ASSUME NEW v, NEW p, IsSeq(p), p # <<>>, NEW w, NEW W, w \in W
  PROVE  Owned(SetAt(v, p, w), p, W)
<1> DEFINE L == Len(p)
           r == SetAt(v, p, w)
           walk == Walk(r, p)
<1>1. L \in Nat
  BY Numbered1
<1>2. PICK node, after : Down(v, p, node) /\ Up(p, w, node, after) /\ r = after[0]
  BY SetAtIs
<1>3. walk[0] = r /\ \A n \in 1..L : walk[n] = Child(walk[n - 1], p[n])
  BY Walked
<1> DEFINE Along(n) == Met(r, p, n) /\ walk[n] = after[n]
           S == {n \in 0..L : Along(n) \/ \E m \in 0..(L - 1) : Blocked(r, p, m)}
<1>4. 0 \in S
  <2>1. Met(r, p, 0)
    BY DEF Met
  <2> HIDE DEF r, walk, L
  <2>2. QED BY <1>1, <1>2, <1>3, <2>1
<1>5. ASSUME NEW n \in 1..L, n - 1 \in S PROVE n \in S
  <2> HIDE DEF r, L
  <2>1. SUFFICES ASSUME Along(n - 1), \A m \in 0..(L - 1) : ~Blocked(r, p, m) PROVE Along(n)
    BY <1>5
  <2>2. n - 1 \in 0..(L - 1) /\ (n - 1) + 1 = n
    BY <1>1
  <2>3. IsObj(walk[n - 1])
    BY <2>1, <2>2 DEF Blocked
  <2>4. after[n - 1] = IF ~IsObj(node[n - 1]) THEN node[n - 1] ELSE With(node[n - 1], p[n], after[n])
    BY <1>2, <2>2 DEF Up, L
  <2>5. walk[n - 1] = With(node[n - 1], p[n], after[n])
    BY <2>1, <2>3, <2>4
  <2>6. Has(walk[n - 1], p[n]) /\ walk[n] = after[n]
    BY <1>3, <2>5, WithIs
  <2>7. \A m \in 1..n : m = n \/ m \in 1..(n - 1)
    BY <1>1
  <2>8. Met(r, p, n)
    BY <2>1, <2>6, <2>7 DEF Met
  <2>9. QED BY <2>6, <2>8
<1> HIDE DEF S
<1>6. L \in S
  <2>1. \A n \in 1..L : n - 1 \in S => n \in S
    BY <1>5
  <2> HIDE DEF L
  <2>2. 0..L \subseteq S
    BY <1>1, <1>4, <2>1, UpTo
  <2>3. QED BY <1>1, <2>2
<1>7. after[L] = w
  BY <1>2 DEF Up
<1>8. QED BY <1>6, <1>7 DEF S, Owned

(* An edit leaves an owned place owned, provided that what it writes is not  *)
(* an object and, where it writes at that place, one of the owner's values.  *)
LEMMA SetKeeps ==
  ASSUME NEW v, NEW p, IsSeq(p), NEW w, ~IsObj(w), NEW q, IsSeq(q), NEW W, \A x \in W : ~IsObj(x),
         Owned(v, q, W), p = q => w \in W
  PROVE  Owned(SetAt(v, p, w), q, W)
<1>1. CASE p = <<>>
  <2>1. SetAt(v, p, w) = v
    BY <1>1 DEF SetAt, PutAt
  <2>2. QED BY <2>1
<1>2. CASE p # <<>>
  <2> DEFINE L == Len(q)
             r == SetAt(v, p, w)
             old == Walk(v, q)
             new == Walk(r, q)
  <2>1. L \in Nat /\ Len(p) \in Nat
    BY Numbered1
  <2>2. PICK node, after : Down(v, p, node) /\ Up(p, w, node, after) /\ r = after[0]
    BY <1>2, SetAtIs
  <2>3. /\ old[0] = v /\ \A n \in 1..L : old[n] = Child(old[n - 1], q[n])
        /\ new[0] = r /\ \A n \in 1..L : new[n] = Child(new[n - 1], q[n])
    BY Walked
  <2> SUFFICES ASSUME \A m \in 0..(L - 1) : ~Blocked(r, q, m)
               PROVE  Met(r, q, L) /\ new[L] \in W
    BY DEF Owned
  <2> HIDE DEF r, L, old, new
  <2>4. PICK N \in 0..L : Met(v, q, N) /\ ~IsObj(old[N]) /\ (N = L => old[L] \in W)
    BY <2>1 DEF Owned, Blocked, L, old
  <2> DEFINE Edited(m) == /\ m <= Len(p) /\ \A i \in 1..m : p[i] = q[i]
                          /\ node[m] = old[m] /\ new[m] = after[m]
             S == {m \in 0..N : Met(r, q, m) /\ (Edited(m) \/ new[m] = old[m])}
  <2>5. 0 \in S
    <3>1. Met(r, q, 0) /\ node[0] = old[0] /\ new[0] = after[0]
      BY <2>2, <2>3 DEF Met, Down
    <3>2. QED BY <2>1, <3>1
  <2>6. ASSUME NEW m \in 1..N, m - 1 \in S PROVE m \in S
    <3>1. /\ m \in 1..L /\ m - 1 \in 0..(L - 1) /\ m - 1 \in Nat
          /\ \A i \in 1..m : i = m \/ i \in 1..(m - 1)
      BY <2>1
    <3>2. Has(old[m - 1], q[m]) /\ IsObj(old[m - 1])
      <4>1. Has(old[m - 1], q[m])
        BY <2>4 DEF Met, old
      <4>2. QED BY <4>1 DEF Has, Keys
    <3>3. old[m] = old[m - 1].object[q[m]] /\ old[m] = Child(old[m - 1], q[m]) /\ new[m] = Child(new[m - 1], q[m])
      BY <2>3, <3>1, <3>2 DEF Child
    <3>4. Met(r, q, m - 1)
      BY <2>6
    <3>5. IsObj(new[m - 1])
      BY <3>1, <3>4 DEF Blocked, new
    <3>6. Has(new[m - 1], q[m]) => Met(r, q, m)
      BY <3>1, <3>4 DEF Met, new
    <3>7. CASE new[m - 1] = old[m - 1]
      BY <2>6, <3>2, <3>3, <3>6, <3>7
    <3>8. CASE Edited(m - 1)
      <4>1. m - 1 # Len(p)
        BY <2>2, <3>5, <3>8 DEF Up
      <4>2. m - 1 \in 0..(Len(p) - 1) /\ m \in 1..Len(p) /\ (m - 1) + 1 = m
        BY <2>1, <3>1, <3>8, <4>1
      <4>3. after[m - 1] = IF ~IsObj(node[m - 1]) THEN node[m - 1] ELSE With(node[m - 1], p[m], after[m])
        BY <2>2, <4>2 DEF Up
      <4>4. new[m - 1] = With(old[m - 1], p[m], after[m])
        BY <3>2, <3>8, <4>3
      <4>5. CASE p[m] = q[m]
        <5>1. Has(new[m - 1], q[m]) /\ new[m] = after[m]
          BY <3>3, <4>4, <4>5, WithIs
        <5>2. node[m] = old[m]
          <6>1. node[m] = IF Has(node[m - 1], p[m]) THEN node[m - 1].object[p[m]] ELSE Empty
            BY <2>2, <4>2 DEF Down
          <6>2. QED BY <3>2, <3>3, <3>8, <4>5, <6>1
        <5>3. \A i \in 1..m : p[i] = q[i]
          BY <3>1, <3>8, <4>5
        <5>4. QED BY <2>6, <3>6, <4>2, <5>1, <5>2, <5>3
      <4>6. CASE p[m] # q[m]
        <5>1. Has(new[m - 1], q[m]) /\ new[m] = old[m]
          BY <3>2, <3>3, <4>4, <4>6, WithIs
        <5>2. QED BY <2>6, <3>6, <5>1
      <4>7. QED BY <4>5, <4>6
    <3>9. QED BY <2>6, <3>7, <3>8
  <2> HIDE DEF S
  <2>7. N \in S
    <3>1. \A m \in 1..N : m - 1 \in S => m \in S
      BY <2>6
    <3>2. N \in Nat
      BY <2>1
    <3>3. 0..N \subseteq S
      BY <2>5, <3>1, <3>2, UpTo
    <3>4. QED BY <3>2, <3>3
  <2>8. Met(r, q, N) /\ (Edited(N) \/ new[N] = old[N])
    BY <2>7 DEF S
  <2>9. CASE new[N] = old[N]
    <3>1. N = L
      BY <2>1, <2>4, <2>8, <2>9 DEF Blocked, new
    <3>2. QED BY <2>4, <2>8, <2>9, <3>1
  <2>10. CASE Edited(N)
    <3>1. ~IsObj(after[N])
      <4>1. CASE N = Len(p)
        BY <2>2, <4>1 DEF Up
      <4>2. CASE N # Len(p)
        <5>1. N \in 0..(Len(p) - 1)
          BY <2>1, <2>10, <4>2
        <5>2. QED BY <2>2, <2>4, <2>10, <5>1 DEF Up
      <4>3. QED BY <4>1, <4>2
    <3>2. N = L
      BY <2>1, <2>8, <2>10, <3>1 DEF Blocked, new
    <3>3. CASE N = Len(p)
      <4>1. p = q
        BY <2>10, <3>2, <3>3, SeqSame DEF L
      <4>2. QED BY <2>2, <2>8, <2>10, <3>2, <3>3, <4>1 DEF Up
    <3>4. CASE N # Len(p)
      <4>1. N \in 0..(Len(p) - 1)
        BY <2>1, <2>10, <3>4
      <4>2. after[N] = old[N]
        BY <2>2, <2>4, <2>10, <4>1 DEF Up
      <4>3. QED BY <2>4, <2>8, <2>10, <3>2, <4>2
    <3>5. QED BY <3>3, <3>4
  <2>11. QED BY <2>8, <2>9, <2>10
<1>3. QED BY <1>1, <1>2

(* What the patches leave of a call's arguments, one after the other.        *)
LEMMA InjectedIs ==
  ASSUME NEW patches, IsSeq(patches), NEW args, NEW secrets
  PROVE  \E filled :
           /\ filled[0] = args /\ Injected(patches, args, secrets) = filled[Len(patches)]
           /\ \A n \in 1..Len(patches) :
                filled[n] = IF Supplied(patches[n])
                            THEN SetAt(filled[n - 1], patches[n].path, secrets[patches[n].source])
                            ELSE filled[n - 1]
<1> DEFINE N == Len(patches)
           K(g) == [n \in 0..N |->
                      IF n = 0 THEN args
                      ELSE IF Supplied(patches[n]) THEN SetAt(g[n - 1], patches[n].path, secrets[patches[n].source])
                           ELSE g[n - 1]]
           k == CHOOSE g : g = K(g)
<1>1. Injected(patches, args, secrets) = k[N]
  BY DEF Injected
<1>2. N \in Nat
  BY Numbered1
<1> HIDE DEF N
<1>3. \E g : g = K(g)
  <2> DEFINE steps == [n \in 1..N |-> <<patches[n], secrets>>]
  <2>1. \A x, arg : Stepped("patch", x, arg) =
          IF Supplied(arg[1]) THEN SetAt(x, arg[1].path, arg[2][arg[1].source]) ELSE x
    BY DEF Stepped
  <2>2. PICK g : Trail("patch", N, args, steps, g)
    <3> HIDE DEF steps
    <3>1. QED BY <1>2, Stepwise
  <2>3. \A n \in 1..N : steps[n][1] = patches[n] /\ steps[n][2] = secrets
    OBVIOUS
  <2> HIDE DEF steps
  <2>4. g = [n \in 0..N |-> IF n = 0 THEN args ELSE Stepped("patch", g[n - 1], steps[n])]
    BY <2>2 DEF Trail
  <2>5. ASSUME NEW n \in 0..N PROVE g[n] = K(g)[n]
    <3>1. CASE n = 0
      BY <2>4, <3>1
    <3>2. CASE n # 0
      <4>1. n \in 1..N
        BY <1>2, <3>2
      <4>2. g[n] = Stepped("patch", g[n - 1], steps[n])
        BY <2>4, <3>2
      <4>3. K(g)[n] = IF Supplied(patches[n]) THEN SetAt(g[n - 1], patches[n].path, secrets[patches[n].source])
                      ELSE g[n - 1]
        BY <3>2
      <4> HIDE DEF K
      <4>4. QED BY <2>1, <2>3, <4>1, <4>2, <4>3
    <3>3. QED BY <3>1, <3>2
  <2>6. DOMAIN g = 0..N /\ g = [n \in 0..N |-> g[n]]
    BY <2>4
  <2>7. g = K(g)
    BY <2>5, <2>6
  <2>8. QED BY <2>7
<1>4. k = K(k)
  BY <1>3
<1> HIDE DEF k
<1>5. \A n \in 0..N : k[n] = K(k)[n]
  BY <1>4
<1>6. 0 \in 0..N /\ \A n \in 1..N : n \in 0..N /\ n # 0
  BY <1>2
<1>7. k[0] = args
  BY <1>5, <1>6
<1>8. \A n \in 1..N :
        k[n] = IF Supplied(patches[n]) THEN SetAt(k[n - 1], patches[n].path, secrets[patches[n].source])
               ELSE k[n - 1]
  BY <1>5, <1>6
<1>9. QED BY <1>1, <1>7, <1>8 DEF N

(* The values a field may get that is taken from the agent.                  *)
ValuesOf(patches, path, secrets) ==
  {secrets[patches[j].source] : j \in {n \in DOMAIN patches : Supplied(patches[n]) /\ patches[n].path = path}}

(* After its patch a field is its secret's, and the patches that follow      *)
(* leave it so.                                                              *)
LEMMA InjectedOwns ==
  ASSUME NEW patches, IsSeq(patches), \A n \in DOMAIN patches : IsSeq(patches[n].path),
         NEW args, NEW secrets,
         \A n \in DOMAIN patches : Supplied(patches[n]) => ~IsObj(secrets[patches[n].source]),
         NEW i \in DOMAIN patches, Supplied(patches[i]), patches[i].path # <<>>
  PROVE  Owned(Injected(patches, args, secrets), patches[i].path, ValuesOf(patches, patches[i].path, secrets))
<1> DEFINE N == Len(patches)
           path == patches[i].path
           W == ValuesOf(patches, path, secrets)
<1>1. N \in Nat /\ DOMAIN patches = 1..N
  BY Numbered1
<1>2. PICK filled :
           /\ filled[0] = args /\ Injected(patches, args, secrets) = filled[N]
           /\ \A n \in 1..N :
                filled[n] = IF Supplied(patches[n])
                            THEN SetAt(filled[n - 1], patches[n].path, secrets[patches[n].source])
                            ELSE filled[n - 1]
  BY InjectedIs
<1>3. \A n \in 1..N : Supplied(patches[n]) /\ patches[n].path = path => secrets[patches[n].source] \in W
  BY <1>1 DEF ValuesOf
<1>4. \A x \in W : ~IsObj(x)
  BY DEF ValuesOf
<1> HIDE DEF N, W
<1> DEFINE S == {n \in 0..N : n < i \/ Owned(filled[n], path, W)}
<1>5. 0 \in S
  BY <1>1
<1>6. ASSUME NEW n \in 1..N, n - 1 \in S PROVE n \in S
  <2> SUFFICES ASSUME n >= i PROVE Owned(filled[n], path, W)
    BY <1>1
  <2>1. n \in DOMAIN patches /\ IsSeq(patches[n].path) /\ IsSeq(path)
    BY <1>1
  <2>2. filled[n] = IF Supplied(patches[n])
                    THEN SetAt(filled[n - 1], patches[n].path, secrets[patches[n].source])
                    ELSE filled[n - 1]
    BY <1>2
  <2>3. CASE n = i
    <3>1. secrets[patches[i].source] \in W
      BY <1>1, <1>3
    <3>2. Owned(SetAt(filled[n - 1], path, secrets[patches[i].source]), path, W)
      BY <2>1, <3>1, SetFills
    <3>3. QED BY <2>2, <2>3, <3>2
  <2>4. CASE n # i
    <3>1. Owned(filled[n - 1], path, W)
      BY <1>1, <1>6, <2>4
    <3>2. CASE ~Supplied(patches[n])
      BY <2>2, <3>1, <3>2
    <3>3. CASE Supplied(patches[n])
      <4>1. patches[n].path = path => secrets[patches[n].source] \in W
        BY <1>3, <3>3
      <4>2. ~IsObj(secrets[patches[n].source])
        BY <2>1, <3>3
      <4> HIDE DEF path
      <4>3. Owned(SetAt(filled[n - 1], patches[n].path, secrets[patches[n].source]), path, W)
        BY <1>4, <2>1, <3>1, <4>1, <4>2, SetKeeps
      <4>4. QED BY <2>2, <3>3, <4>3
    <3>4. QED BY <3>2, <3>3
  <2>5. QED BY <2>3, <2>4
<1> HIDE DEF S
<1>7. N \in S
  <2>1. \A n \in 1..N : n - 1 \in S => n \in S
    BY <1>6
  <2>2. 0..N \subseteq S
    BY <1>1, <1>5, <2>1, UpTo
  <2>3. QED BY <1>1, <2>2
<1>8. Owned(filled[N], path, W)
  BY <1>1, <1>7 DEF S
<1>9. QED BY <1>2, <1>8 DEF N, W

-----------------------------------------------------------------------------
(* What the property asks of a call, of a deployment's secrets.              *)
Authoritative(r, secrets) ==
  \A i \in DOMAIN r.tool.patches :
    LET path == r.tool.patches[i].path
        node == Walk(r.sent, path)
        Reached(n) == \A m \in 1..n : Has(node[m - 1], path[m])
        values == {secrets[r.tool.patches[j].source] :
                     j \in {n \in DOMAIN r.tool.patches :
                             Supplied(r.tool.patches[n]) /\ r.tool.patches[n].path = path}}
    IN Supplied(r.tool.patches[i]) /\ path # <<>> =>
         \/ node[Len(path)] \in values
         \/ \E n \in 0..(Len(path) - 1) : Reached(n) /\ ~IsObj(node[n])

(* So it is for every field of a call that the patches filled.               *)
LEMMA OwnsAll ==
  ASSUME NEW r, Fit(r.tool), NEW args, NEW secrets, r.sent = Injected(r.tool.patches, args, secrets),
         \A n \in DOMAIN r.tool.patches :
           Supplied(r.tool.patches[n]) => ~IsObj(secrets[r.tool.patches[n].source])
  PROVE  Authoritative(r, secrets)
<1> SUFFICES ASSUME NEW i \in DOMAIN r.tool.patches, Supplied(r.tool.patches[i]), r.tool.patches[i].path # <<>>
             PROVE  LET path == r.tool.patches[i].path
                    IN \/ Walk(r.sent, path)[Len(path)] \in ValuesOf(r.tool.patches, path, secrets)
                       \/ \E n \in 0..(Len(path) - 1) : Met(r.sent, path, n) /\ ~IsObj(Walk(r.sent, path)[n])
  BY DEF Authoritative, ValuesOf, Met
<1>1. Owned(r.sent, r.tool.patches[i].path, ValuesOf(r.tool.patches, r.tool.patches[i].path, secrets))
  BY InjectedOwns DEF Fit
<1>2. QED BY <1>1 DEF Owned, Blocked

(* A call that goes out: every source it needs has a value, and no secret is *)
(* an object.                                                                *)
LEMMA PreparedOwns ==
  ASSUME Base, NEW tool, Fit(tool), NEW args, NEW r, r.tool = tool,
         Prepared(tool, args, world.secrets).refused = "no",
         r.sent = Prepared(tool, args, world.secrets).args
  PROVE  Authoritative(r, world.secrets)
<1> DEFINE ready == Prepared(tool, args, world.secrets)
           missing == {n \in DOMAIN tool.patches :
                         Supplied(tool.patches[n]) /\ tool.patches[n].source \notin DOMAIN world.secrets}
           filled == Injected(tool.patches, Prefilled(tool, args), world.secrets)
<1>1. missing = {}
  BY DEF Prepared
<1>2. ready.args = filled
  BY <1>1 DEF Prepared
<1>3. Deployable(world)
  BY TheDeployment DEF Base
<1>4. \A n \in DOMAIN tool.patches : Supplied(tool.patches[n]) => ~IsObj(world.secrets[tool.patches[n].source])
  BY <1>1, <1>3 DEF Deployable
<1>5. QED BY <1>2, <1>4, OwnsAll

(* What is told of a call is its tool and what was made of its arguments.    *)
LEMMA ToldCall ==
  ASSUME NEW c, NEW kind, NEW ids, NEW more, NEW r, r = Tell(c, kind, ids, more),
         {"tool", "sent"} \subseteq DOMAIN more
  PROVE  r.tool = more.tool /\ r.sent = more.sent
<1>1. \A x \in DOMAIN more \ {"to", "kind", "ids"} : r[x] = more[x]
  BY TellSays
<1>2. r["tool"] = more["tool"] /\ r["sent"] = more["sent"]
  BY <1>1
<1>3. QED BY <1>2

LEMMA SendOwns ==
  ASSUME Base, NEW c, NEW tool, Fit(tool), NEW input, Send(c, tool, input)
  PROVE  call' = call \/ (call' # Nothing => Authoritative(call', world.secrets))
<1> DEFINE ready == Prepared(tool, input.args, world.secrets)
<1>1. CASE ready.refused # "no"
  BY <1>1 DEF Send, Quiet
<1>2. CASE ready.refused = "no"
  <2> DEFINE more == [tool |-> tool, input |-> input, sent |-> ready.args]
  <2>1. call' = Tell(c, "sent", {tool.id}, more)
    BY <1>2 DEF Send
  <2>2. {"tool", "sent"} \subseteq DOMAIN more /\ more.tool = tool /\ more.sent = ready.args
    OBVIOUS
  <2> HIDE DEF more
  <2>3. call'.tool = tool /\ call'.sent = ready.args
    BY <2>1, <2>2, ToldCall
  <2>4. QED BY <1>2, <2>3, PreparedOwns
<1>3. QED BY <1>1, <1>2

(* So does a step of a composite that goes out.                              *)
LEMMA AdvancedOwns ==
  ASSUME Base, NEW c, NEW wf, Advanced(c, wf)
  PROVE  call' # Nothing => Authoritative(call', world.secrets)
<1>1. CASE call' = Nothing
  BY <1>1
<1>2. ASSUME NEW id, NEW args, Answerable(c, id),
             Prepared(Def(cat, id), args, world.secrets).refused = "no",
             Goes(c, wf, Def(cat, id), Prepared(Def(cat, id), args, world.secrets))
      PROVE  Authoritative(call', world.secrets)
  <2> DEFINE tool == Def(cat, id)
             ready == Prepared(tool, args, world.secrets)
  <2>1. Fit(tool)
    BY <1>2, DefHasId DEF Answerable, Base, Wellformed
  <2>2. PICK more : /\ call' = Tell(c, "step", {tool.id}, more)
                    /\ {"tool", "sent"} \subseteq DOMAIN more /\ more.tool = tool /\ more.sent = ready.args
    BY <1>2 DEF Goes
  <2>3. call'.tool = tool /\ call'.sent = ready.args
    BY <2>2, ToldCall
  <2>4. QED BY <1>2, <2>1, <2>3, PreparedOwns
<1>3. QED BY <1>1, <1>2 DEF Advanced

(* Of the things a caller does only a call of a tool there is goes out.      *)
LEMMA UsesOwn ==
  ASSUME Base, NEW c, Uses(c)
  PROVE  call' = call \/ (call' # Nothing => Authoritative(call', world.secrets))
<1>1. CASE ListTools(c) \/ Search(c) \/ SourceMap(c) \/ \E id : Details(c, id)
  BY <1>1 DEF ListTools, Search, SourceMap, Details, Quiet
<1>2. ASSUME NEW id, Known(cat, id) PROVE Fit(Def(cat, id))
  BY <1>2, DefHasId DEF Base, Wellformed
<1>3. ASSUME NEW id, CallTool(c, id)
      PROVE  call' = call \/ (call' # Nothing => Authoritative(call', world.secrets))
  <2>1. CASE Quiet
    BY <2>1 DEF Quiet
  <2>2. CASE Answerable(c, id) /\ \E input \in world.inputs : Send(c, Def(cat, id), input)
    BY <1>2, <2>2, SendOwns DEF Answerable
  <2>3. CASE RunStep(c, WorkflowOf(id), 1)
    BY <2>3, RunStepAdvances, AdvancedOwns
  <2>4. QED BY <1>3, <2>1, <2>2, <2>3 DEF CallTool
<1>4. ASSUME NEW name, CallByName(c, name)
      PROVE  call' = call \/ (call' # Nothing => Authoritative(call', world.secrets))
  <2> DEFINE exposed == ExposedNames(cat)
  <2>1. exposed = Named(cat)
    BY <1>4 DEF CallByName, ExposedNames
  <2>2. CASE name \in DOMAIN exposed /\ Permits(c, exposed[name])
    <3>1. PICK input : Send(c, Def(cat, exposed[name]), input)
      BY <1>4, <2>2 DEF CallByName
    <3>2. Known(cat, exposed[name])
      BY <2>1, <2>2, NamesKnown DEF Base
    <3>3. QED BY <1>2, <3>1, <3>2, SendOwns
  <2>3. CASE ~(name \in DOMAIN exposed /\ Permits(c, exposed[name]))
    BY <1>4, <2>3 DEF CallByName, Quiet
  <2>4. QED BY <2>2, <2>3
<1>5. QED BY <1>1, <1>3, <1>4 DEF Uses

(* So a new call on the wire is one whose fields are filled.                 *)
LEMMA NextOwns ==
  ASSUME Base, Next
  PROVE  call' = call \/ (call' # Nothing => Authoritative(call', world.secrets))
<1>1. CASE Connect \/ Start \/ \E i \in DOMAIN ups : Reindex(i)
  BY <1>1 DEF Connect, Start, Reindex
<1>2. CASE Answer \/ ResolveSchema \/ Taken
  BY <1>2 DEF Answer, ResolveSchema, Taken, Quiet
<1>3. CASE StepAnswer
  BY <1>3, StepAnswerAdvances, AdvancedOwns
<1>4. QED BY <1>1, <1>2, <1>3, UsesOwn, PullsKeep DEF Next

(* A field the configuration takes from the agent goes out with its          *)
(* configured value, whatever the caller, a default or another field's       *)
(* patch put there (Surface::dispatch_reach, set_at).                        *)
THEOREM SecretsAuthoritative == Spec => []SecretAuthoritative
<1>1. SecretAuthoritative <=> (call # Nothing => Authoritative(call, world.secrets))
  BY DEF SecretAuthoritative, Authoritative
<1>2. Init => SecretAuthoritative
  BY DEF Init, SecretAuthoritative
<1>3. Base /\ SecretAuthoritative /\ [Next]_vars => SecretAuthoritative'
  <2> SUFFICES ASSUME Base, SecretAuthoritative, [Next]_vars PROVE SecretAuthoritative'
    OBVIOUS
  <2>1. call' # Nothing => Authoritative(call', world.secrets)
    <3>1. CASE UNCHANGED vars
      BY <1>1, <3>1 DEF vars
    <3>2. CASE Next
      BY <1>1, <3>2, NextOwns
    <3>3. QED BY <3>1, <3>2
  <2>2. world' = world
    BY WorldStays
  <2>3. QED BY <2>1, <2>2 DEF SecretAuthoritative, Authoritative
<1>4. QED BY <1>2, <1>3, AlwaysBase, PTL DEF Spec
=============================================================================
