----------------------- MODULE StagingExchangeProofs -----------------------
(***************************************************************************)
(* ExchangeInv is an inductive invariant of StagingExchange, whatever      *)
(* the paths, the sizes, the policy and the archives; InputIsRestored and  *)
(* OutputIsPublished are two of its conjuncts.                             *)
(*                                                                         *)
(* UnpackWithPolicy decides on an entry by what it remembers of those      *)
(* before it (Admits), and Coherent says of a whole archive, in no order,  *)
(* what it may hold.  Joins is what both come to for one entry: to admit   *)
(* it, to keep what was read coherent, and to be part of a coherent        *)
(* archive are the same.  So the agent refuses just the archives that are  *)
(* not coherent, and reads one as often as it likes with one result.       *)
(*                                                                         *)
(* PackWithPolicy's counts are those of a part of the tree, which a tree   *)
(* within the policy bounds; and a tree that is packed in full is what its *)
(* archive denotes.                                                        *)
(***************************************************************************)
EXTENDS StagingExchange, FiniteSetTheorems, SequenceTheorems, TLAPS

USE DEF vars, reader

-----------------------------------------------------------------------------
(* Sums of sizes.                                                          *)

\* What one entry or node contributes,
Share(f, x) == {x} \X (1..f[x].size)

\* which is as much as its size.
LEMMA ShareSize ==
  ASSUME NEW f, NEW x, f[x].size \in Nat
  PROVE  IsFiniteSet(Share(f, x)) /\ Cardinality(Share(f, x)) = f[x].size
<1>1. ASSUME NEW n \in Nat
      PROVE  IsFiniteSet({x} \X (1..n)) /\ Cardinality({x} \X (1..n)) = n
  <2>1. IsFiniteSet({x}) /\ Cardinality({x}) = 1
    BY FS_Singleton
  <2>2. IsFiniteSet(1..n) /\ Cardinality(1..n) = n
    <3>1. 1 \in Int /\ n \in Int
      OBVIOUS
    <3>2. Cardinality(1..n) = IF 1 > n THEN 0 ELSE n - 1 + 1
      BY <3>1, FS_Interval
    <3> QED BY <3>1, <3>2, FS_Interval
  <2>3. /\ IsFiniteSet({x} \X (1..n))
        /\ Cardinality({x} \X (1..n)) = Cardinality({x}) * Cardinality(1..n)
    BY <2>1, <2>2, FS_Product
  <2> QED BY <2>1, <2>2, <2>3
<1> QED BY <1>1 DEF Share

\* and all of them together.
Shares(f) == UNION {Share(f, x) : x \in DOMAIN f}

\* The sum of finitely many sizes is one: entry.Size adds up to a total.
LEMMA PayloadType ==
  ASSUME NEW f, IsFiniteSet(DOMAIN f), \A x \in DOMAIN f : f[x].size \in Nat
  PROVE  IsFiniteSet(Shares(f)) /\ Payload(f) = Cardinality(Shares(f)) /\ Payload(f) \in Nat
<1> DEFINE D == DOMAIN f
           S == {Share(f, x) : x \in D}
           g == [x \in D |-> Share(f, x)]
<1>1. IsFiniteSet(S)
  <2>1. g \in Surjection(D, S)
    BY DEF Surjection
  <2> HIDE DEF g, S
  <2> QED BY <2>1, FS_Surjection
<1>2. \A T \in S : IsFiniteSet(T)
  BY ShareSize
<1>3. IsFiniteSet(UNION S)
  <2> HIDE DEF S
  <2> QED BY <1>1, <1>2, FS_UNION
<1>4. Payload(f) = Cardinality(Shares(f))
  BY DEF Payload, Shares, Share
<1> QED BY <1>3, <1>4, FS_CardinalityType DEF Shares

\* A part has no more than the whole: why the policy bounds PackWithPolicy's running total.
LEMMA PayloadOfPart ==
  ASSUME NEW f, IsFiniteSet(DOMAIN f), \A x \in DOMAIN f : f[x].size \in Nat,
         NEW g, DOMAIN g \subseteq DOMAIN f, \A x \in DOMAIN g : g[x].size = f[x].size
  PROVE  Payload(g) \in Nat /\ Payload(g) <= Payload(f)
<1>1. IsFiniteSet(DOMAIN g) /\ \A x \in DOMAIN g : g[x].size \in Nat
  BY FS_Subset
<1>2. Shares(g) \subseteq Shares(f)
  BY DEF Shares, Share
<1>3. /\ IsFiniteSet(Shares(f)) /\ Payload(f) = Cardinality(Shares(f))
      /\ Payload(g) = Cardinality(Shares(g)) /\ Payload(g) \in Nat
  BY <1>1, PayloadType
<1> QED BY <1>2, <1>3, FS_Subset

\* One more adds its size, as `total += entry size` does.
LEMMA PayloadOfMore ==
  ASSUME NEW f, IsFiniteSet(DOMAIN f), \A x \in DOMAIN f : f[x].size \in Nat,
         NEW g, NEW y, DOMAIN g = DOMAIN f \cup {y}, y \notin DOMAIN f,
         \A x \in DOMAIN f : g[x].size = f[x].size, g[y].size \in Nat
  PROVE  Payload(g) = Payload(f) + g[y].size /\ Payload(f) \in Nat
<1>1. IsFiniteSet(DOMAIN g) /\ \A x \in DOMAIN g : g[x].size \in Nat
  BY FS_AddElement
<1>2. Shares(g) = Shares(f) \cup Share(g, y)
  <2>1. \A x \in DOMAIN f : Share(g, x) = Share(f, x)
    BY DEF Share
  <2> QED BY <2>1 DEF Shares
<1>3. Shares(f) \cap Share(g, y) = {}
  BY DEF Shares, Share
<1>4. /\ IsFiniteSet(Shares(f)) /\ Payload(f) = Cardinality(Shares(f)) /\ Payload(f) \in Nat
      /\ Payload(g) = Cardinality(Shares(g))
  BY <1>1, PayloadType
<1>5. IsFiniteSet(Share(g, y)) /\ Cardinality(Share(g, y)) = g[y].size
  BY ShareSize
<1>6. Cardinality(Shares(g)) = Cardinality(Shares(f)) + Cardinality(Share(g, y)) - Cardinality({})
  BY <1>2, <1>3, <1>4, <1>5, FS_Union
<1> QED BY <1>4, <1>5, <1>6, FS_EmptySet

\* Nothing has none: the total of a walk that begins.
LEMMA PayloadOfNothing == ASSUME NEW f, DOMAIN f = {} PROVE Payload(f) = 0
BY FS_EmptySet DEF Payload

-----------------------------------------------------------------------------
(* Entries.                                                                *)

\* What a server or a tar may write: a size, a type, and a name that is a path, the
\* root, or one that validName refuses; a directory with a size is the other exception.
LEMMA EntryFacts ==
  ASSUME NEW e \in Foreign
  PROVE  /\ e.size \in Nat /\ e.kind \in {"dir", "file", "other"}
         /\ e = EntryOf(e.name, e)
         /\ e.name \in Paths \cup {Root} \/ e.name = Illegal \/ (e.kind = "dir" /\ e.size # 0)
BY PolicyAssumption DEF Foreign, EntryOf, Nodes, Directory, Other, File

\* What os.Lstat finds in a workspace, by its type.
LEMMA NodeFacts ==
  ASSUME NEW n \in Nodes \cup {Nothing}
  PROVE  /\ n.size \in Nat /\ n = [kind |-> n.kind, size |-> n.size]
         /\ n.kind = "none" <=> n = Nothing
         /\ n.kind = "other" <=> n = Other
         /\ n.kind = "dir" <=> n = Directory
         /\ n.kind \in {"dir", "file", "other", "none"}
BY PolicyAssumption DEF Nodes, Nothing, Directory, Other, File

\* What PackWithPolicy writes is an entry, and UnpackWithPolicy does not skip it.
LEMMA PackedFacts ==
  ASSUME NEW p \in Paths, NEW n \in Nodes
  PROVE  EntryOf(p, n) \in Foreign /\ ~Skipped(EntryOf(p, n))
BY PathsAssumption DEF Foreign, Skipped, EntryOf, Root

\* The total of UnpackWithPolicy and PackWithPolicy, entry by entry.
LEMMA PayloadGrows ==
  ASSUME NEW es \in Seq(Foreign), NEW fs \in Seq(Foreign), Len(fs) = Len(es) + 1,
         \A i \in 1..Len(es) : fs[i] = es[i]
  PROVE  Payload(es) \in Nat /\ Payload(fs) = Payload(es) + fs[Len(fs)].size
<1>1. /\ DOMAIN es = 1..Len(es) /\ DOMAIN fs = 1..Len(fs) /\ Len(es) \in Nat
      /\ fs[Len(fs)] \in Foreign
  OBVIOUS
<1>2. IsFiniteSet(DOMAIN es) /\ Len(fs) \notin DOMAIN es /\ DOMAIN fs = DOMAIN es \cup {Len(fs)}
  <2>1. 1 \in Int /\ Len(es) \in Int
    BY <1>1
  <2>2. IsFiniteSet(1..Len(es))
    BY <2>1, FS_Interval
  <2>3. Len(fs) \notin 1..Len(es) /\ 1..Len(fs) = 1..Len(es) \cup {Len(fs)}
    BY <1>1
  <2> QED BY <1>1, <2>2, <2>3
<1>3. \A x \in DOMAIN es : es[x].size \in Nat /\ fs[x].size = es[x].size
  BY <1>1, EntryFacts
<1>4. fs[Len(fs)].size \in Nat
  BY <1>1, EntryFacts
<1> QED BY <1>2, <1>3, <1>4, PayloadOfMore

\* An entry more.
Grows(es, e, fs) == fs = Append(es, e)

\* What it means besides what was there: nothing, when UnpackWithPolicy skips it.
LEMMA MoreEntries ==
  ASSUME NEW es \in Seq(Foreign), NEW e \in Foreign, NEW fs, Grows(es, e, fs)
  PROVE  /\ fs \in Seq(Foreign) /\ Len(fs) = Len(es) + 1 /\ Len(es) \in Nat
         /\ fs[Len(es) + 1] = e /\ \A i \in 1..Len(es) : fs[i] = es[i]
         /\ Payload(es) \in Nat /\ Payload(fs) = Payload(es) + e.size
         /\ Skipped(e) => /\ Named(fs) = Named(es) /\ Names(fs) = Names(es)
                          /\ Files(fs) = Files(es) /\ Implied(fs) = Implied(es)
         /\ ~Skipped(e) =>
              /\ Named(fs) = Named(es) \cup {Len(es) + 1} /\ Names(fs) = Names(es) \cup {e.name}
              /\ Files(fs) = Files(es) \cup (IF e.kind = "file" THEN {e.name} ELSE {})
              /\ Implied(fs) = Implied(es) \cup Parents(e.name)
<1>1. /\ fs \in Seq(Foreign) /\ Len(fs) = Len(es) + 1 /\ Len(es) \in Nat
      /\ fs[Len(es) + 1] = e /\ \A i \in 1..Len(es) : fs[i] = es[i]
      /\ DOMAIN es = 1..Len(es) /\ DOMAIN fs = DOMAIN es \cup {Len(es) + 1}
  BY DEF Grows
<1>2. Payload(es) \in Nat /\ Payload(fs) = Payload(es) + e.size
  BY <1>1, PayloadGrows
<1>3. /\ Skipped(e) => Named(fs) = Named(es)
      /\ ~Skipped(e) => Named(fs) = Named(es) \cup {Len(es) + 1}
      /\ \A i \in Named(es) : fs[i] = es[i] /\ i \in 1..Len(es)
  BY <1>1 DEF Named
<1>4. ASSUME Skipped(e)
      PROVE  Names(fs) = Names(es) /\ Files(fs) = Files(es) /\ Implied(fs) = Implied(es)
  <2>1. Names(fs) = Names(es) /\ Files(fs) = Files(es)
    BY <1>3, <1>4 DEF Names, Files
  <2> QED BY <2>1 DEF Implied
<1>5. ASSUME ~Skipped(e)
      PROVE  /\ Names(fs) = Names(es) \cup {e.name}
             /\ Files(fs) = Files(es) \cup (IF e.kind = "file" THEN {e.name} ELSE {})
             /\ Implied(fs) = Implied(es) \cup Parents(e.name)
  <2>1. Names(fs) = Names(es) \cup {e.name}
    BY <1>1, <1>3, <1>5 DEF Names
  <2>2. Files(fs) = Files(es) \cup (IF e.kind = "file" THEN {e.name} ELSE {})
    BY <1>1, <1>3, <1>5 DEF Files
  <2>3. Implied(fs) = Implied(es) \cup Parents(e.name)
    BY <2>1 DEF Implied
  <2> QED BY <2>1, <2>2, <2>3
<1> QED BY <1>1, <1>2, <1>3, <1>4, <1>5

\* The first entries of an archive, and one more of them.
First(es, k, fs) == fs = SubSeq(es, 1, k)

\* UnpackWithPolicy reads an archive from its first entry to its last.
LEMMA FirstEntries ==
  ASSUME NEW es \in Seq(Foreign), NEW k \in 0..Len(es), NEW fs, First(es, k, fs)
  PROVE  /\ fs \in Seq(Foreign) /\ Len(fs) = k /\ \A i \in 1..k : fs[i] = es[i]
         /\ k = 0 => fs = <<>>
         /\ k = Len(es) => fs = es
         /\ k < Len(es) => /\ es[k + 1] \in Foreign /\ k + 1 \in 0..Len(es)
                           /\ \A gs : First(es, k + 1, gs) => Grows(fs, es[k + 1], gs)
<1>1. Len(es) \in Nat /\ k \in Nat /\ k <= Len(es) /\ \A i \in 1..Len(es) : es[i] \in Foreign
  OBVIOUS
<1>2. \A n \in Nat : n <= Len(es) =>
        /\ SubSeq(es, 1, n) \in Seq(Foreign) /\ Len(SubSeq(es, 1, n)) = n
        /\ \A i \in 1..n : SubSeq(es, 1, n)[i] = es[i]
  <2> SUFFICES ASSUME NEW n \in Nat, n <= Len(es)
               PROVE  /\ SubSeq(es, 1, n) \in Seq(Foreign) /\ Len(SubSeq(es, 1, n)) = n
                      /\ \A i \in 1..n : SubSeq(es, 1, n)[i] = es[i]
    OBVIOUS
  <2>1. 1 \in Int /\ n \in Int /\ \A i \in 1..n : es[i] \in Foreign
    BY <1>1
  <2>2. /\ SubSeq(es, 1, n) \in Seq(Foreign)
        /\ Len(SubSeq(es, 1, n)) = IF 1 <= n THEN n - 1 + 1 ELSE 0
        /\ \A i \in 1..(n - 1 + 1) : SubSeq(es, 1, n)[i] = es[1 + i - 1]
    BY <2>1, SubSeqProperties
  <2> QED BY <2>1, <2>2
<1>3. fs \in Seq(Foreign) /\ Len(fs) = k /\ \A i \in 1..k : fs[i] = es[i]
  BY <1>1, <1>2 DEF First
<1>4. k = 0 => fs = <<>>
  BY <1>3
<1>5. k = Len(es) => fs = es
  BY <1>3, SeqEqual
<1>6. ASSUME k < Len(es)
      PROVE  /\ es[k + 1] \in Foreign /\ k + 1 \in 0..Len(es)
             /\ Grows(fs, es[k + 1], SubSeq(es, 1, k + 1))
  <2> DEFINE gs == SubSeq(es, 1, k + 1)
             hs == Append(fs, es[k + 1])
  <2>1. k + 1 \in Nat /\ k + 1 <= Len(es) /\ es[k + 1] \in Foreign
    BY <1>1, <1>6
  <2>2. gs \in Seq(Foreign) /\ Len(gs) = k + 1 /\ \A i \in 1..(k + 1) : gs[i] = es[i]
    BY <1>2, <2>1
  <2>3. hs \in Seq(Foreign) /\ Len(hs) = k + 1 /\ \A i \in 1..(k + 1) : hs[i] = es[i]
    BY <1>1, <1>3, <2>1
  <2> HIDE DEF gs, hs
  <2>4. gs = hs
    BY <2>2, <2>3, SeqEqual
  <2> QED BY <2>1, <2>4 DEF gs, hs, Grows
<1> QED BY <1>3, <1>4, <1>5, <1>6 DEF First

\* What the entries that UnpackWithPolicy has read mean is part of what all of them mean.
LEMMA FirstMean ==
  ASSUME NEW es \in Seq(Foreign), NEW k \in 0..Len(es), NEW fs, First(es, k, fs)
  PROVE  /\ Named(fs) \subseteq Named(es) /\ Names(fs) \subseteq Names(es)
         /\ Files(fs) \subseteq Files(es) /\ Implied(fs) \subseteq Implied(es)
         /\ \A i \in Named(fs) : fs[i] = es[i] /\ i \in 1..k
         /\ Payload(fs) \in Nat /\ Payload(es) \in Nat /\ Payload(fs) <= Payload(es)
<1>1. fs \in Seq(Foreign) /\ Len(fs) = k /\ \A i \in 1..k : fs[i] = es[i]
  BY FirstEntries
<1>2. /\ DOMAIN es = 1..Len(es) /\ DOMAIN fs = 1..k /\ Len(es) \in Nat /\ k \in 0..Len(es)
      /\ DOMAIN fs \subseteq DOMAIN es
  BY <1>1
<1>3. Named(fs) \subseteq Named(es) /\ \A i \in Named(fs) : fs[i] = es[i] /\ i \in 1..k
  BY <1>1, <1>2 DEF Named
<1>4. Names(fs) \subseteq Names(es) /\ Files(fs) \subseteq Files(es)
  BY <1>3 DEF Names, Files
<1>5. Implied(fs) \subseteq Implied(es)
  BY <1>4 DEF Implied
<1>6. Payload(fs) \in Nat /\ Payload(es) \in Nat /\ Payload(fs) <= Payload(es)
  <2>1. IsFiniteSet(DOMAIN es)
    <3>1. 1 \in Int /\ Len(es) \in Int
      OBVIOUS
    <3> QED BY <1>2, <3>1, FS_Interval
  <2>2. \A x \in DOMAIN es : es[x].size \in Nat
    BY <1>2, EntryFacts
  <2>3. \A x \in DOMAIN fs : fs[x].size = es[x].size
    BY <1>1, <1>2
  <2> QED BY <1>2, <2>1, <2>2, <2>3, PayloadOfPart, PayloadType
<1> QED BY <1>3, <1>4, <1>5, <1>6

\* Coherent entries name paths of the workspace, or the root, and are few: a header
\* whose name validName refuses is not one of them.
LEMMA CoherentNames ==
  ASSUME NEW es \in Seq(Foreign), Coherent(es)
  PROVE  /\ Names(es) \subseteq Paths \cup {Root} /\ Implied(es) \subseteq Paths
         /\ Files(es) \subseteq Names(es)
         /\ IsFiniteSet(Names(es) \cup Implied(es))
<1>1. Names(es) \subseteq Paths \cup {Root}
  <2>1. \A i \in Named(es) : es[i].name \in Paths \cup {Root}
    <3> TAKE i \in Named(es)
    <3>1. es[i] \in Foreign /\ es[i].name \in Names(es)
      BY DEF Named, Names
    <3> QED BY <3>1, EntryFacts DEF Coherent
  <2> QED BY <2>1 DEF Names
<1>2. Parents(Root) = {}
  BY DEF Parents, Root
<1>3. Implied(es) \subseteq Paths
  BY <1>1, <1>2, PathsAssumption DEF Implied
<1>4. Files(es) \subseteq Names(es)
  BY DEF Files, Names
<1>5. IsFiniteSet(Paths \cup {Root})
  BY PathsAssumption, FS_AddElement
<1>6. IsFiniteSet(Names(es) \cup Implied(es))
  BY <1>1, <1>3, <1>5, FS_Subset
<1> QED BY <1>1, <1>3, <1>4, <1>6

-----------------------------------------------------------------------------
(* Entries that join others.                                               *)

\* What an entry has to be, not to contradict those before it.
Joins(es, e) ==
  /\ e.name \notin Names(es) /\ e.name # Illegal
  /\ e.kind = "file" \/ (e.kind = "dir" /\ e.size = 0)
  /\ e.name \in Implied(es) => e.kind = "dir"
  /\ Parents(e.name) \cap Files(es) = {}
  /\ Cardinality(Names(es) \cup Implied(es) \cup {e.name} \cup Parents(e.name)) <= Entries
  /\ Payload(es) + e.size <= PayloadBytes

\* It is a path of the workspace, or the root, and so are the parents that
\* validateEntry looks at.
LEMMA JoinedName ==
  ASSUME NEW es, NEW e \in Foreign, Joins(es, e)
  PROVE  /\ e.name \in Paths \cup {Root} /\ Parents(e.name) \subseteq Paths
         /\ e.name \notin Parents(e.name)
<1>1. e.name \in Paths \cup {Root}
  BY EntryFacts DEF Joins
<1>2. Parents(Root) = {}
  BY DEF Parents, Root
<1> QED BY <1>1, <1>2, PathsAssumption

\* What UnpackWithPolicy has read and an entry that joins it are coherent together,
LEMMA JoinedAreCoherent ==
  ASSUME NEW es \in Seq(Foreign), NEW e \in Foreign, NEW fs, Grows(es, e, fs),
         Coherent(es), ~Skipped(e), Joins(es, e)
  PROVE  Coherent(fs)
<1>1. /\ Named(fs) = Named(es) \cup {Len(es) + 1} /\ Names(fs) = Names(es) \cup {e.name}
      /\ Files(fs) = Files(es) \cup (IF e.kind = "file" THEN {e.name} ELSE {})
      /\ Implied(fs) = Implied(es) \cup Parents(e.name)
      /\ fs[Len(es) + 1] = e /\ \A i \in 1..Len(es) : fs[i] = es[i]
      /\ Payload(fs) = Payload(es) + e.size
  BY MoreEntries
<1>2. \A i \in Named(es) : fs[i] = es[i] /\ es[i].name \in Names(es)
  BY <1>1 DEF Named, Names
<1>3. \A i \in Named(fs) : fs[i].kind = "file" \/ (fs[i].kind = "dir" /\ fs[i].size = 0)
  BY <1>1, <1>2 DEF Coherent, Joins
<1>4. \A i, j \in Named(fs) : fs[i].name = fs[j].name => i = j
  <2>1. \A i, j \in Named(es) : es[i].name = es[j].name => i = j
    BY DEF Coherent
  <2>2. \A i \in Named(es) : es[i].name # e.name
    BY <1>2 DEF Joins
  <2> QED BY <1>1, <1>2, <2>1, <2>2
<1>5. Files(fs) \cap Implied(fs) = {}
  BY <1>1, JoinedName DEF Coherent, Joins
<1>6. Names(fs) \cup Implied(fs) = Names(es) \cup Implied(es) \cup {e.name} \cup Parents(e.name)
  BY <1>1
<1> QED BY <1>1, <1>3, <1>4, <1>5, <1>6 DEF Coherent, Joins

\* and no entry that does not join is part of a coherent archive.
LEMMA CoherentJoin ==
  ASSUME NEW all \in Seq(Foreign), NEW k \in 0..Len(all), k < Len(all), NEW es, First(all, k, es),
         ~Skipped(all[k + 1]), Coherent(all)
  PROVE  Joins(es, all[k + 1])
<1> DEFINE e == all[k + 1]
<1>0. PICK fs : First(all, k + 1, fs)
  BY DEF First
<1>1. /\ es \in Seq(Foreign) /\ Len(es) = k /\ \A i \in 1..k : es[i] = all[i]
      /\ Grows(es, e, fs) /\ e \in Foreign /\ k + 1 \in 0..Len(all)
  BY <1>0, FirstEntries
<1> HIDE DEF e
<1>2. /\ Names(fs) = Names(es) \cup {e.name}
      /\ Files(fs) = Files(es) \cup (IF e.kind = "file" THEN {e.name} ELSE {})
      /\ Implied(fs) = Implied(es) \cup Parents(e.name)
      /\ Payload(fs) = Payload(es) + e.size
      /\ Named(fs) = Named(es) \cup {k + 1}
  <2>1. ~Skipped(e)
    BY DEF e
  <2> QED BY <1>1, <2>1, MoreEntries
<1>3. /\ Named(fs) \subseteq Named(all) /\ Names(fs) \subseteq Names(all)
      /\ Files(fs) \subseteq Files(all) /\ Implied(fs) \subseteq Implied(all)
      /\ Payload(fs) <= Payload(all) /\ Payload(fs) \in Nat /\ Payload(all) \in Nat
  BY <1>0, <1>1, FirstMean
<1>4. /\ k + 1 \in Named(all) /\ all[k + 1] = e
      /\ \A i \in Named(es) : i \in Named(all) /\ all[i] = es[i] /\ i \in 1..k
  BY <1>1, <1>2, <1>3 DEF Named, e
<1>5. e.name \notin Names(es)
  BY <1>4 DEF Names, Coherent
<1>6. e.name # Illegal
  BY <1>2, <1>3 DEF Coherent
<1>7. e.kind = "file" \/ (e.kind = "dir" /\ e.size = 0)
  BY <1>4 DEF Coherent
<1>8. e.name \in Implied(es) => e.kind = "dir"
  BY <1>2, <1>3, <1>7 DEF Coherent
<1>9. Parents(e.name) \cap Files(es) = {}
  BY <1>2, <1>3 DEF Coherent
<1>10. Cardinality(Names(es) \cup Implied(es) \cup {e.name} \cup Parents(e.name)) <= Entries
  <2> DEFINE some  == Names(es) \cup Implied(es) \cup {e.name} \cup Parents(e.name)
             whole == Names(all) \cup Implied(all)
  <2>1. some \subseteq whole /\ IsFiniteSet(whole) /\ Cardinality(whole) <= Entries
    BY <1>2, <1>3, CoherentNames DEF Coherent
  <2> HIDE DEF some, whole
  <2>2. /\ IsFiniteSet(some) /\ Cardinality(some) <= Cardinality(whole)
        /\ Cardinality(some) \in Nat /\ Cardinality(whole) \in Nat
    BY <2>1, FS_Subset, FS_CardinalityType
  <2>3. Cardinality(some) <= Entries
    BY <2>1, <2>2, PolicyAssumption
  <2> QED BY <2>3 DEF some
<1>11. Payload(es) + e.size <= PayloadBytes
  BY <1>2, <1>3, PolicyAssumption DEF Coherent
<1> QED BY <1>5, <1>6, <1>7, <1>8, <1>9, <1>10, <1>11 DEF Joins, e

\* What the map `seen` of UnpackWithPolicy holds after an entry more.
LEMMA KnownMore ==
  ASSUME ReadInv, Unpacking, NEW e \in Foreign, e.name \in Paths \cup {Root},
         Parents(e.name) \subseteq Paths
  PROVE  /\ Known(SeenWith(e)) = Known(seen) \cup {e.name} \cup Parents(e.name)
         /\ DOMAIN SeenWith(e) = DOMAIN seen \cup {e.name}
<1>1. e.kind # "none"
  BY EntryFacts
<1>2. [kind |-> e.kind, size |-> 0] # Nothing /\ Directory # Nothing
  BY <1>1 DEF Nothing, Directory
<1>3. Paths \subseteq DOMAIN seen
  BY DEF ReadInv
<1> QED BY <1>2, <1>3 DEF Known, SeenWith, Marked

\* The agent admits the entries that join those it has read, and no other.
LEMMA AdmitsJoining ==
  ASSUME FlowInv, ReadInv, Unpacking, pos < Len(archive.entries), ~Skipped(Current)
  PROVE  Admits(Current) <=> Joins(ReadSoFar, Current)
<1> DEFINE e  == Current
           es == ReadSoFar
<1>1. /\ archive.entries \in Seq(Foreign) /\ pos \in 0..Len(archive.entries)
      /\ e \in Foreign /\ es \in Seq(Foreign)
  <2>1. archive.entries \in Seq(Foreign) /\ pos \in 0..Len(archive.entries)
    BY DEF FlowInv, ReadInv
  <2>2. First(archive.entries, pos, es)
    BY DEF First, ReadSoFar
  <2> HIDE DEF es
  <2> QED BY <2>1, <2>2, FirstEntries DEF Current
<1>2. /\ Coherent(es) /\ declared = Names(es) /\ total = Payload(es)
      /\ Known(seen) = Names(es) \cup Implied(es)
      /\ \A p \in Known(seen) : seen[p] = IF p \in Files(es) THEN File(0) ELSE Directory
  BY DEF ReadInv
<1>3. /\ Files(es) \subseteq Names(es) /\ Files(es) \cap Implied(es) = {}
      /\ total \in Nat /\ total <= PayloadBytes /\ e.size \in Nat /\ PayloadBytes \in Nat
  <2>1. First(archive.entries, pos, es)
    BY DEF First, ReadSoFar
  <2> HIDE DEF e, es
  <2>2. Payload(es) \in Nat
    BY <1>1, <2>1, FirstMean
  <2>3. Files(es) \subseteq Names(es)
    BY <1>1, <1>2, CoherentNames
  <2>4. e.size \in Nat
    BY <1>1, EntryFacts
  <2> QED BY <1>2, <2>2, <2>3, <2>4, PolicyAssumption DEF Coherent
<1>4. \A p \in Known(seen) : seen[p] = Directory <=> p \notin Files(es)
  BY <1>2 DEF File, Directory
<1>5. e.size <= PayloadBytes - total <=> Payload(es) + e.size <= PayloadBytes
  BY <1>2, <1>3
<1> HIDE DEF e, es
<1>6. ASSUME Admits(e) PROVE Joins(es, e)
  <2>1. e.name \in Paths \cup {Root} /\ Parents(e.name) \subseteq Paths
    <3>1. Parents(Root) = {}
      BY DEF Parents, Root
    <3> QED BY <1>1, <1>6, <3>1, EntryFacts, PathsAssumption DEF Admits
  <2>2. Known(SeenWith(e)) = Names(es) \cup Implied(es) \cup {e.name} \cup Parents(e.name)
    BY <1>1, <1>2, <2>1, KnownMore
  <2> QED BY <1>2, <1>3, <1>4, <1>5, <1>6, <2>2 DEF Admits, Joins
<1>7. ASSUME Joins(es, e) PROVE Admits(e)
  <2>1. Known(SeenWith(e)) = Names(es) \cup Implied(es) \cup {e.name} \cup Parents(e.name)
    BY <1>1, <1>2, <1>7, KnownMore, JoinedName
  <2> QED BY <1>2, <1>3, <1>4, <1>5, <1>7, <2>1 DEF Admits, Joins
<1> QED BY <1>6, <1>7 DEF e, es

\* The workspace a coherent archive denotes: its files and directories, and the parents
\* that restoreEntry makes with MkdirAll.
LEMMA DenotedFacts ==
  ASSUME NEW es \in Seq(Foreign), Coherent(es)
  PROVE  /\ Denoted(es) \in [Paths -> Nodes \cup {Nothing}]
         /\ \A i \in Named(es) : es[i].name \in Paths =>
              Denoted(es)[es[i].name] = [kind |-> es[i].kind, size |-> es[i].size]
         /\ \A p \in Paths \ Names(es) :
              Denoted(es)[p] = IF p \in Implied(es) THEN Directory ELSE Nothing
         /\ \A p \in Paths : /\ Denoted(es)[p].kind = "file" <=> p \in Files(es)
                             /\ Denoted(es)[p] = Nothing <=> p \notin Names(es) \cup Implied(es)
<1>1. \A i \in Named(es) : es[i].name \in Paths =>
        Denoted(es)[es[i].name] = [kind |-> es[i].kind, size |-> es[i].size]
  <2> SUFFICES ASSUME NEW i \in Named(es), es[i].name \in Paths
               PROVE  Denoted(es)[es[i].name] = [kind |-> es[i].kind, size |-> es[i].size]
    OBVIOUS
  <2>1. \A j \in Named(es) : es[j].name = es[i].name => j = i
    BY DEF Coherent
  <2>2. (CHOOSE j \in Named(es) : es[j].name = es[i].name) = i
    BY <2>1
  <2> QED BY <2>2 DEF Denoted
<1>2. \A p \in Paths \ Names(es) :
        Denoted(es)[p] = IF p \in Implied(es) THEN Directory ELSE Nothing
  BY DEF Denoted, Names
<1>3. \A i \in Named(es) : [kind |-> es[i].kind, size |-> es[i].size] \in Nodes
  <2> SUFFICES ASSUME NEW i \in Named(es)
               PROVE  [kind |-> es[i].kind, size |-> es[i].size] \in Nodes
    OBVIOUS
  <2>1. es[i] \in Foreign /\ (es[i].kind = "file" \/ (es[i].kind = "dir" /\ es[i].size = 0))
    BY DEF Named, Coherent
  <2> QED BY <2>1 DEF Foreign, EntryOf, Nodes, File, Directory, Other
<1>4. \A p \in Paths : \/ p \notin Names(es)
                       \/ \E i \in Named(es) : p = es[i].name
  BY DEF Names
<1>5. Denoted(es) \in [Paths -> Nodes \cup {Nothing}]
  <2>1. \A p \in Paths : Denoted(es)[p] \in Nodes \cup {Nothing}
    <3> SUFFICES ASSUME NEW p \in Paths PROVE Denoted(es)[p] \in Nodes \cup {Nothing}
      OBVIOUS
    <3>1. Directory \in Nodes
      BY DEF Nodes
    <3>2. CASE p \notin Names(es)
      BY <1>2, <3>1, <3>2
    <3>3. ASSUME NEW i \in Named(es), p = es[i].name
          PROVE  Denoted(es)[p] \in Nodes
      BY <1>1, <1>3, <3>3
    <3> QED BY <1>4, <3>2, <3>3
  <2>2. Denoted(es) = [p \in Paths |-> Denoted(es)[p]]
    BY DEF Denoted
  <2> QED BY <2>1, <2>2
<1>6. ASSUME NEW p \in Paths
      PROVE  /\ Denoted(es)[p].kind = "file" <=> p \in Files(es)
             /\ Denoted(es)[p] = Nothing <=> p \notin Names(es) \cup Implied(es)
  <2>1. CASE p \notin Names(es)
    <3>1. p \notin Files(es)
      BY <2>1, CoherentNames
    <3> QED BY <1>2, <2>1, <3>1 DEF Directory, Nothing
  <2>2. ASSUME NEW i \in Named(es), p = es[i].name
        PROVE  /\ Denoted(es)[p].kind = "file" <=> p \in Files(es)
               /\ Denoted(es)[p] # Nothing /\ p \in Names(es)
    <3>1. Denoted(es)[p] = [kind |-> es[i].kind, size |-> es[i].size]
      BY <1>1, <2>2
    <3>2. p \in Files(es) <=> es[i].kind = "file"
      BY <2>2 DEF Files, Coherent
    <3>3. es[i].kind # "none"
      BY DEF Coherent
    <3> QED BY <2>2, <3>1, <3>2, <3>3 DEF Nothing, Names
  <2> QED BY <1>4, <2>1, <2>2
<1> QED BY <1>1, <1>2, <1>5, <1>6

\* What restoreEntry adds is what the entry adds to the meaning of the archive.
LEMMA RestoredMore ==
  ASSUME NEW es \in Seq(Foreign), NEW e \in Foreign, NEW fs, Grows(es, e, fs),
         Coherent(es), ~Skipped(e), Joins(es, e), tree = Denoted(es)
  PROVE  TreeWith(e) = Denoted(fs)
<1>1. /\ fs \in Seq(Foreign) /\ Coherent(fs)
      /\ Named(fs) = Named(es) \cup {Len(es) + 1} /\ Names(fs) = Names(es) \cup {e.name}
      /\ Implied(fs) = Implied(es) \cup Parents(e.name)
      /\ fs[Len(es) + 1] = e /\ \A i \in 1..Len(es) : fs[i] = es[i]
  BY MoreEntries, JoinedAreCoherent
<1>2. ASSUME NEW p \in Paths
      PROVE  TreeWith(e)[p] = Denoted(fs)[p]
  <2>1. CASE p = e.name
    <3>1. Denoted(fs)[p] = [kind |-> e.kind, size |-> e.size]
      BY <1>1, <2>1, DenotedFacts
    <3> QED BY <2>1, <3>1 DEF TreeWith
  <2>2. CASE p # e.name /\ p \notin Names(es)
    <3>1. Denoted(fs)[p] = IF p \in Implied(fs) THEN Directory ELSE Nothing
      BY <1>1, <2>2, DenotedFacts
    <3>2. tree[p] = IF p \in Implied(es) THEN Directory ELSE Nothing
      BY <2>2, DenotedFacts
    <3> QED BY <1>1, <2>2, <3>1, <3>2 DEF TreeWith
  <2>3. ASSUME p # e.name, NEW i \in Named(es), p = es[i].name
        PROVE  TreeWith(e)[p] = Denoted(fs)[p]
    <3>1. fs[i] = es[i] /\ i \in Named(fs) /\ p \in Names(es)
      BY <1>1, <2>3 DEF Named, Names
    <3>2. /\ Denoted(fs)[p] = [kind |-> es[i].kind, size |-> es[i].size]
          /\ tree[p] = [kind |-> es[i].kind, size |-> es[i].size]
      <4>1. tree[p] = [kind |-> es[i].kind, size |-> es[i].size]
        BY <2>3, DenotedFacts
      <4>2. Denoted(fs)[fs[i].name] = [kind |-> fs[i].kind, size |-> fs[i].size]
        BY <1>1, <2>3, <3>1, DenotedFacts
      <4> QED BY <2>3, <3>1, <4>1, <4>2
    <3>3. p \in Parents(e.name) => tree[p] = Directory
      <4>1. p \in Parents(e.name) => p \notin Files(es)
        BY DEF Joins
      <4>2. es[i].kind = "file" \/ (es[i].kind = "dir" /\ es[i].size = 0)
        BY DEF Coherent
      <4>3. es[i].kind = "file" => p \in Files(es)
        BY <2>3 DEF Files
      <4> QED BY <3>2, <4>1, <4>2, <4>3 DEF Directory
    <3> QED BY <2>3, <3>2, <3>3 DEF TreeWith
  <2> QED BY <2>1, <2>2, <2>3 DEF Names
<1>3. /\ TreeWith(e) = [p \in Paths |-> TreeWith(e)[p]]
      /\ Denoted(fs) = [p \in Paths |-> Denoted(fs)[p]]
  BY DEF TreeWith, Denoted
<1> QED BY <1>2, <1>3

\* restoreEntry finds room for all that was admitted but a file named ".".
LEMMA JoiningFits ==
  ASSUME NEW es \in Seq(Foreign), NEW e \in Foreign, Coherent(es), ~Skipped(e), Joins(es, e),
         tree = Denoted(es), ~Fits(e)
  PROVE  e.kind = "file" /\ e.name = Root
<1>1. /\ e.name \in Paths \cup {Root} /\ Parents(e.name) \subseteq Paths
      /\ e.name \notin Files(es)
  BY JoinedName, CoherentNames DEF Joins
<1>2. \A p \in Paths : /\ tree[p].kind = "file" <=> p \in Files(es)
                       /\ tree[p] = Nothing <=> p \notin Names(es) \cup Implied(es)
  BY DenotedFacts
<1>3. \A p \in Parents(e.name) : tree[p].kind # "file"
  BY <1>1, <1>2 DEF Joins
<1>4. CASE e.kind = "dir"
  <2>1. e.name \in Paths
    BY <1>1, <1>4 DEF Skipped, Joins
  <2> QED BY <1>1, <1>2, <1>3, <1>4, <2>1 DEF Fits
<1>5. CASE e.kind = "file" /\ e.name # Root
  BY <1>1, <1>2, <1>3, <1>5 DEF Fits, Joins
<1> QED BY <1>4, <1>5 DEF Joins

-----------------------------------------------------------------------------
(* UnpackWithPolicy, and what it refuses.                                  *)

\* An archive without entries is coherent, and denotes the empty workspace.
LEMMA NothingMeans ==
  /\ Coherent(<<>>) /\ Names(<<>>) = {} /\ Implied(<<>>) = {} /\ Payload(<<>>) = 0
  /\ Denoted(<<>>) = Empty /\ Known(Empty) = {} /\ <<>> \in Seq(Foreign)
<1>1. Named(<<>>) = {}
  BY DEF Named
<1>2. Names(<<>>) = {} /\ Files(<<>>) = {} /\ Implied(<<>>) = {}
  BY <1>1 DEF Names, Files, Implied
<1>3. Payload(<<>>) = 0
  BY PayloadOfNothing
<1>4. Names(<<>>) \cup Implied(<<>>) = {}
  BY <1>2
<1>5. Cardinality(Names(<<>>) \cup Implied(<<>>)) = 0
  BY <1>4, FS_EmptySet
<1>6. Coherent(<<>>)
  BY <1>1, <1>2, <1>3, <1>5, PolicyAssumption DEF Coherent
<1>7. Denoted(<<>>) = Empty
  BY <1>1, <1>2 DEF Denoted, Empty
<1>8. Known(Empty) = {} /\ <<>> \in Seq(Foreign)
  BY DEF Known, Empty
<1> QED BY <1>2, <1>3, <1>6, <1>7, <1>8

\* UnpackWithPolicy begins with empty maps, in a workspace that is empty when it restores.
LEMMA StartsReading ==
  ASSUME archive' \in [entries : Seq(Foreign), end : Ends], Unread,
         pc' = "restore" => tree' = Empty
  PROVE  ReadInv'
<1>1. archive'.entries \in Seq(Foreign) /\ pos' = 0
  BY DEF Unread
<1>2. First(archive'.entries, 0, ReadSoFar') /\ 0 \in 0..Len(archive'.entries)
  BY <1>1 DEF First, ReadSoFar
<1>3. ReadSoFar' = <<>>
  BY <1>1, <1>2, FirstEntries
<1>4. Paths \subseteq DOMAIN seen' /\ Known(seen') = {}
  BY NothingMeans DEF Unread, Empty
<1> QED BY <1>1, <1>2, <1>3, <1>4, NothingMeans DEF ReadInv, Unread

\* Before a claim has failed or is done, the two properties ask for what FlowInv says.
LEMMA NoVerdict ==
  ASSUME FlowInv', cause' = "none", pc' # "done",
         pc' = "run" /\ host' => tree' = Denoted(archive'.entries)
  PROVE  InputIsRestored' /\ OutputIsPublished'
BY DEF FlowInv, InputIsRestored, OutputIsPublished

\* An entry for the root directory, which UnpackWithPolicy skips, changes nothing.
LEMMA SkipReads ==
  ASSUME ExchangeInv, SkipEntry
  PROVE  ExchangeInv'
<1> USE DEF ExchangeInv
<1>1. /\ archive.entries \in Seq(Foreign) /\ pos \in 0..Len(archive.entries)
      /\ First(archive.entries, pos, ReadSoFar) /\ pos < Len(archive.entries)
      /\ Skipped(Current) /\ Current = archive.entries[pos + 1]
      /\ pos' = pos + 1 /\ First(archive.entries, pos + 1, ReadSoFar')
      /\ Unpacking /\ Unpacking'
      /\ UNCHANGED <<pc, cause, host, archive, seen, declared, total, tree, stored>>
  BY DEF SkipEntry, FlowInv, ReadInv, First, ReadSoFar, Current, Unpacking
<1>2. /\ ReadSoFar \in Seq(Foreign) /\ Current \in Foreign /\ pos + 1 \in 0..Len(archive.entries)
      /\ Grows(ReadSoFar, Current, ReadSoFar')
  BY <1>1, FirstEntries
<1>3. /\ Names(ReadSoFar') = Names(ReadSoFar) /\ Files(ReadSoFar') = Files(ReadSoFar)
      /\ Implied(ReadSoFar') = Implied(ReadSoFar) /\ Named(ReadSoFar') = Named(ReadSoFar)
      /\ Payload(ReadSoFar') = Payload(ReadSoFar)
      /\ \A i \in 1..Len(ReadSoFar) : ReadSoFar'[i] = ReadSoFar[i]
  BY <1>1, <1>2, MoreEntries DEF Skipped
<1>4. \A i \in Named(ReadSoFar) : ReadSoFar'[i] = ReadSoFar[i]
  BY <1>3 DEF Named
<1>5. Coherent(ReadSoFar')
  BY <1>1, <1>3, <1>4 DEF ReadInv, Coherent
<1>6. Denoted(ReadSoFar') = Denoted(ReadSoFar)
  <2>1. ReadSoFar' \in Seq(Foreign) /\ Coherent(ReadSoFar)
    BY <1>1, <1>2, FirstEntries DEF ReadInv
  <2>2. SUFFICES ASSUME NEW p \in Paths
                 PROVE  Denoted(ReadSoFar')[p] = Denoted(ReadSoFar)[p]
    BY <1>2, <1>5, <2>1, DenotedFacts
  <2>3. CASE p \notin Names(ReadSoFar)
    BY <1>2, <1>3, <1>5, <2>1, <2>3, DenotedFacts
  <2>4. ASSUME NEW i \in Named(ReadSoFar), p = ReadSoFar[i].name
        PROVE  Denoted(ReadSoFar')[p] = Denoted(ReadSoFar)[p]
    <3>1. ReadSoFar'[i] = ReadSoFar[i] /\ i \in Named(ReadSoFar')
      BY <1>3, <1>4
    <3>2. Denoted(ReadSoFar)[p] = [kind |-> ReadSoFar[i].kind, size |-> ReadSoFar[i].size]
      BY <1>2, <2>1, <2>4, DenotedFacts
    <3>3. Denoted(ReadSoFar')[ReadSoFar'[i].name]
            = [kind |-> ReadSoFar'[i].kind, size |-> ReadSoFar'[i].size]
      BY <1>5, <2>1, <2>4, <3>1, DenotedFacts
    <3> QED BY <2>4, <3>1, <3>2, <3>3
  <2> QED BY <2>3, <2>4 DEF Names
<1>7. ReadInv'
  BY <1>1, <1>2, <1>3, <1>5, <1>6 DEF ReadInv
<1>8. FlowInv' /\ PackInv'
  BY <1>1 DEF FlowInv, PackInv, Unpacking, Admissible, Length
<1>9. InputIsRestored' /\ OutputIsPublished'
  BY <1>1, <1>8, NoVerdict DEF FlowInv, Unpacking
<1> QED BY <1>7, <1>8, <1>9

\* What is known of the entry that UnpackWithPolicy reads next.
LEMMA ReadNext ==
  ASSUME FlowInv, ReadInv, Unpacking, pos < Len(archive.entries), ~Skipped(Current)
  PROVE  /\ ReadSoFar \in Seq(Foreign) /\ Current \in Foreign /\ Coherent(ReadSoFar)
         /\ pos + 1 \in 0..Len(archive.entries)
         /\ \A fs : First(archive.entries, pos + 1, fs) => Grows(ReadSoFar, Current, fs)
         /\ Admits(Current) <=> Joins(ReadSoFar, Current)
         /\ Coherent(archive.entries) => Joins(ReadSoFar, Current)
<1>1. /\ archive.entries \in Seq(Foreign) /\ pos \in 0..Len(archive.entries)
      /\ First(archive.entries, pos, ReadSoFar) /\ Current = archive.entries[pos + 1]
      /\ Coherent(ReadSoFar)
  BY DEF FlowInv, ReadInv, First, ReadSoFar, Current
<1>2. /\ ReadSoFar \in Seq(Foreign) /\ Current \in Foreign /\ pos + 1 \in 0..Len(archive.entries)
      /\ \A fs : First(archive.entries, pos + 1, fs) => Grows(ReadSoFar, Current, fs)
  BY <1>1, FirstEntries
<1>3. Coherent(archive.entries) => Joins(ReadSoFar, Current)
  BY <1>1, CoherentJoin
<1> QED BY <1>1, <1>2, <1>3, AdmitsJoining

\* An entry that validateEntry admits is remembered, and restored.
LEMMA AdmitReads ==
  ASSUME ExchangeInv, AdmitEntry
  PROVE  ExchangeInv'
<1> USE DEF ExchangeInv
<1> DEFINE e == Current
<1>1. /\ Unpacking /\ Unpacking' /\ pos < Len(archive.entries) /\ ~Skipped(e) /\ Admits(e)
      /\ pos' = pos + 1 /\ seen' = SeenWith(e) /\ declared' = declared \cup {e.name}
      /\ total' = total + e.size
      /\ tree' = IF pc = "restore" THEN TreeWith(e) ELSE tree
      /\ UNCHANGED <<pc, cause, host, archive, stored>>
      /\ First(archive.entries, pos + 1, ReadSoFar')
  BY DEF AdmitEntry, Unpacking, First, ReadSoFar
<1>2. /\ ReadSoFar \in Seq(Foreign) /\ e \in Foreign /\ Coherent(ReadSoFar)
      /\ pos + 1 \in 0..Len(archive.entries) /\ Grows(ReadSoFar, e, ReadSoFar')
      /\ Joins(ReadSoFar, e)
  BY <1>1, ReadNext
<1> HIDE DEF e
<1>3. /\ Names(ReadSoFar') = Names(ReadSoFar) \cup {e.name}
      /\ Files(ReadSoFar') = Files(ReadSoFar) \cup (IF e.kind = "file" THEN {e.name} ELSE {})
      /\ Implied(ReadSoFar') = Implied(ReadSoFar) \cup Parents(e.name)
      /\ Payload(ReadSoFar') = Payload(ReadSoFar) + e.size
      /\ ReadSoFar' \in Seq(Foreign)
  BY <1>1, <1>2, MoreEntries
<1>4. Coherent(ReadSoFar')
  BY <1>1, <1>2, JoinedAreCoherent
<1>5. /\ Known(seen') = Names(ReadSoFar') \cup Implied(ReadSoFar')
      /\ Paths \subseteq DOMAIN seen'
  BY <1>1, <1>2, <1>3, KnownMore, JoinedName DEF ReadInv
<1>6. \A p \in Known(seen') : seen'[p] = IF p \in Files(ReadSoFar') THEN File(0) ELSE Directory
  <2> SUFFICES ASSUME NEW p \in Known(seen')
               PROVE  seen'[p] = IF p \in Files(ReadSoFar') THEN File(0) ELSE Directory
    OBVIOUS
  <2>1. p \in DOMAIN SeenWith(e)
    BY <1>1 DEF Known
  <2>2. CASE p = e.name
    <3>1. seen'[p] = [kind |-> e.kind, size |-> 0]
      BY <1>1, <2>1, <2>2 DEF SeenWith
    <3>2. p \notin Files(ReadSoFar)
      BY <1>2, <2>2, CoherentNames DEF Joins
    <3> QED BY <1>2, <1>3, <2>2, <3>1, <3>2 DEF Joins, File, Directory
  <2>3. CASE p # e.name /\ p \in Parents(e.name)
    <3>1. seen'[p] = Directory
      BY <1>1, <2>1, <2>3 DEF SeenWith, Marked
    <3> QED BY <1>2, <1>3, <2>3, <3>1 DEF Joins
  <2>4. CASE p # e.name /\ p \notin Parents(e.name)
    <3>1. seen'[p] = seen[p] /\ p \in Known(seen)
      BY <1>1, <2>1, <2>4 DEF SeenWith, Marked, Known
    <3> QED BY <1>1, <1>3, <2>4, <3>1 DEF ReadInv
  <2> QED BY <2>2, <2>3, <2>4
<1>7. pc' = "restore" => tree' = Denoted(ReadSoFar')
  BY <1>1, <1>2, RestoredMore DEF ReadInv
<1>8. ReadInv'
  BY <1>1, <1>2, <1>3, <1>4, <1>5, <1>6, <1>7 DEF ReadInv
<1>9. tree' \in [Paths -> Nodes \cup {Nothing}]
  BY <1>1, <1>3, <1>4, <1>7, DenotedFacts DEF FlowInv
<1>10. FlowInv' /\ PackInv'
  BY <1>1, <1>9 DEF FlowInv, PackInv, Unpacking, Admissible, Length
<1>11. InputIsRestored' /\ OutputIsPublished'
  BY <1>1, <1>10, NoVerdict DEF FlowInv, Unpacking
<1> QED BY <1>8, <1>10, <1>11

\* A claim may fail for any reason that says what the two properties ask of it.
LEMMA FailureHasReason ==
  ASSUME ExchangeInv, NEW why, FailsFor(why),
         why = "validate" => ~Admissible(archive),
         why = "restore" => Root \in Files(archive.entries),
         why = "pack" => ~Publishable,
         why = "verify" => ~host /\ ~Admissible(archive),
         why # "upload"
  PROVE  ExchangeInv'
<1>1. pc' = "failed" /\ cause' = why /\ UNCHANGED <<host, archive, reader, tree, stored>>
  BY DEF FailsFor
<1>2. FlowInv' /\ ReadInv' /\ PackInv'
  BY <1>1 DEF ExchangeInv, FlowInv, ReadInv, PackInv, Unpacking
<1>3. /\ Admissible(archive)' <=> Admissible(archive)
      /\ Publishable' <=> Publishable
      /\ Files(archive.entries)' = Files(archive.entries)
  BY <1>1 DEF Admissible, Length, Publishable, Present
<1>4. InputIsRestored' /\ OutputIsPublished'
  BY <1>1, <1>3 DEF InputIsRestored, OutputIsPublished
<1> QED BY <1>2, <1>4 DEF ExchangeInv

\* UnpackWithPolicy refuses an entry for what the archive is: not coherent, or coherent
\* and with a file named ".".
LEMMA RefusedEntry ==
  ASSUME ExchangeInv, RefuseEntry
  PROVE  ExchangeInv'
<1> USE DEF ExchangeInv
<1>1. /\ Unpacking /\ pos < Len(archive.entries) /\ ~Skipped(Current) /\ FailsFor(pc)
      /\ ~Admits(Current) \/ (pc = "restore" /\ ~Fits(Current))
  BY DEF RefuseEntry, Refused
<1>2. /\ ReadSoFar \in Seq(Foreign) /\ Current \in Foreign /\ Coherent(ReadSoFar)
      /\ Admits(Current) <=> Joins(ReadSoFar, Current)
      /\ Coherent(archive.entries) => Joins(ReadSoFar, Current)
  BY <1>1, ReadNext
<1>3. pc # "restore" => ~Admissible(archive)
  BY <1>1, <1>2 DEF Admissible
<1>4. pc = "verify" => ~host
  BY <1>3 DEF FlowInv
<1>5. ASSUME pc = "restore" PROVE Root \in Files(archive.entries)
  <2>1. Admissible(archive) /\ tree = Denoted(ReadSoFar)
    BY <1>1, <1>5 DEF FlowInv, ReadInv
  <2>2. Joins(ReadSoFar, Current) /\ ~Fits(Current)
    BY <1>1, <1>2, <2>1 DEF Admissible
  <2>3. Current.kind = "file" /\ Current.name = Root
    BY <1>1, <1>2, <2>1, <2>2, JoiningFits
  <2>4. pos + 1 \in Named(archive.entries) /\ archive.entries[pos + 1] = Current
    BY <1>1 DEF FlowInv, ReadInv, Named, Current
  <2> QED BY <2>3, <2>4 DEF Files
<1> QED BY <1>1, <1>3, <1>4, <1>5, FailureHasReason DEF Unpacking

\* Or validateTrailer, for the way the archive ends.
LEMMA RefusedEnd ==
  ASSUME ExchangeInv, RefuseEnd
  PROVE  ExchangeInv'
<1>1. Unpacking /\ ~WellEnded /\ FailsFor(pc)
  BY DEF RefuseEnd, Refused
<1>2. ~Admissible(archive)
  BY <1>1 DEF WellEnded, Admissible
<1>3. pc # "restore" /\ (pc = "verify" => ~host)
  BY <1>2 DEF ExchangeInv, FlowInv
<1> QED BY <1>1, <1>2, <1>3, FailureHasReason DEF Unpacking

\* UnpackWithPolicy has read all of an archive: it is coherent, and means what was found.
LEMMA ReadInFull ==
  ASSUME FlowInv, ReadInv, Unpacking, pos = Len(archive.entries), WellEnded
  PROVE  ReadSoFar = archive.entries /\ Admissible(archive)
<1>1. /\ archive.entries \in Seq(Foreign) /\ pos \in 0..Len(archive.entries)
      /\ First(archive.entries, pos, ReadSoFar) /\ Coherent(ReadSoFar)
  BY DEF FlowInv, ReadInv, First, ReadSoFar
<1>2. ReadSoFar = archive.entries
  BY <1>1, FirstEntries
<1> QED BY <1>1, <1>2 DEF WellEnded, Admissible

\* The claim has no file at hand while its step runs, and that says nothing of it.
LEMMA NoFileIsAdmissible ==
  ASSUME 2 <= ArchiveBytes
  PROVE  Admissible(NoFile) /\ NoFile \in [entries : Seq(Foreign), end : Ends]
<1>1. Length(NoFile) = 2 /\ NoFile.entries = <<>> /\ NoFile.end = "zeros"
  BY NothingMeans DEF Length, Bytes, NoFile
<1> QED BY <1>1, NothingMeans DEF Admissible, NoFile, Ends

\* What UnpackWithPolicy accepts is admissible, and restored in full after "restore".
LEMMA AcceptReads ==
  ASSUME ExchangeInv, Accept
  PROVE  ExchangeInv'
<1> USE DEF ExchangeInv
<1>1. /\ Unpacking /\ pos = Len(archive.entries) /\ WellEnded /\ Unread
      /\ UNCHANGED <<cause, tree, stored>>
  BY DEF Accept
<1>2. ReadSoFar = archive.entries /\ Admissible(archive)
  BY <1>1, ReadInFull
<1>3. 2 <= ArchiveBytes
  <2>1. archive.entries \in Seq(Foreign)
    BY DEF FlowInv
  <2>2. First(archive.entries, pos, archive.entries) /\ pos \in 0..Len(archive.entries)
    BY <1>1, <1>2 DEF First, ReadSoFar, ReadInv
  <2>3. Payload(archive.entries) \in Nat
    BY <2>1, <2>2, FirstMean
  <2> QED BY <1>1, <2>1, <2>3, PolicyAssumption DEF WellEnded, Length, Bytes
<1>4. cause = "none"
  BY <1>1 DEF FlowInv, Unpacking
<1>5. CASE pc = "validate" /\ pc' = "restore" /\ UNCHANGED <<host, archive>>
  <2>1. /\ archive' \in [entries : Seq(Foreign), end : Ends] /\ tree' = Empty
        /\ Admissible(archive)' /\ tree' \in [Paths -> Nodes \cup {Nothing}] /\ stored' = <<>>
    BY <1>1, <1>2, <1>5 DEF FlowInv, Admissible, Length
  <2>2. ReadInv'
    BY <1>1, <2>1, StartsReading
  <2>3. FlowInv' /\ PackInv'
    BY <1>1, <1>4, <1>5, <2>1 DEF FlowInv, PackInv
  <2> QED BY <1>1, <1>4, <1>5, <2>2, <2>3, NoVerdict
<1>6. CASE pc = "validate" /\ pc' = "run" /\ host' = FALSE /\ archive' = NoFile
  <2>1. Admissible(archive)' /\ archive' \in [entries : Seq(Foreign), end : Ends]
    BY <1>3, <1>6, NoFileIsAdmissible DEF Admissible, Length
  <2>2. FlowInv' /\ PackInv' /\ ReadInv'
    BY <1>1, <1>4, <1>6, <2>1 DEF FlowInv, PackInv, ReadInv, Unpacking, Unread
  <2> QED BY <1>1, <1>4, <1>6, <2>2, NoVerdict
<1>7. CASE pc = "restore" /\ pc' = "run" /\ UNCHANGED <<host, archive>>
  <2>1. Admissible(archive)' /\ Denoted(archive'.entries) = tree'
    BY <1>1, <1>2, <1>7 DEF ReadInv, Admissible, Length
  <2>2. FlowInv' /\ PackInv' /\ ReadInv'
    BY <1>1, <1>4, <1>7, <2>1 DEF FlowInv, PackInv, ReadInv, Unpacking, Unread
  <2> QED BY <1>1, <1>4, <1>7, <2>1, <2>2, NoVerdict
<1>8. CASE pc = "verify" /\ pc' = "upload" /\ UNCHANGED <<host, archive>>
  <2>1. Admissible(archive)'
    BY <1>2, <1>8 DEF Admissible, Length
  <2>2. FlowInv' /\ PackInv' /\ ReadInv'
    BY <1>1, <1>4, <1>8, <2>1 DEF FlowInv, PackInv, ReadInv, Unpacking
  <2> QED BY <1>1, <1>4, <1>8, <2>2, NoVerdict
<1> QED BY <1>5, <1>6, <1>7, <1>8 DEF Accept

-----------------------------------------------------------------------------
(* The transfers, and the step.                                            *)

\* What is downloaded, or exported from a container, is a file of entries with an end.
LEMMA ArchivesAreFiles ==
  ASSUME NEW a \in Archives
  PROVE  a \in [entries : Seq(Foreign), end : Ends]
<1>1. a.entries \in BoundedSeq(Foreign, MaxLength) /\ a.end \in Ends
      /\ a = [entries |-> a.entries, end |-> a.end]
  BY DEF Archives
<1>2. PICK n \in 0..MaxLength : a.entries \in [1..n -> Foreign]
  BY <1>1 DEF BoundedSeq, SeqOf
<1>3. n \in Nat
  BY BoundsAssumption
<1>4. a.entries \in Seq(Foreign)
  BY <1>2, <1>3
<1> QED BY <1>1, <1>4

\* An archive that arrives is read next, unless Client.Staging finds it too long.
LEMMA DownloadedIsRead ==
  ASSUME ExchangeInv, Downloaded
  PROVE  ExchangeInv'
<1> USE DEF ExchangeInv
<1>1. /\ pc = "download" /\ archive' \in Archives /\ Unread
      /\ UNCHANGED <<host, tree, stored>>
      /\ IF Length(archive') > ArchiveBytes
           THEN pc' = "failed" /\ cause' = "validate"
           ELSE pc' = "validate" /\ UNCHANGED cause
  BY DEF Downloaded
<1>2. archive' \in [entries : Seq(Foreign), end : Ends] /\ cause = "none"
  BY <1>1, ArchivesAreFiles DEF FlowInv
<1>3. FlowInv' /\ PackInv'
  BY <1>1, <1>2 DEF FlowInv, PackInv
<1>4. ReadInv'
  BY <1>1, <1>2, StartsReading
<1>5. CASE pc' = "validate"
  <2>1. cause' = "none"
    BY <1>1, <1>2, <1>5
  <2> QED BY <1>3, <1>4, <1>5, <2>1, NoVerdict
<1>6. CASE Length(archive') > ArchiveBytes
  <2>1. Length(archive)' \in Nat
    <3>1. /\ archive'.entries \in Seq(Foreign)
          /\ First(archive'.entries, 0, SubSeq(archive'.entries, 1, 0))
          /\ 0 \in 0..Len(archive'.entries)
      BY <1>2 DEF First
    <3>2. Payload(archive'.entries) \in Nat
      BY <3>1, FirstMean
    <3> QED BY <3>1, <3>2 DEF Length, Bytes
  <2>2. ~Admissible(archive)'
    BY <1>6, <2>1, PolicyAssumption DEF Admissible
  <2> QED BY <1>1, <1>3, <1>4, <1>6, <2>2 DEF InputIsRestored, OutputIsPublished
<1> QED BY <1>1, <1>3, <1>4, <1>5, <1>6

\* PackWithPolicy begins with nothing, whatever the step left in its workspace.
LEMMA HostStepPacks ==
  ASSUME ExchangeInv, HostStep
  PROVE  ExchangeInv'
<1> USE DEF ExchangeInv
<1>1. /\ pc = "run" /\ host /\ pc' = "pack" /\ archive' = NoFile
      /\ tree' \in [Paths -> Nodes \cup {Nothing}]
      /\ \A p \in Paths : tree'[p] # Nothing => \A q \in Parents(p) : tree'[q] = Directory
      /\ UNCHANGED <<cause, host, reader, stored>>
  BY DEF HostStep
<1>2. archive' \in [entries : Seq(Foreign), end : Ends] /\ archive'.entries = <<>>
      /\ archive'.end = "zeros" /\ total' = 0 /\ cause = "none" /\ Packed' = {}
  BY <1>1, NothingMeans DEF NoFile, Ends, FlowInv, Packed
<1>3. FlowInv'
  BY <1>1, <1>2 DEF FlowInv
<1>4. PackInv'
  <2>1. DOMAIN [p \in Packed' |-> tree'[p]] = {}
    BY <1>2
  <2>2. Payload([p \in Packed |-> tree[p]])' = 0 /\ Payload(archive'.entries) = 0
    BY <1>2, <2>1, PayloadOfNothing, NothingMeans
  <2>3. Cardinality(Packed') = 0 /\ Len(archive'.entries) = 0 /\ DOMAIN archive'.entries = {}
    BY <1>2, FS_EmptySet
  <2> QED BY <1>1, <1>2, <2>2, <2>3, PolicyAssumption DEF PackInv, Present
<1>5. ReadInv'
  BY <1>1 DEF ReadInv, Unpacking
<1>6. InputIsRestored' /\ OutputIsPublished'
  BY <1>1, <1>2, <1>3, NoVerdict
<1> QED BY <1>3, <1>4, <1>5, <1>6

\* A container's tar writes anything, and the agent reads it from the start.
LEMMA ContainerStepReads ==
  ASSUME ExchangeInv, ContainerStep
  PROVE  ExchangeInv'
<1> USE DEF ExchangeInv
<1>1. /\ pc = "run" /\ ~host /\ pc' = "verify" /\ archive' \in Archives
      /\ UNCHANGED <<cause, host, reader, tree, stored>>
  BY DEF ContainerStep
<1>2. archive' \in [entries : Seq(Foreign), end : Ends] /\ cause = "none"
  BY <1>1, ArchivesAreFiles DEF FlowInv
<1>3. Unread
  BY <1>1 DEF Unread, FlowInv
<1>4. ReadInv'
  BY <1>1, <1>2, <1>3, StartsReading
<1>5. FlowInv' /\ PackInv'
  BY <1>1, <1>2 DEF FlowInv, PackInv
<1>6. InputIsRestored' /\ OutputIsPublished'
  BY <1>1, <1>2, <1>5, NoVerdict
<1> QED BY <1>4, <1>5, <1>6

\* The server accepts what Client.Staging sends, again as well: it has nothing, or the
\* same.
LEMMA UploadKeeps ==
  ASSUME ExchangeInv, Uploaded \/ UploadRetried \/ UploadRefused
  PROVE  ExchangeInv'
<1> USE DEF ExchangeInv
<1>1. pc = "upload" /\ ServerAccepts /\ cause = "none" /\ Admissible(archive)
  BY DEF Uploaded, UploadRetried, UploadRefused, ServerAccepts, FlowInv
<1>2. CASE Uploaded
  <2>1. /\ stored' = <<archive>> /\ pc' = "done"
        /\ UNCHANGED <<cause, host, archive, reader, tree>>
    BY <1>2 DEF Uploaded
  <2>2. Admissible(archive)' /\ (host' => Denoted(archive'.entries) = tree')
    BY <1>1, <2>1 DEF FlowInv, Admissible, Length
  <2>3. FlowInv' /\ ReadInv' /\ PackInv'
    BY <1>1, <2>1, <2>2 DEF FlowInv, ReadInv, PackInv, Unpacking
  <2>4. InputIsRestored' /\ OutputIsPublished'
    BY <1>1, <2>1, <2>2 DEF InputIsRestored, OutputIsPublished
  <2> QED BY <2>3, <2>4
<1>3. CASE UploadRetried
  <2>1. /\ stored' \in {stored, <<archive>>}
        /\ UNCHANGED <<pc, cause, host, archive, reader, tree>>
    BY <1>1, <1>3 DEF UploadRetried
  <2>2. Admissible(archive)' /\ (host' => Denoted(archive'.entries) = tree')
    BY <1>1, <2>1 DEF FlowInv, Admissible, Length
  <2>3. FlowInv' /\ ReadInv' /\ PackInv'
    BY <1>1, <2>1, <2>2 DEF FlowInv, ReadInv, PackInv, Unpacking
  <2>4. InputIsRestored' /\ OutputIsPublished'
    BY <1>1, <2>1, <2>3, NoVerdict
  <2> QED BY <2>3, <2>4
<1>4. CASE UploadRefused
  <2>1. FailsFor("trouble")
    BY <1>1, <1>4 DEF UploadRefused
  <2> QED BY <2>1, FailureHasReason
<1> QED BY <1>2, <1>3, <1>4

\* The stage of a claim is closed, and says nothing of the next one.
LEMMA NextClaimStarts ==
  ASSUME ExchangeInv, NextClaim
  PROVE  ExchangeInv'
<1> USE DEF ExchangeInv
<1>1. /\ pc' = "download" /\ cause' = "none" /\ host' = TRUE
      /\ archive' = NoFile /\ Unread /\ tree' = Empty /\ stored' = <<>>
  BY DEF NextClaim
<1>2. archive' \in [entries : Seq(Foreign), end : Ends] /\ tree' \in [Paths -> Nodes \cup {Nothing}]
  BY <1>1, NothingMeans DEF NoFile, Ends, Empty
<1>3. FlowInv' /\ ReadInv' /\ PackInv'
  BY <1>1, <1>2 DEF FlowInv, ReadInv, PackInv, Unpacking
<1> QED BY <1>1, <1>3, NoVerdict

-----------------------------------------------------------------------------
(* PackWithPolicy.                                                         *)

\* The nodes of the tree that are packed.
Part == [q \in Packed |-> tree[q]]

\* What PackWithPolicy has packed is a part of the tree, and its total the sizes of that.
LEMMA PackedIsAPart ==
  ASSUME FlowInv, PackInv, pc = "pack"
  PROVE  /\ archive.entries \in Seq(Foreign) /\ tree \in [Paths -> Nodes \cup {Nothing}]
         /\ \A q \in Paths : tree[q].size \in Nat
         /\ Packed \subseteq Present /\ Present \subseteq Paths
         /\ IsFiniteSet(Paths) /\ IsFiniteSet(Present) /\ IsFiniteSet(Packed)
         /\ Cardinality(Packed) = Len(archive.entries)
         /\ total = Payload(archive.entries) /\ total = Payload(Part)
         /\ total \in Nat /\ total <= PayloadBytes
<1>1. archive.entries \in Seq(Foreign) /\ tree \in [Paths -> Nodes \cup {Nothing}]
  BY DEF FlowInv
<1>2. \A q \in Paths : tree[q].size \in Nat
  BY <1>1, NodeFacts
<1>3. Packed \subseteq Present /\ Present \subseteq Paths
  BY <1>1 DEF PackInv, Packed, Present
<1>4. IsFiniteSet(Paths) /\ IsFiniteSet(Present) /\ IsFiniteSet(Packed)
  BY <1>3, PathsAssumption, FS_Subset
<1>5. /\ Cardinality(Packed) = Len(archive.entries)
      /\ total = Payload(archive.entries) /\ total = Payload(Part) /\ total <= PayloadBytes
  BY DEF PackInv, Part
<1>6. total \in Nat
  <2>1. DOMAIN Part = Packed /\ \A q \in Packed : Part[q].size \in Nat
    BY <1>2, <1>3 DEF Part
  <2> QED BY <1>4, <1>5, <2>1, PayloadType
<1> QED BY <1>1, <1>2, <1>3, <1>4, <1>5, <1>6

\* What the next node that WalkDir comes to adds to the total and to the archive.
LEMMA PackedMore ==
  ASSUME FlowInv, PackInv, pc = "pack", NEW p \in Unpacked
  PROVE  /\ p \in Present /\ p \notin Packed /\ tree[p] \in Nodes
         /\ tree[p].size \in Nat
         /\ EntryOf(p, tree[p]) \in Foreign
         /\ Cardinality(Packed \cup {p}) = Cardinality(Packed) + 1
         /\ Payload([q \in Packed \cup {p} |-> tree[q]]) = total + tree[p].size
         /\ Payload(Append(archive.entries, EntryOf(p, tree[p]))) = total + tree[p].size
         /\ Bytes(Append(archive.entries, EntryOf(p, tree[p])))
              = Cardinality(Packed) + 1 + total + tree[p].size
<1>1. p \in Present /\ p \notin Packed /\ p \in Paths
  BY DEF Unpacked, Present
<1>2. tree[p] \in Nodes /\ tree[p].size \in Nat
  BY <1>1, PackedIsAPart DEF Present
<1>3. EntryOf(p, tree[p]) \in Foreign
  BY <1>1, <1>2, PackedFacts
<1>4. Cardinality(Packed \cup {p}) = Cardinality(Packed) + 1
  BY <1>1, PackedIsAPart, FS_AddElement
<1>5. Payload([q \in Packed \cup {p} |-> tree[q]]) = total + tree[p].size
  <2> DEFINE f == Part
             g == [q \in Packed \cup {p} |-> tree[q]]
  <2>1. DOMAIN f = Packed /\ \A q \in DOMAIN f : f[q].size \in Nat /\ g[q].size = f[q].size
    BY PackedIsAPart DEF Part
  <2>2. DOMAIN g = DOMAIN f \cup {p} /\ p \notin DOMAIN f /\ g[p].size = tree[p].size
    BY <1>1, <2>1
  <2>3. IsFiniteSet(DOMAIN f) /\ g[p].size \in Nat /\ Payload(f) = total
    BY <1>2, <2>1, <2>2, PackedIsAPart
  <2> HIDE DEF f, g
  <2>4. Payload(g) = Payload(f) + g[p].size
    BY <2>1, <2>2, <2>3, PayloadOfMore
  <2> QED BY <2>2, <2>3, <2>4 DEF g
<1>6. /\ Payload(Append(archive.entries, EntryOf(p, tree[p]))) = total + tree[p].size
      /\ Len(Append(archive.entries, EntryOf(p, tree[p]))) = Cardinality(Packed) + 1
  <2> DEFINE e == EntryOf(p, tree[p])
             fs == Append(archive.entries, e)
  <2>1. Grows(archive.entries, e, fs) /\ e.size = tree[p].size
    BY DEF Grows, EntryOf
  <2>2. archive.entries \in Seq(Foreign) /\ e \in Foreign
    BY <1>3, PackedIsAPart
  <2> HIDE DEF e, fs
  <2>3. /\ Payload(fs) = Payload(archive.entries) + e.size
        /\ Len(fs) = Len(archive.entries) + 1
    BY <2>1, <2>2, MoreEntries
  <2>4. Payload(fs) = total + tree[p].size /\ Len(fs) = Cardinality(Packed) + 1
    BY <2>1, <2>3, PackedIsAPart
  <2> QED BY <2>4 DEF e, fs
<1>7. Bytes(Append(archive.entries, EntryOf(p, tree[p])))
        = Cardinality(Packed) + 1 + total + tree[p].size
  <2>1. Cardinality(Packed) \in Nat /\ total \in Nat
    BY PackedIsAPart, FS_CardinalityType
  <2> QED BY <1>2, <1>6, <2>1 DEF Bytes
<1> QED BY <1>1, <1>2, <1>3, <1>4, <1>5, <1>6, <1>7

\* A part of the tree has no more nodes and bytes than the tree.
LEMMA PartIsLess ==
  ASSUME FlowInv, PackInv, pc = "pack", NEW S, S \subseteq Present
  PROVE  /\ Cardinality(S) \in Nat /\ Cardinality(S) <= Cardinality(Present)
         /\ Payload([q \in S |-> tree[q]]) <= Payload(tree)
         /\ Cardinality(Present) \in Nat
         /\ Payload([q \in S |-> tree[q]]) \in Nat /\ Payload(tree) \in Nat
<1>1. /\ IsFiniteSet(S) /\ Cardinality(S) <= Cardinality(Present)
      /\ Cardinality(S) \in Nat /\ Cardinality(Present) \in Nat
  BY PackedIsAPart, FS_Subset, FS_CardinalityType
<1>2. DOMAIN tree = Paths /\ IsFiniteSet(Paths) /\ \A q \in Paths : tree[q].size \in Nat
  BY PackedIsAPart
<1>3. S \subseteq Paths
  BY PackedIsAPart
<1> DEFINE g == [q \in S |-> tree[q]]
<1>4. DOMAIN g = S /\ \A q \in S : g[q].size = tree[q].size
  OBVIOUS
<1> HIDE DEF g
<1>5. Payload(g) \in Nat /\ Payload(g) <= Payload(tree)
  BY <1>2, <1>3, <1>4, PayloadOfPart
<1>6. Payload(tree) \in Nat
  BY <1>2, PayloadType
<1> QED BY <1>1, <1>5, <1>6 DEF g

\* PackWithPolicy writes a node: it is one more of the tree, and within the policy.
LEMMA PackEntryPacks ==
  ASSUME ExchangeInv, NEW p \in Paths, PackEntry(p)
  PROVE  ExchangeInv'
<1> USE DEF ExchangeInv
<1> DEFINE e  == EntryOf(p, tree[p])
           es == archive.entries
<1>1. /\ pc = "pack" /\ pc' = "pack" /\ p \in Unpacked /\ Packs(p)
      /\ archive' = [archive EXCEPT !.entries = Append(@, e)]
      /\ total' = total + tree[p].size
      /\ UNCHANGED <<pc, cause, host, tree, stored>>
  BY DEF PackEntry
<1>2. /\ es \in Seq(Foreign) /\ archive.end \in Ends /\ archive.end = "zeros"
      /\ archive \in [entries : Seq(Foreign), end : Ends] /\ host
  BY <1>1 DEF FlowInv, PackInv
<1>3. /\ p \in Present /\ p \notin Packed /\ tree[p] # Other /\ e \in Foreign
      /\ e.name = p
  BY <1>1, PackedMore DEF Packs, EntryOf
<1>4. archive'.entries = Append(es, e) /\ archive'.end = "zeros"
      /\ archive' \in [entries : Seq(Foreign), end : Ends]
  <2>1. Append(es, e) \in Seq(Foreign)
    BY <1>2, <1>3
  <2> QED BY <1>1, <1>2, <2>1
<1>5. /\ Len(es) \in Nat /\ DOMAIN es = 1..Len(es)
      /\ DOMAIN archive'.entries = 1..(Len(es) + 1) /\ Len(archive'.entries) = Len(es) + 1
      /\ archive'.entries[Len(es) + 1] = e
      /\ \A i \in 1..Len(es) : archive'.entries[i] = es[i]
  BY <1>2, <1>3, <1>4
<1> HIDE DEF e
<1>6. \A i \in DOMAIN archive'.entries : \/ i \in DOMAIN es /\ archive'.entries[i] = es[i]
                                         \/ i = Len(es) + 1 /\ archive'.entries[i] = e
  BY <1>5
<1>7. Present' = Present /\ Packed' = Packed \cup {p}
  <2>1. Present' = Present
    BY <1>1 DEF Present
  <2>2. ASSUME NEW q PROVE q \in Packed' <=> q \in Packed \/ q = p
    BY <1>3, <1>5 DEF Packed
  <2> QED BY <2>1, <2>2
<1>8. \A i \in DOMAIN archive'.entries :
         LET a == archive'.entries[i]
         IN  a.name \in Present /\ tree[a.name] # Other /\ a = EntryOf(a.name, tree[a.name])
  BY <1>1, <1>3, <1>6 DEF PackInv, e
<1>9. \A i \in DOMAIN es : es[i].name \in Packed
  BY <1>5 DEF Packed
<1>10. \A i, j \in DOMAIN archive'.entries :
          archive'.entries[i].name = archive'.entries[j].name => i = j
  BY <1>1, <1>3, <1>6, <1>9 DEF PackInv
<1>11. Cardinality(Packed') = Len(archive'.entries) /\ Cardinality(Packed') <= Entries
  BY <1>1, <1>5, <1>7, PackedMore, PackedIsAPart DEF Packs, Counted
<1>12. /\ total' = Payload(archive'.entries) /\ total' = Payload([q \in Packed |-> tree[q]])'
  BY <1>1, <1>4, <1>7, PackedMore DEF e
<1>13. total' <= PayloadBytes
  <2>1. /\ tree[p].size <= PayloadBytes - total /\ tree[p].size \in Nat /\ total \in Nat
        /\ PayloadBytes \in Nat
    BY <1>1, PackedMore, PackedIsAPart, PolicyAssumption DEF Packs
  <2> QED BY <1>1, <2>1
<1>14. PackInv'
  <2>1. \A q \in Present' : \A r \in Parents(q) : tree'[r] = Directory
    BY <1>1, <1>7 DEF PackInv
  <2> QED BY <1>1, <1>2, <1>4, <1>7, <1>8, <1>10, <1>11, <1>12, <1>13, <2>1 DEF PackInv
<1>15. FlowInv'
  BY <1>1, <1>4 DEF FlowInv
<1>16. ReadInv'
  BY <1>1 DEF ReadInv, Unpacking
<1>17. InputIsRestored' /\ OutputIsPublished'
  BY <1>1, <1>15, NoVerdict DEF FlowInv
<1> QED BY <1>14, <1>15, <1>16, <1>17

\* It refuses a node only when the tree is more than the policy allows.
LEMMA RefusedNode ==
  ASSUME ExchangeInv, NEW p \in Paths, PackRefuses(p)
  PROVE  ExchangeInv'
<1>1. pc = "pack" /\ p \in Unpacked /\ ~Packs(p) /\ FailsFor(pc)
  BY DEF PackRefuses, Refused
<1>2. ASSUME Publishable PROVE FALSE
  <2>1. /\ p \in Present /\ Packed \cup {p} \subseteq Present
        /\ Cardinality(Packed \cup {p}) = Cardinality(Packed) + 1
        /\ Payload([q \in Packed \cup {p} |-> tree[q]]) = total + tree[p].size
        /\ Bytes(Append(archive.entries, EntryOf(p, tree[p])))
             = Cardinality(Packed) + 1 + total + tree[p].size
        /\ tree[p].size \in Nat /\ total \in Nat
    BY <1>1, PackedMore, PackedIsAPart DEF ExchangeInv
  <2>2. /\ Cardinality(Packed \cup {p}) <= Cardinality(Present)
        /\ Cardinality(Packed \cup {p}) \in Nat /\ Cardinality(Packed) \in Nat
        /\ total + tree[p].size <= Payload(tree)
        /\ Cardinality(Present) \in Nat /\ Payload(tree) \in Nat
    BY <1>1, <2>1, PartIsLess, PackedIsAPart, FS_CardinalityType DEF ExchangeInv
  <2>3. /\ tree[p] # Other /\ Cardinality(Present) <= Entries /\ Payload(tree) <= PayloadBytes
        /\ Cardinality(Present) + Payload(tree) + 2 <= ArchiveBytes
    BY <1>2, <2>1 DEF Publishable
  <2>4. Counted(p) <= Entries
    BY <2>2, <2>3, PolicyAssumption DEF Counted
  <2>5. tree[p].size <= PayloadBytes - total
    BY <2>1, <2>2, <2>3, PolicyAssumption
  <2>6. Bytes(Append(archive.entries, EntryOf(p, tree[p]))) <= ArchiveBytes
    BY <2>1, <2>2, <2>3, PolicyAssumption
  <2> QED BY <1>1, <2>3, <2>4, <2>5, <2>6 DEF Packs
<1> QED BY <1>1, <1>2, FailureHasReason

\* PackWithPolicy has packed all of the tree: the archive is coherent and denotes it.
LEMMA PackedInFull ==
  ASSUME FlowInv, PackInv, pc = "pack", Unpacked = {}
  PROVE  /\ Coherent(archive.entries) /\ Denoted(archive.entries) = tree
         /\ Packed = Present
<1> DEFINE es == archive.entries
<1>1. /\ es \in Seq(Foreign) /\ Len(es) \in Nat /\ DOMAIN es = 1..Len(es)
      /\ tree \in [Paths -> Nodes \cup {Nothing}] /\ Present \subseteq Paths
  BY PackedIsAPart
<1>2. Packed = Present
  BY PackedIsAPart DEF Unpacked, Present
<1>3. \A i \in 1..Len(es) : /\ es[i].name \in Present /\ tree[es[i].name] # Other
                            /\ es[i] = EntryOf(es[i].name, tree[es[i].name])
  BY <1>1 DEF PackInv
<1>4. \A i \in 1..Len(es) : /\ es[i].kind = tree[es[i].name].kind
                            /\ es[i].size = tree[es[i].name].size
                            /\ tree[es[i].name] \in Nodes
  <2> SUFFICES ASSUME NEW i \in 1..Len(es)
               PROVE  /\ es[i].kind = tree[es[i].name].kind
                      /\ es[i].size = tree[es[i].name].size
                      /\ tree[es[i].name] \in Nodes
    OBVIOUS
  <2> DEFINE q == es[i].name
  <2>1. q \in Present /\ es[i] = EntryOf(q, tree[q])
    BY <1>3
  <2> HIDE DEF q
  <2>2. tree[q] \in Nodes
    BY <1>1, <2>1 DEF Present
  <2>3. es[i].kind = tree[q].kind /\ es[i].size = tree[q].size
    BY <2>1 DEF EntryOf
  <2> QED BY <2>2, <2>3 DEF q
<1>5. \A i \in 1..Len(es) : ~Skipped(es[i])
  BY <1>1, <1>3, <1>4, PackedFacts
<1>6. Named(es) = 1..Len(es) /\ Names(es) = Present
  BY <1>2, <1>5 DEF Named, Names, Packed
<1>7. \A i \in Named(es) : es[i].kind = "file" \/ (es[i].kind = "dir" /\ es[i].size = 0)
  <2> SUFFICES ASSUME NEW i \in 1..Len(es)
               PROVE  es[i].kind = "file" \/ (es[i].kind = "dir" /\ es[i].size = 0)
    BY <1>6
  <2> DEFINE n == tree[es[i].name]
  <2>1. n \in Nodes /\ n # Other /\ es[i].kind = n.kind /\ es[i].size = n.size
    BY <1>3, <1>4
  <2> HIDE DEF n
  <2>2. n = Directory \/ \E k \in Sizes : n = File(k)
    BY <2>1 DEF Nodes
  <2> QED BY <2>1, <2>2 DEF File, Directory
<1>8. Illegal \notin Names(es)
  BY <1>1, <1>6, PathsAssumption
<1>9. \A i, j \in Named(es) : es[i].name = es[j].name => i = j
  BY <1>1, <1>6 DEF PackInv
<1>10. \A q \in Implied(es) : tree[q] = Directory /\ q \in Present
  <2> SUFFICES ASSUME NEW p \in Present, NEW q \in Parents(p)
               PROVE  tree[q] = Directory /\ q \in Present
    BY <1>6 DEF Implied
  <2>1. tree[q] = Directory
    BY DEF PackInv
  <2>2. q \in Paths
    BY <1>1, PathsAssumption
  <2> QED BY <2>1, <2>2 DEF Present, Directory, Nothing
<1>11. \A q \in Files(es) : tree[q].kind = "file"
  BY <1>4, <1>6 DEF Files
<1>12. Files(es) \cap Implied(es) = {}
  BY <1>10, <1>11 DEF Directory
<1>13. Cardinality(Names(es) \cup Implied(es)) <= Entries
  <2>1. Names(es) \cup Implied(es) = Packed
    BY <1>2, <1>6, <1>10
  <2> QED BY <2>1 DEF PackInv
<1>14. Payload(es) <= PayloadBytes
  BY PackedIsAPart
<1>15. Coherent(es)
  BY <1>7, <1>8, <1>9, <1>12, <1>13, <1>14 DEF Coherent
<1>16. ASSUME NEW p \in Paths
       PROVE  Denoted(es)[p] = tree[p]
  <2>1. CASE p \notin Present
    <3>1. p \notin Implied(es) /\ p \notin Names(es)
      BY <1>6, <1>10, <2>1
    <3> QED BY <1>1, <1>15, <2>1, <3>1, DenotedFacts DEF Present
  <2>2. ASSUME NEW i \in Named(es), es[i].name = p
        PROVE  Denoted(es)[p] = tree[p]
    <3>1. Denoted(es)[p] = [kind |-> es[i].kind, size |-> es[i].size]
      BY <1>1, <1>15, <2>2, DenotedFacts
    <3>2. tree[p] = [kind |-> tree[p].kind, size |-> tree[p].size]
      BY <1>1, NodeFacts
    <3> QED BY <1>4, <1>6, <2>2, <3>1, <3>2
  <2> QED BY <1>6, <2>1, <2>2 DEF Names
<1>17. Denoted(es) \in [Paths -> Nodes \cup {Nothing}]
  BY <1>1, <1>15, DenotedFacts
<1>18. Denoted(es) = tree
  BY <1>1, <1>16, <1>17
<1> QED BY <1>2, <1>15, <1>18

\* The agent's own validation finds in the output what the step left, or the end does
\* not fit, and the policy did not allow the tree.
LEMMA PackEndsWell ==
  ASSUME ExchangeInv, PackEnds
  PROVE  ExchangeInv'
<1> USE DEF ExchangeInv
<1>1. /\ pc = "pack" /\ Unpacked = {} /\ cause = "none" /\ host
      /\ archive.end = "zeros"
  BY DEF PackEnds, FlowInv, PackInv
<1>2. /\ Coherent(archive.entries) /\ Denoted(archive.entries) = tree /\ Packed = Present
  BY <1>1, PackedInFull
<1>3. CASE Length(archive) <= ArchiveBytes
  <2>1. pc' = "verify" /\ Unread /\ UNCHANGED <<cause, host, archive, tree, stored>>
    BY <1>3 DEF PackEnds
  <2>2. Admissible(archive)' /\ Denoted(archive'.entries) = tree'
    BY <1>1, <1>2, <1>3, <2>1 DEF Admissible, Length
  <2>3. archive' \in [entries : Seq(Foreign), end : Ends]
    BY <2>1 DEF FlowInv
  <2>4. ReadInv'
    BY <2>1, <2>3, StartsReading
  <2>5. FlowInv' /\ PackInv'
    BY <1>1, <2>1, <2>2, <2>3 DEF FlowInv, PackInv
  <2>6. InputIsRestored' /\ OutputIsPublished'
    BY <1>1, <2>1, <2>5, NoVerdict
  <2> QED BY <2>4, <2>5, <2>6
<1>4. CASE ~(Length(archive) <= ArchiveBytes)
  <2>1. FailsFor(pc)
    BY <1>4 DEF PackEnds, Refused
  <2>2. Length(archive) = Cardinality(Present) + total + 2
    <3>1. Cardinality(Packed) \in Nat /\ total \in Nat
      BY <1>1, PackedIsAPart, FS_CardinalityType
    <3> QED BY <1>1, <1>2, <3>1, PackedIsAPart DEF Length, Bytes
  <2>3. /\ total <= Payload(tree) /\ total \in Nat /\ Payload(tree) \in Nat
        /\ Cardinality(Present) \in Nat
    BY <1>1, <1>2, PartIsLess, PackedIsAPart DEF Part
  <2>4. ~Publishable
    BY <1>4, <2>2, <2>3, PolicyAssumption DEF Publishable
  <2> QED BY <1>1, <2>1, <2>4, FailureHasReason
<1> QED BY <1>3, <1>4

-----------------------------------------------------------------------------
(* The theorems.                                                           *)

\* A claim that begins has read, restored and packed nothing.
LEMMA ExchangeBegins == Init => ExchangeInv
<1> SUFFICES ASSUME Init PROVE ExchangeInv
  OBVIOUS
<1>1. /\ pc = "download" /\ cause = "none" /\ archive = NoFile /\ tree = Empty /\ stored = <<>>
  BY DEF Init
<1>2. archive \in [entries : Seq(Foreign), end : Ends] /\ tree \in [Paths -> Nodes \cup {Nothing}]
  BY <1>1, NothingMeans DEF NoFile, Ends, Empty
<1>3. FlowInv /\ ReadInv /\ PackInv
  BY <1>1, <1>2 DEF FlowInv, ReadInv, PackInv, Unpacking
<1>4. InputIsRestored /\ OutputIsPublished
  BY <1>1 DEF InputIsRestored, OutputIsPublished
<1> QED BY <1>3, <1>4 DEF ExchangeInv

\* Each step keeps the invariant: the transfers of Client.Staging, UnpackWithPolicy
\* entry by entry, the step itself, PackWithPolicy node by node, and the failures.
LEMMA ExchangeStep ==
  ASSUME ExchangeInv, [Next]_vars
  PROVE  ExchangeInv'
<1>1. CASE Transfer
  <2>1. CASE DownloadRetried
    <3>1. UNCHANGED <<pc, cause, host, archive, reader, tree, stored>>
      BY <2>1 DEF DownloadRetried
    <3> QED BY <3>1 DEF ExchangeInv, FlowInv, ReadInv, PackInv, InputIsRestored,
              OutputIsPublished, Unpacking, ReadSoFar, Known, Packed, Present, Admissible,
              Length, Publishable
  <2> QED BY <1>1, <2>1, DownloadedIsRead, UploadKeeps DEF Transfer
<1>2. CASE Unpack
  BY <1>2, SkipReads, AdmitReads, RefusedEntry, RefusedEnd, AcceptReads DEF Unpack
<1>3. CASE Publish
  BY <1>3, HostStepPacks, ContainerStepReads, PackEndsWell, PackEntryPacks, RefusedNode
  DEF Publish
<1>4. CASE Trouble
  <2>1. FailsFor("trouble")
    BY <1>4 DEF Trouble
  <2> QED BY <2>1, FailureHasReason
<1>5. CASE NextClaim
  BY <1>5, NextClaimStarts
<1>6. CASE UNCHANGED vars
  BY <1>6 DEF ExchangeInv, FlowInv, ReadInv, PackInv, InputIsRestored,
       OutputIsPublished, Unpacking, ReadSoFar, Known, Packed, Present, Admissible,
       Length, Publishable
<1> QED BY <1>1, <1>2, <1>3, <1>4, <1>5, <1>6 DEF Next

HIDE DEF vars, reader

\* seen, declared and total of UnpackWithPolicy always say what the entries it has read
\* mean, a workspace being restored is what they denote, and PackWithPolicy's counts
\* are those of the tree.
THEOREM ExchangeInvariant == Spec => []ExchangeInv
BY ExchangeBegins, ExchangeStep, PTL DEF Spec

\* What ValidateStageInput accepts without a directory can be restored in full, and is
\* what the policy allows, however many entries an archive has and whatever the limits.
THEOREM InputsAreRestored == Spec => []InputIsRestored
<1>1. ExchangeInv => InputIsRestored
  BY DEF ExchangeInv
<1> QED BY <1>1, ExchangeInvariant, PTL

\* publish uploads the step's tree, complete: neither PackWithPolicy nor the agent's own
\* validation refuses what the policy allows, and the server never has another output.
THEOREM OutputsArePublished == Spec => []OutputIsPublished
<1>1. ExchangeInv => OutputIsPublished
  BY DEF ExchangeInv
<1> QED BY <1>1, ExchangeInvariant, PTL
=============================================================================
