-------------------------- MODULE MemoryMapProofs ---------------------------
(***************************************************************************)
(* What is proved of MemoryMap, for every number of maps, entries and      *)
(* commands and every width of the address: with a careful user the lookup *)
(* finds the entry an address lies in, buffers fit their entries, and a    *)
(* sequence reaches the target in the special function areas only.         *)
(***************************************************************************)
EXTENDS MemoryMap, SequenceTheorems, TLAPS

(* What holds of an entry, of two entries of one map, and of a map.        *)
Good(e) == Fits(e.base, e.len) /\ (e.type = "UNUSED" => e.len = 0)

Apart(e, f) ==
    e.type # "UNUSED" /\ f.type # "UNUSED" =>
        e.base + e.len <= f.base \/ f.base + f.len <= e.base

GoodMap(es) ==
    /\ \A i \in DOMAIN es : Good(es[i])
    /\ \A i, j \in DOMAIN es : i # j => Apart(es[i], es[j])

Placed == \A m \in DOMAIN maps : GoodMap(maps[m])

(* A command remembers what the lookup finds in the map in use.            *)
Known(c) == c.at # None => c.home = active /\ c.at = Find(c.addr)

Remembers == \A s \in DOMAIN seqs : \A i \in DOMAIN seqs[s] : Known(seqs[s][i])

IInv == MapTypeOK /\ Placed /\ BuffersFit /\ WorkspaceFits /\ Remembers

-----------------------------------------------------------------------------
(* Lists.                                                                  *)
LEMMA ListOf ==
    ASSUME NEW S, NEW n \in Nat, NEW f \in [1 .. n -> S]
    PROVE  f \in Seq(S) /\ Len(f) = n /\ DOMAIN f = 1 .. n
OBVIOUS

(* A list that grows by n of the same x keeps what it had.                 *)
LEMMA Grown ==
    ASSUME NEW S, NEW es \in Seq(S), NEW n \in Nat, NEW f \in [1 .. n -> S]
    PROVE  /\ es \o f \in Seq(S)
           /\ Len(es \o f) = Len(es) + n
           /\ DOMAIN (es \o f) = 1 .. Len(es) + n
           /\ \A i \in DOMAIN es : i \in DOMAIN (es \o f) /\ (es \o f)[i] = es[i]
           /\ \A i \in DOMAIN (es \o f) \ DOMAIN es :
                i - Len(es) \in 1 .. n /\ (es \o f)[i] = f[i - Len(es)]
<1>1. f \in Seq(S) /\ Len(f) = n
    BY ListOf
<1>2. /\ es \o f \in Seq(S) /\ Len(es \o f) = Len(es) + Len(f)
      /\ \A i \in 1 .. Len(es) + Len(f) :
            (es \o f)[i] = IF i <= Len(es) THEN es[i] ELSE f[i - Len(es)]
    BY <1>1, ConcatProperties
<1>3. DOMAIN es = 1 .. Len(es) /\ DOMAIN (es \o f) = 1 .. Len(es \o f)
    BY <1>2
<1> QED
    BY <1>1, <1>2, <1>3

-----------------------------------------------------------------------------
(* Addresses.                                                              *)
LEMMA Sizes == M \in Nat /\ M > 0 /\ M = Half + Half /\ Half \in Nat
BY SizeAssumption DEF M

LEMMA CutBound ==
    ASSUME NEW n \in Nat
    PROVE  (n \div Page) * Page \in 0 .. n
<1>1. Page \in Nat /\ Page > 0
    BY SizeAssumption
<1>2. n \div Page \in Nat
    BY <1>1
<1>3. (n \div Page) * Page <= n
    BY <1>1, Z3
<1>4. (n \div Page) * Page \in Nat
    BY <1>1, <1>2
<1> QED
    BY <1>3, <1>4

(* findMemMapOfAddr decides for an entry whether an address lies in it.    *)
LEMMA HitIsExtent ==
    ASSUME NEW e \in Entry, Good(e), NEW a \in Addr
    PROVE  (a >= e.base /\ Reaches(e, a)) <=> a \in Extent(e)
<1>1. e.base \in Nat /\ e.len \in Nat /\ a \in Nat /\ e.base < M /\ a < M
    BY Sizes DEF Entry, Addr
<1>2. e.base + e.len <= M /\ (e.base < Half => e.base + e.len < M)
    BY DEF Good, Fits
<1>3. CASE e.base >= Half /\ a >= e.base
    <2>1. Wrap(a - Half) = a - Half
        BY <1>1, <1>3, Sizes DEF Wrap
    <2>2. Wrap(e.base - Half + e.len) = e.base - Half + e.len
        BY <1>1, <1>2, <1>3, Sizes DEF Wrap
    <2> QED
        BY <1>1, <1>3, <2>1, <2>2, Sizes DEF Reaches, Extent
<1>4. CASE e.base < Half
    <2>1. Wrap(e.base + e.len) = e.base + e.len
        BY <1>1, <1>2, <1>4, Sizes DEF Wrap
    <2> QED
        BY <1>1, <1>4, <2>1, Sizes DEF Reaches, Extent
<1>5. CASE a < e.base
    BY <1>1, <1>5 DEF Extent
<1> QED
    BY <1>1, <1>3, <1>4, <1>5, Sizes

(* The test of updateMemMap lets only regions through that are apart.      *)
LEMMA NoOverlap ==
    ASSUME NEW e \in Entry, Good(e), NEW base \in Addr, NEW len \in Addr,
           Fits(base, len), ~Overlaps(e, base, len)
    PROVE  e.base + e.len <= base \/ base + len <= e.base
<1>1. /\ e.base \in Nat /\ e.len \in Nat /\ base \in Nat /\ len \in Nat
      /\ e.base < M /\ base < M /\ e.base + e.len <= M /\ base + len <= M
    BY Sizes DEF Entry, Addr, Good, Fits
<1>2. CASE e.base <= base
    <2>1. Wrap(e.base + (e.len - 1)) < base
        BY <1>1, <1>2, Sizes DEF Overlaps, Wrap
    <2> QED
        BY <1>1, <1>2, <2>1, Sizes DEF Wrap
<1>3. CASE ~(e.base <= base)
    <2>1. Wrap(base + (len - 1)) < e.base
        BY <1>1, <1>3, Sizes DEF Overlaps, Wrap
    <2> QED
        BY <1>1, <1>3, <2>1, Sizes DEF Wrap
<1> QED
    BY <1>2, <1>3

(* So at most one entry is hit, the one an address lies in.                *)
LEMMA OneHit ==
    ASSUME MapTypeOK, Placed, active # None, NEW a \in Addr
    PROVE  /\ \A i \in DOMAIN Active : i \in Hits(a) <=> a \in Extent(Active[i])
           /\ \A i \in Hits(a) : i \in DOMAIN Active /\ i \in Nat \ {0}
           /\ \A i \in Hits(a) : Find(a) = i
           /\ Hits(a) = {} => Find(a) = None
<1>1. active \in DOMAIN maps /\ Active = maps[active]
    BY DEF Active, None, MapTypeOK
<1>2. Active \in Seq(Entry) /\ GoodMap(Active)
    BY <1>1 DEF MapTypeOK, Placed
<1>3. \A j \in DOMAIN Active : j \in Nat \ {0} /\ Active[j] \in Entry
    BY <1>2
<1>4. \A j \in DOMAIN Active : j \in Hits(a) <=> a \in Extent(Active[j])
    <2> TAKE j \in DOMAIN Active
    <2>1. Active[j] \in Entry /\ Good(Active[j])
        BY <1>2, <1>3 DEF GoodMap
    <2>2. (a >= Active[j].base /\ Reaches(Active[j], a)) <=> a \in Extent(Active[j])
        BY <2>1, HitIsExtent
    <2> QED
        BY <2>2 DEF Hits
<1>5. \A j \in Hits(a) : j \in DOMAIN Active
    BY DEF Hits
<1>6. ASSUME NEW j \in Hits(a), NEW k \in Hits(a)
      PROVE  j = k
    <2>1. j \in DOMAIN Active /\ k \in DOMAIN Active
        BY <1>5
    <2>2. /\ a \in Extent(Active[j]) /\ Good(Active[j]) /\ Active[j] \in Entry
          /\ a \in Extent(Active[k]) /\ Good(Active[k]) /\ Active[k] \in Entry
        BY <1>2, <1>3, <1>4, <2>1 DEF GoodMap
    <2>3. /\ Active[j].base \in Nat /\ Active[j].len \in Nat
          /\ Active[k].base \in Nat /\ Active[k].len \in Nat /\ a \in Nat
        BY <2>2 DEF Entry, Addr
    <2>4. Active[j].len # 0 /\ Active[k].len # 0
        BY <2>2, <2>3 DEF Extent
    <2>5. Active[j].type # "UNUSED" /\ Active[k].type # "UNUSED"
        BY <2>2, <2>4 DEF Good
    <2>6. j # k => Apart(Active[j], Active[k])
        BY <1>2, <2>1 DEF GoodMap
    <2> QED
        BY <2>2, <2>3, <2>5, <2>6 DEF Apart, Extent
<1>7. ASSUME NEW j \in Hits(a)
      PROVE  Find(a) = j
    <2>1. Hits(a) = {j}
        BY <1>6
    <2>2. j <= j
        BY <1>3, <1>5
    <2> QED
        BY <2>1, <2>2 DEF Find, First
<1>8. Hits(a) = {} => Find(a) = None
    BY DEF Find, First
<1> QED
    BY <1>3, <1>4, <1>5, <1>7, <1>8

(* The lookup in a good map is membership.                                 *)
LEMMA FindsEntry ==
    ASSUME MapTypeOK, Placed
    PROVE  LookupFinds
<1> SUFFICES ASSUME NEW a \in Addr, NEW i \in DOMAIN Active
             PROVE  a \in Extent(Active[i]) <=> Find(a) = i
    BY DEF LookupFinds
<1>1. active # None /\ i # None
    BY DEF Active, None, MapTypeOK
<1> QED
    BY <1>1, OneHit

-----------------------------------------------------------------------------
(* The steps.  A step that leaves the map in use as it is, and what is     *)
(* remembered of it.                                                       *)
LEMMA SameRest ==
    ASSUME IInv, Active' = Active, UNCHANGED <<active, work, seqs>>
    PROVE  WorkspaceFits' /\ Remembers'
<1>1. \A a : Find(a)' = Find(a)
    BY DEF Find, Hits
<1>2. WorkspaceFits'
    BY DEF IInv, WorkspaceFits, Usable
<1>3. Remembers'
    BY <1>1 DEF IInv, Remembers, Known
<1> QED
    BY <1>2, <1>3

LEMMA AllocMemMapsStep ==
    ASSUME IInv, NEW n \in Nat, AllocMemMaps(n)
    PROVE  IInv'
<1> DEFINE k == n - Len(maps)
           f == [i \in 1 .. k |-> <<>>]
<1>1. maps \in Seq(Seq(Entry)) /\ MapTypeOK
    BY DEF IInv, MapTypeOK
<1>2. k \in Nat /\ maps' = maps \o f
    BY <1>1 DEF AllocMemMaps
<1>3. f \in [1 .. k -> Seq(Entry)]
    BY <1>2
<1> HIDE DEF k, f
<1>4. /\ maps' \in Seq(Seq(Entry)) /\ Len(maps') = Len(maps) + k
      /\ \A m \in DOMAIN maps : m \in DOMAIN maps' /\ maps'[m] = maps[m]
      /\ \A m \in DOMAIN maps' \ DOMAIN maps :
            m - Len(maps) \in 1 .. k /\ maps'[m] = f[m - Len(maps)]
    BY <1>1, <1>2, <1>3, Grown
<1>5. \A m \in DOMAIN maps' \ DOMAIN maps : DOMAIN maps'[m] = {}
    BY <1>4 DEF f
<1>6. active = active' /\ Active' = Active
    BY <1>1, <1>4 DEF AllocMemMaps, Active, MapTypeOK, None
<1>7. MapTypeOK'
    <2>1. active' \in 0 .. Len(maps')
        BY <1>1, <1>2, <1>4, <1>6 DEF MapTypeOK
    <2>2. work' \in 0 .. Len(Active')
        BY <1>1, <1>6 DEF MapTypeOK, AllocMemMaps
    <2> QED
        BY <1>1, <1>4, <2>1, <2>2 DEF MapTypeOK, AllocMemMaps
<1>8. Placed'
    <2> SUFFICES ASSUME NEW m \in DOMAIN maps' PROVE GoodMap(maps'[m])
        BY DEF Placed
    <2>1. CASE m \in DOMAIN maps
        BY <1>4, <2>1 DEF IInv, Placed
    <2>2. CASE m \notin DOMAIN maps
        BY <1>5, <2>2 DEF GoodMap
    <2> QED
        BY <2>1, <2>2
<1>9. BuffersFit'
    BY <1>4, <1>5, <1>6 DEF IInv, BuffersFit
<1> QED
    BY <1>6, <1>7, <1>8, <1>9, SameRest DEF IInv, AllocMemMaps

(* An entry that is not used is out of every lookup.                       *)
LEMMA UnusedIsGood ==
    /\ Unused \in Entry /\ Good(Unused)
    /\ \A e : Apart(e, Unused) /\ Apart(Unused, e)
    /\ \A b : Owned(Unused, b)
    /\ \A a \in Addr : ~Reaches(Unused, a)
<1>1. Unused \in Entry
    BY Sizes DEF Unused, Entry, Types, Addr, NoBuf
<1>2. Good(Unused)
    BY Sizes, SizeAssumption DEF Good, Fits, Unused
<1>3. \A a \in Addr : ~Reaches(Unused, a)
    BY Sizes, SizeAssumption DEF Reaches, Unused, Wrap, Addr
<1>4. \A b : Owned(Unused, b)
    BY DEF Owned, Unused
<1>5. \A e : Apart(e, Unused) /\ Apart(Unused, e)
    BY DEF Apart, Unused
<1> QED
    BY <1>1, <1>2, <1>3, <1>4, <1>5

(* A change of the entries of one map.                                     *)
LEMMA MapReplaced ==
    ASSUME IInv, NEW m \in DOMAIN maps, NEW es \in Seq(Entry), GoodMap(es),
           \A i \in DOMAIN es : Owned(es[i], m = active),
           maps' = [maps EXCEPT ![m] = es], active' = active
    PROVE  /\ maps' \in Seq(Seq(Entry)) /\ active' \in 0 .. Len(maps')
           /\ Placed' /\ BuffersFit'
           /\ Active' = IF m = active THEN es ELSE Active
<1>1. maps \in Seq(Seq(Entry)) /\ active \in 0 .. Len(maps)
    BY DEF IInv, MapTypeOK
<1>2. /\ maps' \in Seq(Seq(Entry)) /\ Len(maps') = Len(maps)
      /\ DOMAIN maps' = DOMAIN maps
      /\ \A j \in DOMAIN maps : maps'[j] = IF j = m THEN es ELSE maps[j]
    BY <1>1, ExceptSeq
<1>3. Placed'
    BY <1>2 DEF IInv, Placed
<1>4. BuffersFit'
    BY <1>2 DEF IInv, BuffersFit
<1>5. Active' = IF m = active THEN es ELSE Active
    BY <1>1, <1>2 DEF Active, None
<1> QED
    BY <1>1, <1>2, <1>3, <1>4, <1>5

LEMMA AllocateMemMapEntrysStep ==
    ASSUME IInv, NEW m, NEW n \in Nat, AllocateMemMapEntrys(m, n)
    PROVE  IInv'
<1> DEFINE k  == n - Len(maps[m])
           f  == [i \in 1 .. k |-> Unused]
           es == maps[m] \o f
<1>1. /\ maps \in Seq(Seq(Entry)) /\ MapTypeOK
      /\ m \in DOMAIN maps /\ maps[m] \in Seq(Entry) /\ GoodMap(maps[m])
    BY DEF IInv, MapTypeOK, Placed, AllocateMemMapEntrys
<1>2. k \in Nat /\ maps' = [maps EXCEPT ![m] = es]
    BY <1>1 DEF AllocateMemMapEntrys
<1>3. f \in [1 .. k -> Entry]
    BY UnusedIsGood
<1> HIDE DEF k, f
<1>4. /\ es \in Seq(Entry) /\ Len(es) = Len(maps[m]) + k
      /\ DOMAIN es = 1 .. Len(maps[m]) + k
      /\ \A i \in DOMAIN maps[m] : i \in DOMAIN es /\ es[i] = maps[m][i]
      /\ \A i \in DOMAIN es \ DOMAIN maps[m] :
            i - Len(maps[m]) \in 1 .. k /\ es[i] = f[i - Len(maps[m])]
    <2>1. maps[m] \in Seq(Entry) /\ k \in Nat /\ f \in [1 .. k -> Entry]
        BY <1>1, <1>2, <1>3
    <2> QED
        BY ONLY <2>1, Grown
<1>5. \A i \in DOMAIN es \ DOMAIN maps[m] : es[i] = Unused
    <2>1. \A j \in 1 .. k : f[j] = Unused
        BY DEF f
    <2> HIDE DEF es
    <2> QED
        BY <1>4, <2>1
<1> HIDE DEF es
<1>6. GoodMap(es)
    BY <1>1, <1>4, <1>5, UnusedIsGood DEF GoodMap
<1>7. \A i \in DOMAIN es : Owned(es[i], m = active)
    BY <1>1, <1>4, <1>5, UnusedIsGood DEF IInv, BuffersFit
<1>8. active' = active /\ work' = work /\ seqs' = seqs
    BY DEF AllocateMemMapEntrys
<1>9. /\ maps' \in Seq(Seq(Entry)) /\ active' \in 0 .. Len(maps')
      /\ Placed' /\ BuffersFit'
      /\ Active' = IF m = active THEN es ELSE Active
    BY <1>1, <1>2, <1>4, <1>6, <1>7, <1>8, MapReplaced
<1>10. m = active => Active = maps[m]
    BY <1>1 DEF Active, None
<1>11. /\ \A i \in DOMAIN Active : i \in DOMAIN Active' /\ Active'[i] = Active[i]
       /\ \A i \in DOMAIN Active' \ DOMAIN Active : Active'[i] = Unused
       /\ work' \in 0 .. Len(Active')
    BY <1>1, <1>2, <1>4, <1>5, <1>8, <1>9, <1>10 DEF MapTypeOK
<1>12. \A a \in Addr : Hits(a)' = Hits(a)
    BY <1>11, UnusedIsGood DEF Hits, Reaches
<1>13. \A a \in Addr : Find(a)' = Find(a)
    BY <1>12 DEF Find
<1>14. MapTypeOK'
    BY <1>1, <1>9, <1>11 DEF MapTypeOK, AllocateMemMapEntrys
<1>15. WorkspaceFits'
    BY <1>8, <1>11 DEF IInv, WorkspaceFits, Usable
<1>16. Remembers'
    <2> SUFFICES ASSUME NEW s \in DOMAIN seqs, NEW i \in DOMAIN seqs[s]
                 PROVE  Known(seqs[s][i])'
        BY <1>8 DEF Remembers
    <2>1. seqs[s][i].addr \in Addr /\ Known(seqs[s][i])
        <3>1. seqs[s] \in Seq(Command)
            BY <1>1 DEF MapTypeOK
        <3>2. seqs[s][i] \in Command
            BY <3>1
        <3> QED
            BY <3>2 DEF Command, IInv, Remembers
    <2>2. Find(seqs[s][i].addr)' = Find(seqs[s][i].addr)
        BY <1>8, <1>13, <2>1
    <2> QED
        BY <1>8, <2>1, <2>2 DEF Known
<1> QED
    BY <1>9, <1>14, <1>15, <1>16 DEF IInv

LEMMA UpdateMemMapStep ==
    ASSUME IInv, Careful, NEW m, NEW e, NEW type \in Types, NEW base \in Addr,
           NEW len \in Addr, UpdateMemMap(m, e, type, base, len)
    PROVE  IInv'
<1> DEFINE new == Changed(maps[m][e], type, base, len)
           es  == [maps[m] EXCEPT ![e] = new]
<1>1. /\ maps \in Seq(Seq(Entry)) /\ MapTypeOK
      /\ m \in DOMAIN maps /\ maps[m] \in Seq(Entry) /\ GoodMap(maps[m])
      /\ e \in DOMAIN maps[m] /\ maps[m][e] \in Entry
    BY DEF IInv, MapTypeOK, Placed, UpdateMemMap
<1>2. /\ m # active /\ Fits(base, len) /\ (type = "UNUSED" => len = 0)
      /\ maps' = [maps EXCEPT ![m] = es]
    BY DEF UpdateMemMap
<1>3. /\ new \in Entry /\ new.type = type /\ new.base = base /\ new.len = len
      /\ new.made = maps[m][e].made
      /\ new.sectors = (maps[m][e].sectors /\ maps[m][e].type # "FLASH")
    BY <1>1 DEF Changed, Entry
<1> HIDE DEF new
<1>4. /\ es \in Seq(Entry) /\ DOMAIN es = DOMAIN maps[m]
      /\ \A i \in DOMAIN es : es[i] = IF i = e THEN new ELSE maps[m][i]
    BY <1>1, <1>3, ExceptSeq
<1> HIDE DEF es
<1>5. GoodMap(es)
    <2>1. \A i \in DOMAIN es : Good(es[i])
        BY <1>1, <1>2, <1>3, <1>4 DEF GoodMap, Good
    <2>2. ASSUME NEW i \in DOMAIN es, i # e
          PROVE  Apart(es[i], new) /\ Apart(new, es[i])
        <3>1. es[i] = maps[m][i] /\ es[i] \in Entry /\ Good(es[i])
            BY <1>1, <1>4, <2>1, <2>2
        <3>2. type # "UNUSED" /\ es[i].type # "UNUSED" => ~Overlaps(es[i], base, len)
            BY <1>4, <2>2, <3>1 DEF UpdateMemMap
        <3>3. type # "UNUSED" /\ es[i].type # "UNUSED" =>
                es[i].base + es[i].len <= base \/ base + len <= es[i].base
            BY <1>2, <3>1, <3>2, NoOverlap
        <3> QED
            BY <1>3, <3>3 DEF Apart
    <2>3. \A i, j \in DOMAIN es : i # j => Apart(es[i], es[j])
        BY <1>1, <1>4, <2>2 DEF GoodMap
    <2> QED
        BY <2>1, <2>3 DEF GoodMap
<1>6. \A i \in DOMAIN es : Owned(es[i], m = active)
    BY <1>1, <1>2, <1>3, <1>4 DEF IInv, BuffersFit, Owned
<1>7. active' = active /\ work' = work /\ seqs' = seqs
    BY DEF UpdateMemMap
<1>8. /\ maps' \in Seq(Seq(Entry)) /\ active' \in 0 .. Len(maps')
      /\ Placed' /\ BuffersFit' /\ Active' = Active
    BY <1>1, <1>2, <1>4, <1>5, <1>6, <1>7, MapReplaced
<1>9. MapTypeOK'
    BY <1>1, <1>7, <1>8 DEF MapTypeOK, UpdateMemMap
<1> QED
    BY <1>7, <1>8, <1>9, SameRest DEF IInv

-----------------------------------------------------------------------------
(* What changeWorkSpaceMode may set up.                                    *)
LEMMA ChosenFits ==
    ASSUME NEW es \in Seq(Entry), NEW w, NEW mode, Usable(es, w),
           NEW x \in Works(es, w, mode)
    PROVE  Usable(es, x)
BY DEF Usable, Works, Highest, Tops

LEMMA FirstFits ==
    ASSUME NEW es \in Seq(Entry), NEW w \in Firsts(es)
    PROVE  Usable(es, w)
BY DEF Usable, Firsts, Alones

LEMMA ChangeModeStep ==
    ASSUME IInv, NEW mode \in {0, 1, 2}, NEW pending,
           ChangeWorkSpaceMode(mode, pending)
    PROVE  IInv'
<1>1. /\ MapTypeOK /\ Placed /\ BuffersFit /\ Usable(Active, work)
      /\ maps' = maps /\ active' = active /\ seqs' = seqs /\ Active' = Active
    BY DEF IInv, WorkspaceFits, ChangeWorkSpaceMode, Active
<1>2. Active \in Seq(Entry)
    BY <1>1 DEF MapTypeOK, Active, None
<1>3. work' = work \/ work' \in Works(Active, work, mode)
    BY DEF ChangeWorkSpaceMode
<1>4. Usable(Active, work')
    BY <1>1, <1>2, <1>3, ChosenFits
<1>5. work' \in 0 .. Len(Active)
    BY <1>2, <1>4 DEF Usable, None
<1>6. wsMode' \in {-2, -1, 0, 1, 2}
    BY <1>1 DEF ChangeWorkSpaceMode, ModeKept, MapTypeOK
<1>7. MapTypeOK'
    BY <1>1, <1>5, <1>6 DEF MapTypeOK, ChangeWorkSpaceMode
<1>8. Placed' /\ BuffersFit' /\ WorkspaceFits'
    BY <1>1, <1>4 DEF Placed, BuffersFit, WorkspaceFits
<1>9. Remembers'
    <2>1. \A a : Find(a)' = Find(a)
        BY <1>1 DEF Find, Hits
    <2> QED
        BY <1>1, <2>1 DEF IInv, Remembers, Known
<1> QED
    BY <1>7, <1>8, <1>9 DEF IInv

-----------------------------------------------------------------------------
(* Giving a map up, and taking one into use.                               *)
LEMMA ReleasedEntry ==
    ASSUME NEW e \in Entry, Good(e), NEW b, Owned(e, b)
    PROVE  /\ Released(e) \in Entry /\ Good(Released(e))
           /\ Released(e).made = NoBuf /\ ~Released(e).sectors
           /\ Released(e).type = e.type /\ Released(e).base = e.base
           /\ Released(e).len = e.len /\ Owned(Released(e), FALSE)
<1>1. NoBuf \in Types \X Addr
    BY Sizes DEF NoBuf, Types, Addr
<1>2. e.sectors => e.type = "FLASH"
    BY DEF Owned
<1>3. e.sectors \in BOOLEAN
    BY DEF Entry
<1>4. /\ Released(e).made = NoBuf /\ Released(e).type = e.type
      /\ Released(e).base = e.base /\ Released(e).len = e.len
      /\ Released(e).sectors = (e.sectors /\ e.type # "FLASH")
    BY DEF Released, Entry
<1>5. Released(e).sectors = FALSE
    BY <1>2, <1>3, <1>4
<1>6. Released(e) \in Entry
    BY <1>1, <1>3 DEF Released, Entry
<1> QED
    BY <1>4, <1>5, <1>6 DEF Good, Owned

LEMMA ReleasedMap ==
    ASSUME IInv
    PROVE  /\ ReleasedMaps \in Seq(Seq(Entry)) /\ Len(ReleasedMaps) = Len(maps)
           /\ \A m \in DOMAIN maps :
                /\ ReleasedMaps[m] \in Seq(Entry) /\ GoodMap(ReleasedMaps[m])
                /\ \A i \in DOMAIN ReleasedMaps[m] :
                      Owned(ReleasedMaps[m][i], FALSE)
<1>1. /\ maps \in Seq(Seq(Entry)) /\ active \in 0 .. Len(maps)
      /\ \A m \in DOMAIN maps : maps[m] \in Seq(Entry) /\ GoodMap(maps[m])
    BY DEF IInv, MapTypeOK, Placed
<1>2. CASE active = None
    <2>1. \A m \in DOMAIN maps : m # active
        BY <1>1, <1>2 DEF None
    <2>2. ASSUME NEW m \in DOMAIN maps, NEW i \in DOMAIN maps[m]
          PROVE  Owned(maps[m][i], FALSE)
        BY <2>1 DEF IInv, BuffersFit, Owned
    <2> QED
        BY <1>1, <1>2, <2>2 DEF ReleasedMaps
<1>3. CASE active # None
    <2> DEFINE es == [i \in DOMAIN maps[active] |-> Released(maps[active][i])]
    <2>1. active \in DOMAIN maps /\ ReleasedMaps = [maps EXCEPT ![active] = es]
        BY <1>1, <1>3 DEF None, ReleasedMaps
    <2>2. ASSUME NEW i \in DOMAIN maps[active]
          PROVE  /\ maps[active][i] \in Entry /\ Good(maps[active][i])
                 /\ Owned(maps[active][i], TRUE)
        BY <1>1, <2>1, <2>2 DEF GoodMap, IInv, BuffersFit, Owned
    <2>3. ASSUME NEW i \in DOMAIN maps[active]
          PROVE  /\ es[i] \in Entry /\ Good(es[i]) /\ Owned(es[i], FALSE)
                 /\ es[i].type = maps[active][i].type
                 /\ es[i].base = maps[active][i].base
                 /\ es[i].len = maps[active][i].len
        BY <2>2, ReleasedEntry
    <2>4. DOMAIN es = DOMAIN maps[active] /\ es \in Seq(Entry)
        <3>1. DOMAIN maps[active] = 1 .. Len(maps[active])
              /\ Len(maps[active]) \in Nat
            BY <1>1, <2>1
        <3>2. es \in [1 .. Len(maps[active]) -> Entry]
            BY <2>3, <3>1
        <3> QED
            BY <3>1, <3>2, ListOf
    <2> HIDE DEF es
    <2>5. GoodMap(es)
        BY <1>1, <2>1, <2>3, <2>4 DEF GoodMap, Apart
    <2>6. ReleasedMaps \in Seq(Seq(Entry)) /\ Len(ReleasedMaps) = Len(maps)
          /\ \A m \in DOMAIN maps :
                ReleasedMaps[m] = IF m = active THEN es ELSE maps[m]
        BY <1>1, <2>1, <2>4, ExceptSeq
    <2>7. ASSUME NEW m \in DOMAIN maps, m # active, NEW i \in DOMAIN maps[m]
          PROVE  Owned(maps[m][i], FALSE)
        BY <2>7 DEF IInv, BuffersFit, Owned
    <2> QED
        BY <1>1, <2>3, <2>4, <2>5, <2>6, <2>7
<1> QED
    BY <1>2, <1>3

LEMMA BlankCommand ==
    ASSUME NEW c \in Command
    PROVE  Blank(c) \in Command /\ Blank(c).at = None
BY DEF Blank, Command, None

LEMMA ForgottenKnows ==
    ASSUME MapTypeOK
    PROVE  /\ Forgotten \in Seq(Seq(Command))
           /\ \A s \in DOMAIN Forgotten : \A i \in DOMAIN Forgotten[s] :
                Forgotten[s][i].at = None
<1>1. seqs \in Seq(Seq(Command))
    BY DEF MapTypeOK
<1>2. ASSUME NEW s \in DOMAIN seqs
      PROVE  /\ Forgotten[s] \in Seq(Command)
             /\ \A i \in DOMAIN Forgotten[s] : Forgotten[s][i].at = None
    <2> DEFINE f == [i \in DOMAIN seqs[s] |-> Blank(seqs[s][i])]
    <2>1. seqs[s] \in Seq(Command) /\ Forgotten[s] = f
        BY <1>1 DEF Forgotten
    <2>2. Len(seqs[s]) \in Nat /\ DOMAIN seqs[s] = 1 .. Len(seqs[s])
        BY <2>1
    <2>3. \A i \in DOMAIN seqs[s] : seqs[s][i] \in Command
        BY <2>1
    <2>4. \A i \in DOMAIN f : f[i] \in Command /\ f[i].at = None
        BY <2>3, BlankCommand
    <2>5. f \in [1 .. Len(seqs[s]) -> Command]
        BY <2>2, <2>4
    <2> HIDE DEF f
    <2>6. f \in Seq(Command)
        BY <2>2, <2>5, ListOf
    <2> QED
        BY <2>1, <2>4, <2>6
<1>3. Len(seqs) \in Nat /\ DOMAIN seqs = 1 .. Len(seqs)
    BY <1>1
<1>4. DOMAIN Forgotten = DOMAIN seqs
    BY DEF Forgotten
<1>5. Forgotten \in [1 .. Len(seqs) -> Seq(Command)]
    BY <1>2, <1>3 DEF Forgotten
<1>6. Forgotten \in Seq(Seq(Command))
    BY <1>3, <1>5, ListOf
<1> QED
    BY <1>2, <1>4, <1>6

LEMMA NoMemMapStep ==
    ASSUME IInv, NoMemMap
    PROVE  IInv'
<1>1. /\ maps' = ReleasedMaps /\ active' = None /\ work' = None
      /\ seqs' = Forgotten /\ MapTypeOK
    BY DEF IInv, NoMemMap
<1>2. Active' = <<>>
    BY <1>1 DEF Active
<1>3. maps' \in Seq(Seq(Entry)) /\ Len(maps') = Len(maps) /\ Len(maps) \in Nat
    BY <1>1, ReleasedMap DEF MapTypeOK
<1>4. seqs' \in Seq(Seq(Command)) /\ Remembers'
    BY <1>1, ForgottenKnows DEF Remembers, Known
<1>5. MapTypeOK'
    <2>1. active' \in 0 .. Len(maps') /\ work' \in 0 .. Len(Active')
        BY <1>1, <1>2, <1>3 DEF None
    <2>2. wsMode' = wsMode /\ bound' = bound /\ io' = {}
        BY DEF NoMemMap
    <2> QED
        BY <1>1, <1>3, <1>4, <2>1, <2>2 DEF MapTypeOK
<1>6. DOMAIN maps' = DOMAIN maps /\ \A m \in DOMAIN maps : m # None
    BY <1>1, <1>3 DEF MapTypeOK, None
<1>7. Placed' /\ BuffersFit'
    BY <1>1, <1>6, ReleasedMap DEF Placed, BuffersFit, Owned
<1>8. WorkspaceFits'
    BY <1>1 DEF WorkspaceFits, Usable
<1> QED
    BY <1>4, <1>5, <1>7, <1>8 DEF IInv

LEMMA ActivatedEntry ==
    ASSUME NEW e \in Entry, Good(e), Owned(e, FALSE), NEW found \in BOOLEAN
    PROVE  /\ Activated(e, found) \in Entry /\ Good(Activated(e, found))
           /\ Activated(e, found).type = e.type
           /\ Activated(e, found).base = e.base
           /\ Activated(e, found).len <= e.len
           /\ Owned(Activated(e, found), TRUE)
<1>1. /\ e.len \in Nat /\ e.base \in Nat /\ e.len < M
      /\ e.type \in Types /\ e.sectors = FALSE
    BY Sizes DEF Entry, Addr, Owned
<1>2. Cut(e) \in 0 .. e.len
    BY <1>1, CutBound DEF Cut
<1>3. Cut(e) \in Addr
    BY <1>1, <1>2, Sizes DEF Addr
<1>4. Made(e) \in Types \X Addr
    BY <1>1, <1>3, Sizes DEF Made, NoBuf, Types, Addr
<1>5. /\ Activated(e, found).type = e.type /\ Activated(e, found).base = e.base
      /\ Activated(e, found).len = Cut(e) /\ Activated(e, found).made = Made(e)
      /\ Activated(e, found).sectors = (e.type = "FLASH" /\ found)
    BY <1>1 DEF Activated, Entry
<1>6. Activated(e, found) \in Entry
    <2>1. (e.sectors \/ (e.type = "FLASH" /\ found)) \in BOOLEAN
        OBVIOUS
    <2> QED
        BY <1>3, <1>4, <2>1 DEF Activated, Entry
<1>7. Good(Activated(e, found))
    <2>1. /\ e.base + e.len <= M /\ (e.base < Half => e.base + e.len < M)
          /\ (e.type = "UNUSED" => e.len = 0)
        BY DEF Good, Fits
    <2>2. /\ e.base + Cut(e) <= M /\ (e.base < Half => e.base + Cut(e) < M)
          /\ (e.type = "UNUSED" => Cut(e) = 0)
        BY <1>1, <1>2, <2>1, Sizes
    <2> QED
        BY <1>5, <2>2 DEF Good, Fits
<1>8. e.type \in {"FLASH", "UNREAL"} => Made(e) # NoBuf
    BY <1>1 DEF Made, Mapped, Cut, Buffered, NoBuf
<1>9. Made(e) # NoBuf => Made(e) = <<e.type, Cut(e)>>
    BY DEF Made
<1>10. Owned(Activated(e, found), TRUE)
    <2>1. Activated(e, found).sectors => e.type = "FLASH"
        BY <1>5
    <2> QED
        BY <1>5, <1>8, <1>9, <2>1 DEF Owned
<1>11. Cut(e) <= e.len
    BY <1>1, <1>2
<1> QED
    BY <1>5, <1>6, <1>7, <1>10, <1>11, Zenon

LEMMA NewMap ==
    ASSUME IInv, NEW m \in DOMAIN maps, NEW found
    PROVE  /\ NewEntries(m, found) \in Seq(Entry)
           /\ GoodMap(NewEntries(m, found))
           /\ \A i \in DOMAIN NewEntries(m, found) :
                Owned(NewEntries(m, found)[i], TRUE)
<1> DEFINE old == ReleasedMaps[m]
           es  == NewEntries(m, found)
<1>1. /\ old \in Seq(Entry) /\ GoodMap(old)
      /\ \A i \in DOMAIN old : Owned(old[i], FALSE)
    BY ReleasedMap
<1>2. /\ DOMAIN es = DOMAIN old
      /\ \A i \in DOMAIN old : es[i] = Activated(old[i], i \in found)
    BY DEF NewEntries
<1> HIDE DEF old, es
<1>3. ASSUME NEW i \in DOMAIN old
      PROVE  /\ es[i] \in Entry /\ Good(es[i]) /\ Owned(es[i], TRUE)
             /\ es[i].type = old[i].type /\ es[i].base = old[i].base
             /\ es[i].len <= old[i].len /\ old[i] \in Entry
    <2>1. old[i] \in Entry
        BY <1>1
    <2>2. Good(old[i])
        BY <1>1 DEF GoodMap
    <2>3. old[i] \in Entry /\ Good(old[i]) /\ Owned(old[i], FALSE)
        BY <1>1, <2>1, <2>2
    <2>4. PICK b \in BOOLEAN : es[i] = Activated(old[i], b)
        <3>1. (i \in found) \in BOOLEAN
            OBVIOUS
        <3> QED
            BY <1>2, <3>1, Zenon
    <2> DEFINE a == Activated(old[i], b)
    <2>5. /\ a \in Entry /\ Good(a) /\ Owned(a, TRUE)
          /\ a.type = old[i].type /\ a.base = old[i].base /\ a.len <= old[i].len
        BY <2>3, ActivatedEntry, Zenon
    <2> QED
        BY <2>3, <2>4, <2>5, Zenon
<1>4. es \in Seq(Entry)
    <2>1. Len(old) \in Nat /\ DOMAIN old = 1 .. Len(old)
        BY <1>1
    <2>2. es \in [1 .. Len(old) -> Entry]
        BY <1>2, <1>3, <2>1 DEF es, NewEntries, old
    <2> QED
        BY <2>1, <2>2, ListOf
<1>5. ASSUME NEW i \in DOMAIN es, NEW j \in DOMAIN es, i # j
      PROVE  Apart(es[i], es[j])
    <2>1. i \in DOMAIN old /\ j \in DOMAIN old
        BY <1>2
    <2>2. /\ old[i] \in Entry /\ old[j] \in Entry
          /\ es[i] \in Entry /\ es[j] \in Entry
          /\ es[i].type = old[i].type /\ es[i].base = old[i].base
          /\ es[i].len <= old[i].len
          /\ es[j].type = old[j].type /\ es[j].base = old[j].base
          /\ es[j].len <= old[j].len
        BY <1>3, <2>1
    <2>3. Apart(old[i], old[j])
        BY <1>1, <1>5, <2>1 DEF GoodMap
    <2>4. /\ old[i].base \in Int /\ old[i].len \in Int /\ es[i].len \in Int
          /\ old[j].base \in Int /\ old[j].len \in Int /\ es[j].len \in Int
        BY <2>2 DEF Entry, Addr
    <2> QED
        BY <2>3, <2>4, <2>2 DEF Apart
<1> QED
    BY <1>2, <1>3, <1>4, <1>5 DEF GoodMap, es

LEMMA UseMemMapStep ==
    ASSUME IInv, NEW m, NEW found, NEW pending, UseMemMap(m, found, pending)
    PROVE  IInv'
<1> DEFINE es == NewEntries(m, found)
<1>1. /\ m \in DOMAIN maps /\ maps' = [ReleasedMaps EXCEPT ![m] = es]
      /\ active' = m /\ seqs' = Forgotten /\ MapTypeOK /\ m # None
    BY DEF UseMemMap, IInv, MapTypeOK, None
<1>2. /\ es \in Seq(Entry) /\ GoodMap(es)
      /\ \A i \in DOMAIN es : Owned(es[i], TRUE)
    BY <1>1, NewMap
<1> HIDE DEF es
<1>3. /\ ReleasedMaps \in Seq(Seq(Entry)) /\ DOMAIN ReleasedMaps = DOMAIN maps
      /\ Len(ReleasedMaps) = Len(maps) /\ Len(maps) \in Nat
    BY <1>1, ReleasedMap DEF MapTypeOK
<1>4. /\ maps' \in Seq(Seq(Entry)) /\ Len(maps') = Len(maps)
      /\ DOMAIN maps' = DOMAIN maps
      /\ \A k \in DOMAIN maps : maps'[k] = IF k = m THEN es ELSE ReleasedMaps[k]
    BY <1>1, <1>2, <1>3, ExceptSeq
<1>5. Active' = es /\ maps'[m] = es /\ active' \in 0 .. Len(maps')
    BY <1>1, <1>4 DEF Active, MapTypeOK
<1>6. Placed' /\ BuffersFit'
    <2>1. ASSUME NEW k \in DOMAIN maps
          PROVE  /\ GoodMap(maps'[k])
                 /\ \A i \in DOMAIN maps'[k] : Owned(maps'[k][i], k = m)
        <3>1. CASE k = m
            BY <1>2, <1>4, <3>1
        <3>2. CASE k # m
            BY <1>4, <3>2, ReleasedMap
        <3> QED
            BY <3>1, <3>2
    <2> QED
        BY <1>1, <1>4, <2>1 DEF Placed, BuffersFit
<1>7. Usable(es, work') /\ wsMode' \in {-2, -1, 0, 1, 2}
    <2>1. PICK w \in Firsts(es) :
              IF wsMode = -1 THEN work' = w /\ wsMode' = -1
              ELSE IF pending THEN work' = w /\ wsMode' = -2
              ELSE /\ work' \in Works(es, w, wsMode)
                   /\ wsMode' = ModeKept(es, w, -1, wsMode)
        BY <1>5 DEF UseMemMap
    <2>2. Usable(es, w)
        BY <1>2, <2>1, FirstFits
    <2>3. work' = w \/ work' \in Works(es, w, wsMode)
        BY <2>1
    <2>4. Usable(es, work')
        BY <1>2, <2>2, <2>3, ChosenFits
    <2>5. wsMode' \in {-2, -1, 0, 1, 2}
        BY <1>1, <2>1 DEF ModeKept, MapTypeOK
    <2> QED
        BY <2>4, <2>5
<1>8. work' \in 0 .. Len(Active')
    BY <1>2, <1>5, <1>7 DEF Usable, None
<1>9. seqs' \in Seq(Seq(Command)) /\ Remembers'
    BY <1>1, ForgottenKnows DEF Remembers, Known
<1>10. MapTypeOK'
    <2>1. bound' = bound /\ io' = {}
        BY DEF UseMemMap
    <2> QED
        BY <1>1, <1>4, <1>5, <1>7, <1>8, <1>9, <2>1 DEF MapTypeOK
<1>11. WorkspaceFits'
    BY <1>5, <1>7 DEF WorkspaceFits, Usable
<1> QED
    BY <1>6, <1>9, <1>10, <1>11 DEF IInv

-----------------------------------------------------------------------------
(* Command sequences.                                                      *)
LEMMA SeqsStep ==
    ASSUME IInv, UNCHANGED mapvars, seqs' \in Seq(Seq(Command)),
           bound' \in [Hooks -> Nat], io' \subseteq Nat,
           \A s \in DOMAIN seqs' : \A i \in DOMAIN seqs'[s] : Known(seqs'[s][i])
    PROVE  IInv'
<1>1. /\ maps' = maps /\ active' = active /\ work' = work
      /\ wsMode' = wsMode /\ Active' = Active
    BY DEF mapvars, Active
<1>2. \A a : Find(a)' = Find(a)
    BY <1>1 DEF Find, Hits
<1>3. MapTypeOK'
    BY <1>1 DEF IInv, MapTypeOK
<1>4. Placed' /\ BuffersFit' /\ WorkspaceFits'
    BY <1>1 DEF IInv, Placed, BuffersFit, WorkspaceFits
<1>5. Remembers'
    BY <1>1, <1>2 DEF Remembers, Known
<1> QED
    BY <1>3, <1>4, <1>5 DEF IInv

LEMMA AllocSeqsStep ==
    ASSUME IInv, NEW n \in Nat, AllocCmdSeqences(n)
    PROVE  IInv'
<1> DEFINE k == n - Len(seqs)
           f == [i \in 1 .. k |-> <<>>]
<1>1. seqs \in Seq(Seq(Command)) /\ bound \in [Hooks -> Nat]
    BY DEF IInv, MapTypeOK
<1>2. k \in Nat /\ seqs' = seqs \o f /\ f \in [1 .. k -> Seq(Command)]
    BY <1>1 DEF AllocCmdSeqences
<1> HIDE DEF k, f
<1>3. /\ seqs' \in Seq(Seq(Command))
      /\ \A s \in DOMAIN seqs : s \in DOMAIN seqs' /\ seqs'[s] = seqs[s]
      /\ \A s \in DOMAIN seqs' \ DOMAIN seqs :
            s - Len(seqs) \in 1 .. k /\ seqs'[s] = f[s - Len(seqs)]
    BY <1>1, <1>2, Grown
<1>4. \A s \in DOMAIN seqs' \ DOMAIN seqs : DOMAIN seqs'[s] = {}
    BY <1>3 DEF f
<1>5. \A s \in DOMAIN seqs' : \A i \in DOMAIN seqs'[s] : Known(seqs'[s][i])
    BY <1>3, <1>4 DEF IInv, Remembers
<1> QED
    BY <1>1, <1>3, <1>5, SeqsStep DEF AllocCmdSeqences

(* A change of the commands of one sequence.                               *)
LEMMA SeqReplaced ==
    ASSUME IInv, NEW s \in DOMAIN seqs, NEW cs \in Seq(Command),
           \A i \in DOMAIN cs : Known(cs[i]),
           seqs' = [seqs EXCEPT ![s] = cs],
           UNCHANGED <<mapvars, bound>>, io' \subseteq Nat
    PROVE  IInv'
<1>1. seqs \in Seq(Seq(Command)) /\ bound \in [Hooks -> Nat]
    BY DEF IInv, MapTypeOK
<1>2. /\ seqs' \in Seq(Seq(Command)) /\ DOMAIN seqs' = DOMAIN seqs
      /\ \A r \in DOMAIN seqs : seqs'[r] = IF r = s THEN cs ELSE seqs[r]
    BY <1>1, ExceptSeq
<1>3. \A r \in DOMAIN seqs' : \A i \in DOMAIN seqs'[r] : Known(seqs'[r][i])
    BY <1>2 DEF IInv, Remembers
<1> QED
    BY <1>1, <1>2, <1>3, SeqsStep

LEMMA AllocEntrysStep ==
    ASSUME IInv, NEW s, NEW n \in Nat, AllocCmdSequenceEntrys(s, n)
    PROVE  IInv'
<1> DEFINE k  == n - Len(seqs[s])
           f  == [i \in 1 .. k |-> NewCommand(i, k)]
           cs == seqs[s] \o f
<1>1. /\ s \in DOMAIN seqs /\ seqs[s] \in Seq(Command)
      /\ \A i \in DOMAIN seqs[s] : Known(seqs[s][i])
    BY DEF IInv, MapTypeOK, Remembers, AllocCmdSequenceEntrys
<1>2. k \in Nat /\ seqs' = [seqs EXCEPT ![s] = cs]
    BY <1>1 DEF AllocCmdSequenceEntrys
<1>3. \A i : NewCommand(i, k) \in Command /\ NewCommand(i, k).at = None
    BY Sizes DEF NewCommand, Command, Addr, None
<1>4. f \in [1 .. k -> Command] /\ \A i \in 1 .. k : Known(f[i])
    BY <1>3 DEF Known
<1> HIDE DEF k, f
<1>5. /\ cs \in Seq(Command)
      /\ \A i \in DOMAIN seqs[s] : cs[i] = seqs[s][i]
      /\ \A i \in DOMAIN cs \ DOMAIN seqs[s] :
            i - Len(seqs[s]) \in 1 .. k /\ cs[i] = f[i - Len(seqs[s])]
    BY <1>1, <1>2, <1>4, Grown
<1> HIDE DEF cs
<1>6. \A i \in DOMAIN cs : Known(cs[i])
    BY <1>1, <1>4, <1>5
<1> QED
    BY <1>1, <1>2, <1>5, <1>6, SeqReplaced DEF AllocCmdSequenceEntrys

LEMMA UpdateSequenceStep ==
    ASSUME IInv, NEW s, NEW i, NEW a \in Addr, UpdateCmdSequence(s, i, a)
    PROVE  IInv'
<1> DEFINE c  == [addr |-> a, set |-> TRUE, home |-> None, at |-> None]
           cs == [seqs[s] EXCEPT ![i] = c]
<1>1. /\ s \in DOMAIN seqs /\ seqs[s] \in Seq(Command) /\ i \in DOMAIN seqs[s]
      /\ \A j \in DOMAIN seqs[s] : Known(seqs[s][j])
    BY DEF IInv, MapTypeOK, Remembers, UpdateCmdSequence
<1>2. c \in Command /\ Known(c)
    BY DEF Command, Known, None
<1> HIDE DEF c
<1>3. /\ cs \in Seq(Command) /\ DOMAIN cs = DOMAIN seqs[s]
      /\ \A j \in DOMAIN cs : cs[j] = IF j = i THEN c ELSE seqs[s][j]
    BY <1>1, <1>2, ExceptSeq
<1>4. seqs' = [seqs EXCEPT ![s] = cs]
    BY <1>1 DEF UpdateCmdSequence, c
<1> HIDE DEF cs
<1>5. \A j \in DOMAIN cs : Known(cs[j])
    BY <1>1, <1>2, <1>3
<1> QED
    BY <1>1, <1>3, <1>4, <1>5, SeqReplaced DEF UpdateCmdSequence

LEMMA BindStep ==
    ASSUME IInv, NEW h, NEW n \in Nat, Bind(h, n)
    PROVE  IInv'
<1>1. seqs' = seqs /\ bound' \in [Hooks -> Nat] /\ io' \subseteq Nat
    BY DEF Bind, IInv, MapTypeOK
<1>2. seqs \in Seq(Seq(Command))
    BY DEF IInv, MapTypeOK
<1>3. UNCHANGED mapvars
    BY DEF Bind
<1> QED
    BY <1>1, <1>2, <1>3, SeqsStep DEF IInv, Remembers

(* What is remembered of a command saves the lookup and says the same.     *)
LEMMA EntryIsFound ==
    ASSUME IInv, active # None, NEW c \in Command, Known(c)
    PROVE  /\ EntryOf(c) = Find(c.addr) /\ EntryOf(c) \in Nat
           /\ Remembered(c) \in Command /\ Known(Remembered(c))
<1>1. EntryOf(c) = Find(c.addr)
    BY DEF EntryOf, Known
<1>2. c.addr \in Addr /\ MapTypeOK /\ Placed
    BY DEF Command, IInv
<1>3. Find(c.addr) \in Nat
    <2>1. CASE Hits(c.addr) = {}
        BY <1>2, <2>1, OneHit DEF None
    <2>2. CASE Hits(c.addr) # {}
        <3>1. PICK i \in Hits(c.addr) : TRUE
            BY <2>2
        <3>2. Find(c.addr) = i /\ i \in Nat
            BY <1>2, <3>1, OneHit
        <3> QED
            BY <3>2
    <2> QED
        BY <2>1, <2>2
<1>4. active \in Nat
    BY <1>2 DEF MapTypeOK
<1>5. CASE EntryOf(c) = None
    BY <1>1, <1>3, <1>5 DEF Remembered
<1>6. CASE EntryOf(c) # None
    <2>1. Remembered(c) = [c EXCEPT !.home = active, !.at = EntryOf(c)]
        BY <1>6 DEF Remembered
    <2>2. Remembered(c) \in Command
        BY <1>1, <1>3, <1>4, <2>1 DEF Command
    <2>3. /\ Remembered(c).home = active /\ Remembered(c).at = EntryOf(c)
          /\ Remembered(c).addr = c.addr
        BY <2>1 DEF Command
    <2> QED
        BY <1>1, <1>3, <2>2, <2>3 DEF Known
<1> QED
    BY <1>1, <1>3, <1>5, <1>6

LEMMA DoCmdSequenceStep ==
    ASSUME IInv, NEW s, DoCmdSequence(s)
    PROVE  IInv'
<1> DEFINE cs == [i \in DOMAIN seqs[s] |-> Remembered(seqs[s][i])]
<1>1. /\ s \in DOMAIN seqs /\ seqs[s] \in Seq(Command) /\ active # None
      /\ \A i \in DOMAIN seqs[s] : Known(seqs[s][i])
    BY DEF IInv, MapTypeOK, Remembers, DoCmdSequence
<1>2. Len(seqs[s]) \in Nat /\ DOMAIN seqs[s] = 1 .. Len(seqs[s])
    BY <1>1
<1>3. \A i \in DOMAIN cs : cs[i] \in Command /\ Known(cs[i])
    <2> TAKE i \in DOMAIN cs
    <2>1. seqs[s][i] \in Command /\ Known(seqs[s][i])
        BY <1>1
    <2>2. Remembered(seqs[s][i]) \in Command /\ Known(Remembered(seqs[s][i]))
        BY <1>1, <2>1, EntryIsFound
    <2> QED
        BY <2>2
<1>4. cs \in [1 .. Len(seqs[s]) -> Command]
    BY <1>2, <1>3
<1>5. seqs' = [seqs EXCEPT ![s] = cs]
    BY <1>1 DEF DoCmdSequence
<1> HIDE DEF cs
<1>6. cs \in Seq(Command)
    BY <1>2, <1>4, ListOf
<1>7. io' \subseteq Nat
    BY <1>2 DEF DoCmdSequence
<1> QED
    BY <1>1, <1>3, <1>5, <1>6, <1>7, SeqReplaced DEF DoCmdSequence

-----------------------------------------------------------------------------
(* All together.                                                           *)
LEMMA InitGood == Init => IInv
<1> SUFFICES ASSUME Init PROVE IInv
    OBVIOUS
<1>1. Active = <<>>
    BY DEF Init, Active
<1>2. MapTypeOK
    BY <1>1 DEF Init, MapTypeOK, None
<1>3. Placed /\ BuffersFit /\ WorkspaceFits /\ Remembers
    BY DEF Init, Placed, BuffersFit, WorkspaceFits, Usable, Remembers
<1> QED
    BY <1>2, <1>3 DEF IInv

LEMMA NextGood ==
    ASSUME Careful, IInv, [Next]_vars
    PROVE  IInv'
<1>1. /\ Rooms \in Seq(Nat) /\ Maps \subseteq Nat
      /\ 1 .. Seqs \subseteq Nat /\ 1 .. Commands \subseteq Nat
      /\ \A m \in Maps : 1 .. Rooms[m] \subseteq Nat
      /\ \A l \in Lines : l[1] \in Types /\ l[2] \in Addr /\ l[3] \in Addr
      /\ Modes \subseteq {0, 1, 2} /\ Aimed \subseteq Addr
    BY BoundAssumption, UserAssumption DEF Maps
<1>2. CASE \E n \in Maps : AllocMemMaps(n)
    BY <1>1, <1>2, AllocMemMapsStep
<1>3. CASE \E m \in Maps : \E n \in 1 .. Rooms[m] : AllocateMemMapEntrys(m, n)
    BY <1>1, <1>3, AllocateMemMapEntrysStep
<1>4. CASE \E m \in Maps, e \in Entries, l \in Lines :
                UpdateMemMap(m, e, l[1], l[2], l[3])
    BY <1>1, <1>4, UpdateMemMapStep
<1>5. CASE \E mode \in Modes, pending \in BOOLEAN :
                ChangeWorkSpaceMode(mode, pending)
    BY <1>1, <1>5, ChangeModeStep
<1>6. CASE NoMemMap
    BY <1>6, NoMemMapStep
<1>7. CASE \E m \in Maps, found \in SUBSET Entries, pending \in BOOLEAN :
                UseMemMap(m, found, pending)
    BY <1>7, UseMemMapStep
<1>8. CASE \E m \in Maps : UseMissingMap(m)
    BY <1>8, NoMemMapStep DEF UseMissingMap
<1>9. CASE \E n \in 1 .. Seqs : AllocCmdSeqences(n)
    BY <1>1, <1>9, AllocSeqsStep
<1>10. CASE \E s \in 1 .. Seqs, n \in 1 .. Commands : AllocCmdSequenceEntrys(s, n)
    BY <1>1, <1>10, AllocEntrysStep
<1>11. CASE \E s \in 1 .. Seqs, i \in 1 .. Commands, a \in Aimed :
                UpdateCmdSequence(s, i, a)
    BY <1>1, <1>11, UpdateSequenceStep
<1>12. CASE \E h \in Hooks, s \in 1 .. Seqs : Bind(h, s)
    BY <1>1, <1>12, BindStep
<1>13. CASE \E s \in 1 .. Seqs : DoCmdSequence(s)
    BY <1>13, DoCmdSequenceStep
<1>14. CASE \E h \in Hooks : RunHook(h)
    BY <1>14, DoCmdSequenceStep DEF RunHook
<1>15. CASE UNCHANGED vars
    <2>1. UNCHANGED <<mapvars, seqs, bound, io>>
        BY <1>15 DEF vars, seqvars
    <2> QED
        BY <2>1, SeqsStep DEF IInv, MapTypeOK, Remembers
<1> QED
    BY <1>2, <1>3, <1>4, <1>5, <1>6, <1>7, <1>8, <1>9, <1>10, <1>11, <1>12,
       <1>13, <1>14, <1>15 DEF Next

(* Maps stay well placed, buffers fit and sequences remember what is true, *)
(* whatever the user builds, uses, gives up and builds again.              *)
THEOREM MapInvariance == ASSUME Careful PROVE Spec => []IInv
<1>1. Init => IInv
    BY InitGood
<1>2. Careful /\ IInv /\ [Next]_vars => IInv'
    BY NextGood
<1>3. IInv /\ [Next]_vars => IInv'
    BY <1>2
<1> QED
    BY <1>1, <1>3, PTL DEF Spec

(* The maps, the workspace and the sequences keep their types.             *)
THEOREM MapTypeCorrect == ASSUME Careful PROVE Spec => []MapTypeOK
<1>1. IInv => MapTypeOK
    BY DEF IInv
<1> QED
    BY <1>1, MapInvariance, PTL

(* findMemMapOfAddr finds the entry of the map in use an address lies in,  *)
(* for every address of the machine.                                       *)
THEOREM LookupCorrect == ASSUME Careful PROVE Spec => []LookupFinds
<1>1. IInv => LookupFinds
    BY FindsEntry DEF IInv
<1> QED
    BY <1>1, MapInvariance, PTL

(* The entries of the map in use that keep data have a buffer of their     *)
(* length, and no other entry has one or a list of sectors.                *)
THEOREM BuffersAlwaysFit == ASSUME Careful PROVE Spec => []BuffersFit
<1>1. IInv => BuffersFit
    BY DEF IInv
<1> QED
    BY <1>1, MapInvariance, PTL

(* The workspace is an entry of the map in use and long enough.            *)
THEOREM WorkspaceAlwaysFits == ASSUME Careful PROVE Spec => []WorkspaceFits
<1>1. IInv => WorkspaceFits
    BY DEF IInv
<1> QED
    BY <1>1, MapInvariance, PTL

(* A sequence carries out its commands in the special function areas of    *)
(* the map in use and no other command.                                    *)
THEOREM SequencesStayInSfa == ASSUME Careful PROVE Spec => RunsInSfa
<1>1. ASSUME IInv, NEW s \in DOMAIN seqs, DoCmdSequence(s)
      PROVE  io' = {i \in DOMAIN seqs[s] :
                    /\ seqs[s][i].set
                    /\ \E e \in DOMAIN Active :
                        /\ Active[e].type = "SFA"
                        /\ seqs[s][i].addr \in Extent(Active[e])}
    <2>1. /\ active # None /\ seqs[s] \in Seq(Command) /\ MapTypeOK /\ Placed
          /\ \A i \in DOMAIN seqs[s] : Known(seqs[s][i])
        BY <1>1 DEF IInv, MapTypeOK, Remembers, DoCmdSequence
    <2>2. ASSUME NEW i \in DOMAIN seqs[s]
          PROVE  (/\ EntryOf(seqs[s][i]) # None
                  /\ Active[EntryOf(seqs[s][i])].type = "SFA")
                 <=> \E e \in DOMAIN Active :
                        /\ Active[e].type = "SFA"
                        /\ seqs[s][i].addr \in Extent(Active[e])
        <3> DEFINE a == seqs[s][i].addr
        <3>1. seqs[s][i] \in Command
            BY <2>1
        <3>2. a \in Addr
            BY <3>1 DEF Command
        <3>3. EntryOf(seqs[s][i]) = Find(a)
            BY <1>1, <2>1, <3>1, EntryIsFound
        <3> HIDE DEF a
        <3>4. /\ \A e \in DOMAIN Active : e \in Hits(a) <=> a \in Extent(Active[e])
              /\ \A e \in Hits(a) : e \in DOMAIN Active /\ e \in Nat \ {0}
              /\ \A e \in Hits(a) : Find(a) = e
              /\ Hits(a) = {} => Find(a) = None
            BY <2>1, <3>2, OneHit
        <3>5. CASE Hits(a) = {}
            BY <3>3, <3>4, <3>5 DEF a
        <3>6. CASE Hits(a) # {}
            <4>1. PICK e \in Hits(a) : TRUE
                BY <3>6
            <4>2. /\ e \in DOMAIN Active /\ Find(a) = e /\ e # None
                  /\ a \in Extent(Active[e])
                BY <3>4, <4>1 DEF None
            <4>3. \A f \in DOMAIN Active : a \in Extent(Active[f]) => f = e
                BY <3>4, <4>2
            <4> QED
                BY <3>3, <4>2, <4>3 DEF a
        <3> QED
            BY <3>5, <3>6
    <2>3. io' = {i \in DOMAIN seqs[s] :
                    /\ seqs[s][i].set
                    /\ EntryOf(seqs[s][i]) # None
                    /\ Active[EntryOf(seqs[s][i])].type = "SFA"}
        BY <1>1 DEF DoCmdSequence
    <2> QED
        BY <2>2, <2>3
<1>2. IInv => \A s \in DOMAIN seqs :
                DoCmdSequence(s) =>
                    io' = {i \in DOMAIN seqs[s] :
                            /\ seqs[s][i].set
                            /\ \E e \in DOMAIN Active :
                                /\ Active[e].type = "SFA"
                                /\ seqs[s][i].addr \in Extent(Active[e])}
    BY <1>1
<1> QED
    BY <1>2, MapInvariance, PTL DEF RunsInSfa
=============================================================================
