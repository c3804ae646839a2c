------------------------- MODULE AddressSpaceProofs -------------------------
(***************************************************************************)
(* The search of AddressSpace finds the mapping that has the address, for  *)
(* every map the kernel may show.                                          *)
(***************************************************************************)
EXTENDS AddressSpace, SequenceTheorems, TLAPS

LineMapping(s, k) ==
  Mapping(s.lines[k].From, s.lines[k].To, PathAfter(s, k))

(* A line has bounds, and its indices are numbers. *)
LEMMA LineType ==
  ASSUME NEW s, Stop(s), NEW k \in 1..Len(s.lines)
  PROVE  /\ s.lines[k].From \in Nat /\ s.lines[k].To \in Nat /\ s.addr \in Nat
         /\ s.lines[k].From < s.lines[k].To
         /\ k \in Nat /\ k \in 1..k
<1>1. Len(s.lines) \in Nat
  BY DEF Stop
<1>2. s.lines[k] \in [From : Nat, To : Nat, path : STRING]
  BY ElementOfSeq DEF Stop
<1> QED
  BY <1>1, <1>2 DEF Stop

(* Lines are ordered like their mappings. *)
LEMMA LinesOrdered ==
  ASSUME NEW s, Stop(s), NEW j \in 1..Len(s.lines), NEW k \in 1..Len(s.lines),
         j < k
  PROVE  Before(LineMapping(s, j), LineMapping(s, k))
<1>1. /\ s.lines[j].From \in Nat /\ s.lines[j].To \in Nat
      /\ s.lines[k].From \in Nat /\ s.lines[k].To \in Nat
  BY LineType
<1>2. /\ s.lines[j].From < s.lines[j].To /\ s.lines[k].From < s.lines[k].To
      /\ s.lines[j].To <= s.lines[k].From
  BY LineType DEF Stop
<1> QED
  BY <1>1, <1>2 DEF Before, LineMapping, Mapping

(* The mapping that has the address is the only one that is found, unless  *)
(* the address is the first above another mapping.                         *)
LEMMA FoundIsHome ==
  ASSUME NEW s, Stop(s), ~AtSeam(s),
         NEW k \in 1..Len(s.lines), HasAddress(s, k)
  PROVE  FoundMapping(s) = {LineMapping(s, k)}
<1> DEFINE q == Query(s.addr)
           S == MappingsSet(s)
           m == LineMapping(s, k)
<1>1. s.addr \in Nat /\ s.lines[k].From \in Nat /\ s.lines[k].To \in Nat
  BY LineType
<1>2. m \in S /\ ~Before(m, q) /\ ~Before(q, m)
  BY <1>1 DEF MappingsSet, LineMapping, HasAddress, Before, Mapping, Query
<1>3. ASSUME NEW j \in 1..Len(s.lines), j < k
      PROVE  Before(LineMapping(s, j), q)
  <2>1. /\ s.lines[j].From \in Nat /\ s.lines[j].To \in Nat
        /\ s.lines[j].From < s.lines[j].To
        /\ s.lines[j].To <= s.lines[k].From
    BY <1>3, LineType DEF Stop
  <2>2. s.lines[j].To # s.addr
    BY DEF AtSeam
  <2> QED
    BY <1>1, <2>1, <2>2 DEF HasAddress, Before, LineMapping, Mapping, Query
<1>4. \A n \in NotBefore(S, q) : n = m \/ Before(m, n)
  <2>1. SUFFICES ASSUME NEW n \in NotBefore(S, q) PROVE n = m \/ Before(m, n)
    OBVIOUS
  <2>2. PICK j \in 1..Len(s.lines) : n = LineMapping(s, j)
    BY <2>1 DEF NotBefore, MappingsSet, LineMapping
  <2>3. ~(j < k)
    BY <2>1, <2>2, <1>3 DEF NotBefore
  <2>4. CASE j = k
    BY <2>2, <2>4
  <2>5. CASE k < j
    BY <2>2, <2>5, LinesOrdered
  <2> QED
    BY <2>3, <2>4, <2>5, LineType
<1>5. m \in FoundMapping(s)
  BY <1>2, <1>4 DEF FoundMapping, Find, NotBefore
<1>6. ASSUME NEW n \in FoundMapping(s) PROVE n = m
  <2>1. n \in NotBefore(S, q) /\ (m = n \/ Before(n, m))
    BY <1>2, <1>6 DEF FoundMapping, Find, NotBefore
  <2>2. n = m \/ Before(m, n)
    BY <2>1, <1>4
  <2>3. PICK j \in 1..Len(s.lines) : n = LineMapping(s, j)
    BY <2>1 DEF NotBefore, MappingsSet, LineMapping
  <2>4. s.lines[j].From \in Nat
    BY LineType
  <2>5. ~(Before(n, m) /\ Before(m, n))
    BY <1>1, <2>3, <2>4 DEF Before, LineMapping, Mapping
  <2> QED
    BY <2>1, <2>2, <2>5
<1> QED
  BY <1>5, <1>6

(* Some mapping is found even at a seam: it is the one below or the one    *)
(* that has the address.                                                   *)
LEMMA SeamIsFound ==
  ASSUME NEW s, Stop(s), AtSeam(s)
  PROVE  FoundMapping(s) # {}
<1>1. PICK k \in 1..Len(s.lines) : s.lines[k].To = s.addr
  BY DEF AtSeam
<1> DEFINE q == Query(s.addr)
           S == MappingsSet(s)
           m == LineMapping(s, k)
<1>2. /\ s.addr \in Nat /\ s.lines[k].From \in Nat /\ s.lines[k].To \in Nat
      /\ s.lines[k].From < s.lines[k].To
  BY LineType
<1>3. m \in S /\ ~Before(m, q) /\ ~Before(q, m)
  BY <1>1, <1>2 DEF MappingsSet, LineMapping, Before, Mapping, Query
<1>4. ASSUME NEW j \in 1..Len(s.lines), j < k
      PROVE  Before(LineMapping(s, j), q)
  <2>1. /\ s.lines[j].From \in Nat /\ s.lines[j].To \in Nat
        /\ s.lines[j].From < s.lines[j].To
        /\ s.lines[j].To <= s.lines[k].From
    BY <1>4, LineType DEF Stop
  <2> QED
    BY <1>1, <1>2, <2>1 DEF Before, LineMapping, Mapping, Query
<1>5. ASSUME NEW n \in NotBefore(S, q) PROVE n = m \/ Before(m, n)
  <2>2. PICK j \in 1..Len(s.lines) : n = LineMapping(s, j)
    BY <1>5 DEF NotBefore, MappingsSet, LineMapping
  <2>3. ~(j < k)
    BY <1>5, <2>2, <1>4 DEF NotBefore
  <2>4. CASE j = k
    BY <2>2, <2>4
  <2>5. CASE k < j
    BY <2>2, <2>5, LinesOrdered
  <2> QED
    BY <2>3, <2>4, <2>5, LineType
<1>6. m \in FoundMapping(s)
  BY <1>3, <1>5 DEF FoundMapping, Find, NotBefore
<1> QED
  BY <1>6

(* The greatest number of a set up to k that has k is k. *)
LEMMA GreatestIsLast ==
  ASSUME NEW k \in Nat, NEW T, T \subseteq 1..k, k \in T
  PROVE  (CHOOSE n \in T : \A o \in T : o <= n) = k
<1>1. \A o \in T : o \in Nat /\ o <= k
  OBVIOUS
<1>2. \E n \in T : \A o \in T : o <= n
  BY <1>1
<1> DEFINE c == CHOOSE n \in T : \A o \in T : o <= n
<1>3. c \in T /\ \A o \in T : o <= c
  BY <1>2
<1> HIDE DEF c
<1>4. c = k
  BY <1>1, <1>3
<1> QED
  BY <1>4 DEF c

(* A line with a path is read with that path. *)
LEMMA OwnPath ==
  ASSUME NEW s, Stop(s), NEW k \in 1..Len(s.lines), s.lines[k].path # ""
  PROVE  PathAfter(s, k) = s.lines[k].path
<1>1. k \in Nat /\ k \in 1..k
  BY LineType
<1>2. Named(s, k) \subseteq 1..k /\ k \in Named(s, k)
  BY <1>1 DEF Named
<1>3. (CHOOSE n \in Named(s, k) : \A o \in Named(s, k) : o <= n) = k
  BY <1>1, <1>2, GreatestIsLast
<1> QED
  BY <1>2, <1>3 DEF PathAfter

(* For every map and address, some mapping is found; away from the seams   *)
(* it is the one that has the address, so that a mapping with a path is    *)
(* judged by its own path, whatever its neighbours are.                    *)
THEOREM LibrarySearch ==
  ASSUME NEW s, Stop(s)
  PROVE  /\ ~CouldNotFind(s)
         /\ \A k \in Home(s) :
              ~AtSeam(s) /\ s.lines[k].path # "" =>
                (isInLibrary(s) <=> s.lines[k].path \in SoPaths)
<1>1. ~CouldNotFind(s)
  <2>1. PICK k \in 1..Len(s.lines) : HasAddress(s, k)
    BY DEF Stop, HasAddress
  <2>2. ~AtSeam(s) => FoundMapping(s) = {LineMapping(s, k)}
    BY <2>1, FoundIsHome
  <2> QED
    BY <2>2, SeamIsFound DEF CouldNotFind
<1>2. ASSUME NEW k \in Home(s), ~AtSeam(s), s.lines[k].path # ""
      PROVE  isInLibrary(s) <=> s.lines[k].path \in SoPaths
  <2>1. k \in 1..Len(s.lines) /\ HasAddress(s, k)
    BY <1>2 DEF Home
  <2>2. FoundMapping(s) = {LineMapping(s, k)}
    BY <1>2, <2>1, FoundIsHome
  <2>3. LineMapping(s, k).Path = s.lines[k].path
    BY <1>2, <2>1, OwnPath DEF LineMapping, Mapping
  <2> QED
    BY <2>2, <2>3 DEF isInLibrary
<1> QED
  BY <1>1, <1>2
=============================================================================
