---------------------------- MODULE AddressSpace ----------------------------
(***************************************************************************)
(* src/addrSpace.cpp: what isInLibrary() makes of an address and of the    *)
(* lines of /proc/<Pid>/maps.  The mappings are kept in a std::set under   *)
(* an order that makes a query equivalent to the mappings it touches.      *)
(*                                                                         *)
(* A stop is where a thread has stopped: its addr, the lines, each with a  *)
(* path or "" for an anonymous mapping, and path0, whatever the buffer     *)
(* Path of parse() held before the first line.                             *)
(***************************************************************************)
EXTENDS Integers, Sequences

CONSTANTS
  SoPaths,  \* the paths with Path.rfind(".so") == Path.size() - 3
  LibPaths  \* the paths of the libraries the program is linked to

(* What the kernel shows: ascending mappings, one of which has the address. *)
Stop(s) ==
  /\ s.addr \in Nat
  /\ s.lines \in Seq([From : Nat, To : Nat, path : STRING])
  /\ \A k \in 1..Len(s.lines) : s.lines[k].From < s.lines[k].To
  /\ \A j, k \in 1..Len(s.lines) : j < k => s.lines[j].To <= s.lines[k].From
  /\ \E k \in 1..Len(s.lines) :
       s.lines[k].From <= s.addr /\ s.addr < s.lines[k].To

(* sscanf() leaves Path as it is on a line without one. *)
Named(s, k) == {n \in 1..k : s.lines[n].path # ""}
PathAfter(s, k) ==
  IF Named(s, k) = {} THEN s.path0
  ELSE s.lines[CHOOSE n \in Named(s, k) : \A o \in Named(s, k) : o <= n].path

Mapping(from, to, path) == [From |-> from, To |-> to, Path |-> path]
Query(addr) == Mapping(addr, addr, "Query")

(* parse().  No two lines are equivalent, so that each is inserted. *)
MappingsSet(s) ==
  {Mapping(s.lines[k].From, s.lines[k].To, PathAfter(s, k)) :
     k \in 1..Len(s.lines)}

(* A mutant of Before: mappings are ordered by where they start. *)
BeforeStart(m1, m2) == m1.From < m2.From

(* Mapping::operator<. *)
Before(m1, m2) == m1.From < m2.From /\ m1.To < m2.To

(* std::set::find(): the first mapping that is not before the query, if    *)
(* the query is not before it.                                             *)
NotBefore(S, q) == {m \in S : ~Before(m, q)}
Find(S, q) ==
  {m \in NotBefore(S, q) : /\ \A n \in NotBefore(S, q) : n = m \/ Before(m, n)
                           /\ ~Before(q, m)}

FoundMapping(s) == Find(MappingsSet(s), Query(s.addr))

(* die() unless the address is found. *)
CouldNotFind(s) == FoundMapping(s) = {}
isInLibrary(s) == \E m \in FoundMapping(s) : m.Path \in SoPaths

-----------------------------------------------------------------------------
(* The reference: the lines whose range has the address, and whether one  *)
(* of them is of a library by its own path.  An anonymous line is of none. *)
HasAddress(s, k) == s.lines[k].From <= s.addr /\ s.addr < s.lines[k].To
Home(s) == {k \in 1..Len(s.lines) : HasAddress(s, k)}

InLibrary(s) == \E k \in Home(s) : s.lines[k].path \in LibPaths

(* The first address of a mapping directly above another one. *)
AtSeam(s) == \E k \in 1..Len(s.lines) : s.lines[k].To = s.addr
=============================================================================
