----------------------------- MODULE TaskGraph -----------------------------
(***************************************************************************)
(* Construction of the dependency graph of one function body: the          *)
(* recursion InstructionToGraph / handleInstructionDeps of                 *)
(* transforms/TaskGraph/src/Graph.cpp.                                     *)
(*                                                                         *)
(* The input is the instruction list that ASTTaskGraphVisitor produces,    *)
(* flattened in pre-order: an if, a for or a block comes first and its     *)
(* scoped instructions follow.  That is the order in which the recursion   *)
(* calls handleInstructionDeps, so a node is known by its position.  The   *)
(* maps dataUsedInRead and dataUsedInWrite are shared with the subgraphs   *)
(* of if and block instructions, while the subgraph of a for starts from   *)
(* fresh ones: here there is one pair of maps per loop, 0 standing for the *)
(* function body.                                                          *)
(*                                                                         *)
(* A node's prev set always mirrors the next maps of the others (addLink,  *)
(* transitiveReduction and fuseNodes update both), so only the links are   *)
(* kept.  The isRead/isWrite flags of a link are never read by the pass    *)
(* and are left out.                                                       *)
(***************************************************************************)
EXTENDS Integers, Sequences, FiniteSets

CONSTANTS
  Alias,      \* the aliasArg objects of the AliasTable
  Decl,       \* Decl[a]: the variable that a is an element of
  Indexes,    \* Indexes[a]: its subscripts, <<>> for a plain variable
  Programs    \* the instruction lists considered

UnknownIndex == -1

\* A for's header is its condition, increment and init: scoped instructions
\* that are not statements of the output (ignoreStmtPragma).  A declaration or
\* a goto is the opposite, a statement of the output that the visitor makes no
\* instruction for: it has no dependencies and gets no node.
Kind == {"simple", "delete", "header", "if", "block", "for", "decl", "goto"}

Complex == {"if", "block", "for"}

NoInstruction == {"decl", "goto"}

Instruction ==
  [kind   : Kind,
   scope  : Nat,              \* the complex instruction around it, or 0
   loop   : Nat,              \* the innermost for around it, or 0
   reads  : SUBSET Alias,     \* dependencies with isRead
   writes : SUBSET Alias]     \* dependencies with isWrite

\* The table holds one alias per variable and element with known subscripts,
\* and one per spelling of an unknown subscript (OneAliasPerElement of
\* AliasTableMap).
ASSUME AliasAssumption ==
  /\ Decl \in [Alias -> STRING]
  /\ DOMAIN Indexes = Alias
  /\ \A a \in Alias : Indexes[a] \in Seq(Int)
  /\ \A a, b \in Alias : Decl[a] = Decl[b] /\ Indexes[a] = Indexes[b] =>
       a = b \/ \E k \in 1..Len(Indexes[a]) : Indexes[a][k] = UnknownIndex

Touches(i) == i.reads \cup i.writes

\* The dependencies of a for are those of its direct scoped instructions,
\* taken with insert(): the flags of the first access to an alias stay, those
\* of the later ones are dropped.
TraverseForStmt(p, f) ==
  LET scoped == {m \in 1..Len(p) : p[m].scope = f}
      first(m, a) == /\ a \in Touches(p[m])
                     /\ \A k \in scoped : k < m => a \notin Touches(p[k])
  IN  [reads  |-> {a \in Alias : \E m \in scoped : first(m, a) /\ a \in p[m].reads},
       writes |-> {a \in Alias : \E m \in scoped : first(m, a) /\ a \in p[m].writes}]

\* A branch of an if carries no dependencies, and a nested instruction is in
\* the loop of the instruction around it, unless that is the loop.  The list is
\* a pre-order: what lies between an instruction and the one around it is
\* inside the latter.  A for's header is visited before its body.
WellFormed(p) ==
  \A n \in 1..Len(p) :
    /\ p[n].scope < n
    /\ p[n].loop < n
    /\ \A k \in 1..n - 1 : p[n].scope < k => p[n].scope <= p[k].scope
    /\ p[n].kind = "header" =>
         \A k \in 1..n - 1 : p[k].scope = p[n].scope => p[k].kind = "header"
    /\ p[n].kind \in {"block"} \cup NoInstruction => Touches(p[n]) = {}
    /\ p[n].kind = "for" =>
         /\ p[n].reads = TraverseForStmt(p, n).reads
         /\ p[n].writes = TraverseForStmt(p, n).writes
    /\ p[n].scope = 0 => p[n].loop = 0
    /\ p[n].scope # 0 =>
         /\ p[p[n].scope].kind \in Complex
         /\ p[n].loop = IF p[p[n].scope].kind = "for"
                          THEN p[n].scope ELSE p[p[n].scope].loop

ASSUME ProgramsAssumption ==
  \A p \in Programs : p \in Seq(Instruction) /\ WellFormed(p)

VARIABLES
  prog,             \* the instruction list being compiled
  built,            \* number of instructions handled so far
  links,            \* the next maps of all nodes
  dataUsedInRead,   \* per loop and alias: the nodes that read it last
  dataUsedInWrite   \* per loop and alias: the node that wrote it last, or 0

buildVars == <<prog, built, links, dataUsedInRead, dataUsedInWrite>>

Node == 1..Len(prog)
Loop == 0..Len(prog)
NoNode == 0
-----------------------------------------------------------------------------
hasUnknownIndex(a) ==
  \E k \in 1..Len(Indexes[a]) : Indexes[a][k] = UnknownIndex

\* Two subscript vectors that may denote the same element.
indexesMatch(a, b) ==
  /\ Len(Indexes[a]) = Len(Indexes[b])
  /\ \A k \in 1..Len(Indexes[a]) :
       \/ Indexes[a][k] = Indexes[b][k]
       \/ UnknownIndex \in {Indexes[a][k], Indexes[b][k]}

\* Slip: an unknown subscript only follows its own entry of the table.
getArrayElementChildren_Exact(a) == {e \in Alias : e = a}

\* The walk along a's own subscripts: an unknown one follows every entry of
\* the table, a known one only the entry of that very value, and the walk
\* stops at a's depth.  getArrayElementParents only ever returns a itself,
\* which is among its children, so it adds nothing.
getArrayElementChildren(a) ==
  {e \in Alias :
     /\ Decl[e] = Decl[a]
     /\ Len(Indexes[e]) = Len(Indexes[a])
     /\ \A k \in 1..Len(Indexes[a]) :
          Indexes[a][k] \in {UnknownIndex, Indexes[e][k]}}

Elements(S) == UNION {getArrayElementChildren(a) : a \in S}

\* The alias a link carries: the access itself when its element is unknown.
Label(a, e) == IF hasUnknownIndex(a) THEN a ELSE e

addLink(m, n, a) == [from |-> m, to |-> n, alias |-> a]

\* A read of a is linked from the last writer of each of its elements.
ReadLinks(n, W) ==
  UNION {{addLink(W[e], n, Label(a, e)) :
            e \in {x \in getArrayElementChildren(a) : W[x] # NoNode}} :
         a \in prog[n].reads}

\* Slip: a write is linked from the last writer alone.
WriteLinks_WriterOnly(n, R, W) ==
  UNION {UNION {{addLink(m, n, Label(a, e)) : m \in {W[e]} \ {NoNode}} :
                e \in getArrayElementChildren(a)} :
         a \in prog[n].writes}

\* A write of a is linked from the readers of each of its elements, and only
\* when there is none from the last writer.
WriteLinks(n, R, W) ==
  UNION {UNION {{addLink(m, n, Label(a, e)) :
                   m \in IF R[e] # {} THEN R[e] ELSE {W[e]} \ {NoNode}} :
                e \in getArrayElementChildren(a)} :
         a \in prog[n].writes}

\* Slip: a write leaves the earlier readers in the map.
ReadersAfter_NotErased(n, R) ==
  [e \in Alias |-> R[e] \cup (IF e \in Elements(prog[n].reads) THEN {n} ELSE {})]

\* The buffers are flushed once all dependencies of the instruction are
\* handled: reads erased, reads added, writer replaced.
ReadersAfter(n, R) ==
  [e \in Alias |->
     (IF e \in Elements(prog[n].writes) THEN {} ELSE R[e])
       \cup (IF e \in Elements(prog[n].reads) THEN {n} ELSE {})]

\* Slip: a reader is recorded as a writer.
WriterAfter_Reader(n, W) ==
  [e \in Alias |-> IF e \in Elements(Touches(prog[n])) THEN n ELSE W[e]]

WriterAfter(n, W) ==
  [e \in Alias |-> IF e \in Elements(prog[n].writes) THEN n ELSE W[e]]

handleInstructionDeps(n) ==
  LET l == prog[n].loop
      R == dataUsedInRead[l]
      W == dataUsedInWrite[l]
  IN  /\ links' = links \cup ReadLinks(n, W) \cup WriteLinks(n, R, W)
      /\ dataUsedInRead' =
           [dataUsedInRead EXCEPT ![l] = ReadersAfter(n, R)]
      /\ dataUsedInWrite' =
           [dataUsedInWrite EXCEPT ![l] = WriterAfter(n, W)]

BuildInit ==
  /\ prog \in Programs
  /\ built = 0
  /\ links = {}
  /\ dataUsedInRead = [l \in Loop |-> [e \in Alias |-> {}]]
  /\ dataUsedInWrite = [l \in Loop |-> [e \in Alias |-> NoNode]]

InstructionToGraph ==
  /\ built < Len(prog)
  /\ handleInstructionDeps(built + 1)
  /\ built' = built + 1
  /\ UNCHANGED prog

BuildSpec == BuildInit /\ [][InstructionToGraph]_buildVars
-----------------------------------------------------------------------------
\* There is a path of links from i to j: every set of nodes that contains i
\* and is closed under the links contains j.
Reaches(E, i, j) ==
  \A S \in SUBSET Node :
    i \in S /\ (\A k \in E : k.from \in S => k.to \in S) => j \in S

ReadElements(n) == Elements(prog[n].reads)
WriteElements(n) == Elements(prog[n].writes)

\* Two instructions of one loop body that touch a common element, at least
\* one of them writing it.
Conflict(i, j) ==
  /\ prog[i].loop = prog[j].loop
  /\ \/ WriteElements(i) \cap (ReadElements(j) \cup WriteElements(j)) # {}
     \/ ReadElements(i) \cap WriteElements(j) # {}

BuildTypeOK ==
  /\ prog \in Seq(Instruction) /\ WellFormed(prog)
  /\ built \in 0..Len(prog)
  /\ links \subseteq [from : Node, to : Node, alias : Alias]
  /\ dataUsedInRead \in [Loop -> [Alias -> SUBSET Node]]
  /\ dataUsedInWrite \in [Loop -> [Alias -> Loop]]

\* Any two conflicting instructions handled so far are ordered by a path of
\* links, although a writer is linked from the last accesses only and not
\* from every earlier one (Graph.cpp handleInstructionDeps).
ConflictsOrdered ==
  \A i, j \in 1..built : i < j /\ Conflict(i, j) => Reaches(links, i, j)

\* A link never serialises independent instructions: it goes forward, joins
\* two instructions of the same loop body, and both access its element.
LinksJustified ==
  \A k \in links : k.from < k.to /\ k.to <= built /\ Conflict(k.from, k.to)

\* What the comment on indexesMatch asks for: two accesses to the same
\* variable whose subscripts match, unknown subscripts included, are ordered
\* when one of them writes.
MayOverlap(a, b) == Decl[a] = Decl[b] /\ indexesMatch(a, b)

OneDimensional == \A a \in Alias : Len(Indexes[a]) <= 1

OverlapsOrdered ==
  \A i, j \in 1..built :
    /\ i < j
    /\ prog[i].loop = prog[j].loop
    /\ \E a \in prog[i].reads \cup prog[i].writes,
          b \in prog[j].reads \cup prog[j].writes :
         /\ MayOverlap(a, b)
         /\ a \in prog[i].writes \/ b \in prog[j].writes
    => Reaches(links, i, j)
-----------------------------------------------------------------------------
(* The inductive invariant behind ConflictsOrdered and LinksJustified.     *)

ReachesOrEqual(i, j) == i = j \/ Reaches(links, i, j)

\* The maps name handled nodes of their loop that really access the element.
MapsExact ==
  \A l \in Loop, e \in Alias :
    /\ \A r \in dataUsedInRead[l][e] :
         r \in 1..built /\ prog[r].loop = l /\ e \in ReadElements(r)
    /\ LET w == dataUsedInWrite[l][e]
       IN  w # NoNode => w \in 1..built /\ prog[w].loop = l /\ e \in WriteElements(w)

\* Every writer reaches the recorded writer.
WritersReach ==
  \A n \in 1..built : \A e \in WriteElements(n) :
    LET w == dataUsedInWrite[prog[n].loop][e]
    IN  w # NoNode /\ ReachesOrEqual(n, w)

\* Every reader is still recorded, or reaches the recorded writer.
ReadersReach ==
  \A n \in 1..built : \A e \in ReadElements(n) :
    LET w == dataUsedInWrite[prog[n].loop][e]
    IN  \/ n \in dataUsedInRead[prog[n].loop][e]
        \/ w # NoNode /\ ReachesOrEqual(n, w)

\* The recorded readers read after the recorded writer.  This is why a write
\* may be linked from the readers alone.
WriterReachesReaders ==
  \A l \in Loop, e \in Alias : \A r \in dataUsedInRead[l][e] :
    LET w == dataUsedInWrite[l][e]
    IN  w # NoNode => ReachesOrEqual(w, r)

BuildInv ==
  /\ BuildTypeOK
  /\ MapsExact
  /\ WritersReach
  /\ ReadersReach
  /\ WriterReachesReaders
  /\ LinksJustified
  /\ ConflictsOrdered

=============================================================================
