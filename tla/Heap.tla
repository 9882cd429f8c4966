-------------------------------- MODULE Heap ---------------------------------
(***************************************************************************)
(* The new zone and its collector: heap.cc, zone.{h,cc}, collector.cc,     *)
(* pointer.h, and what classes, modules and errors show the collector.     *)
(*                                                                         *)
(* The zone is the addresses 1..(2 * SemiSize), in two halves: objects are *)
(* allocated in fromspace, from its start.  mem maps the address of every  *)
(* header to its object; writing an object ends those it overlaps.         *)
(* Locals, scopes and the two lists of roots are not in the zone.          *)
(*                                                                         *)
(* This is the debug build: only it has gel/minor-gc!, and a failed ASSERT *)
(* ends it.  The steps of a collection are not interleaved with others.    *)
(*                                                                         *)
(* id of an object, id of a root and clean are for the properties only.    *)
(***************************************************************************)
EXTENDS Integers, Sequences, FiniteSets

CONSTANTS
  SemiSize,
  Header,           \* sizeof(Pointer)
  Sizes,            \* sizes of objects
  LargeObjectSize,
  MaxObjects, MaxLocals, MaxCollections      \* bounds

ASSUME SizesAssumption ==
  /\ SemiSize \in Nat \ {0} /\ Header \in Nat \ {0}
  /\ Sizes \subseteq Nat \ {0}
  /\ LargeObjectSize \in Nat
  /\ MaxObjects \in Nat /\ MaxLocals \in Nat /\ MaxCollections \in Nat

VARIABLES
  mem,              \* [kind, id, size, refs, forwarding] by address
  fromspace, tospace, current,
  classes, modules, \* the roots, [id, at]
  locals,           \* for each module, the values of its scope; 0 for none
  held,             \* where the program knows each object it has made
  status,           \* "run", a phase of the collector, "abort" or "wild"
  next, curr,       \* next_address_ and curr_address_
  index,            \* of the next pointer of the object at curr, or root
  collections,
  clean             \* this collection began in an undamaged half

zone      == <<fromspace, tospace, current>>
roots     == <<classes, modules>>
collector == <<next, curr, index, collections, clean>>
vars      == <<mem, zone, roots, locals, held, status, collector>>

UNALLOCATED == 0

(* NewZone::NewZone                                                        *)
Init ==
  /\ mem = [a \in {} |-> 0]
  /\ fromspace = 1 /\ tospace = 1 + SemiSize /\ current = 1
  /\ classes = <<>> /\ modules = <<>>
  /\ locals = [id \in {} |-> <<>>]
  /\ held = <<>>
  /\ status = "run"
  /\ next = UNALLOCATED /\ curr = UNALLOCATED /\ index = 1
  /\ collections = 0
  /\ clean = TRUE

GetTotalSize(object) == Header + object.size
GetEndingAddress(m, a) == a + GetTotalSize(m[a])
IsForwarding(m, a) == m[a].forwarding # UNALLOCATED

(* Pointer::New and Pointer::Copy, whose header is a new one.              *)
Write(m, a, object) ==
  LET kept == {b \in DOMAIN m : GetEndingAddress(m, b) <= a \/ a + GetTotalSize(object) <= b}
  IN  [b \in kept \cup {a} |-> IF b = a THEN [object EXCEPT !.forwarding = UNALLOCATED] ELSE m[b]]

Abort == status' = "abort" /\ UNCHANGED <<mem, zone, roots, locals, held, collector>>

-----------------------------------------------------------------------------
(* The program                                                             *)

Running == status = "run"

(* A mutant of HasRoom: the last address is used, too.                     *)
HasRoomToTheEnd(address, size) == address + Header + size <= fromspace + SemiSize

(* The last address of a half is never used.                               *)
HasRoom(address, size) == address + Header + size < fromspace + SemiSize

NewId == Len(held) + 1

(* NewZone::TryAllocate, through operator new and Heap::TryAllocate.       *)
TryAllocate(kind, size, refs) ==
  /\ mem' = Write(mem, current, [kind |-> kind, id |-> NewId, size |-> size, refs |-> refs,
                                 forwarding |-> UNALLOCATED])
  /\ current' = current + Header + size
  /\ held' = Append(held, current)
  /\ UNCHANGED <<fromspace, tospace, status, collector>>

(* Allocation goes well; otherwise there is no collection, only an end:    *)
(* the old zone of large objects is not implemented.                       *)
Allocates(size) == Running /\ NewId <= MaxObjects /\ size < LargeObjectSize /\ HasRoom(current, size)
OutOfMemory(size) ==
  /\ Running /\ NewId <= MaxObjects
  /\ size >= LargeObjectSize \/ ~HasRoom(current, size)
  /\ Abort

(* The program knows an object by the address it was made at.              *)
Known == {held[id] : id \in DOMAIN held}

(* A String, a Pair, a Lambda: nothing the collector would visit.          *)
NewObject(size) ==
  /\ Allocates(size)
  /\ TryAllocate("object", size, <<>>)
  /\ UNCHANGED <<roots, locals>>

NewError(size, message) ==
  /\ Allocates(size)
  /\ TryAllocate("error", size, <<message>>)
  /\ UNCHANGED <<roots, locals>>

(* Class::New and Module::New register the new object.                     *)
NewClass(size, name) ==
  /\ Allocates(size)
  /\ TryAllocate("class", size, <<name>>)
  /\ classes' = Append(classes, [id |-> NewId, at |-> current])
  /\ UNCHANGED <<modules, locals>>
NewModule(size, name) ==
  /\ Allocates(size)
  /\ TryAllocate("module", size, <<name>>)
  /\ modules' = Append(modules, [id |-> NewId, at |-> current])
  /\ locals' = [id \in DOMAIN locals \cup {NewId} |-> IF id = NewId THEN <<>> ELSE locals[id]]
  /\ UNCHANGED classes

(* LocalScope::Add in the scope of a module, which may have no value yet.  *)
AddLocal(id, value) ==
  /\ Running /\ Len(locals[id]) < MaxLocals
  /\ locals' = [locals EXCEPT ![id] = Append(@, value)]
  /\ UNCHANGED <<mem, zone, roots, held, status, collector>>
(* LocalVariable::SetValue                                                 *)
SetLocal(id, i, value) ==
  /\ Running /\ i \in DOMAIN locals[id]
  /\ locals' = [locals EXCEPT ![id][i] = value]
  /\ UNCHANGED <<mem, zone, roots, held, status, collector>>

-----------------------------------------------------------------------------
(* The collector                                                           *)

Space(start) == start..(start + SemiSize - 1)
InFromspace(a) == a \in Space(fromspace)

Roots == classes \o modules

(* VisitPointers of the class of an object.  A module shows its name, then *)
(* the values in its scope and those above it; last its namespaces, which  *)
(* are left out: a field like the name.  A Class has a name, too, but      *)
(* shows nothing.                                                          *)
PointersOf(object) ==
  CASE object.kind = "module" -> object.refs \o locals[object.id]
    [] object.kind = "error"  -> object.refs
    [] OTHER -> <<>>

(* The objects of fromspace up to an address.                              *)
ObjectsUpTo(end) == {a \in DOMAIN mem : fromspace <= a /\ a < end}

(* A half without damage by collections before: its objects refer to one   *)
(* another or to nothing, none has a forwarding address, none is twice     *)
(* there.                                                                  *)
Undamaged ==
  \A a \in ObjectsUpTo(current) :
    /\ ~IsForwarding(mem, a)
    /\ \A i \in DOMAIN PointersOf(mem[a]) :
         PointersOf(mem[a])[i] \in ObjectsUpTo(current) \cup {UNALLOCATED}
    /\ \A b \in ObjectsUpTo(current) : mem[a].id = mem[b].id => a = b

(* Collector::Collect, called by gel/minor-gc!                             *)
Collect ==
  /\ Running /\ collections < MaxCollections
  /\ fromspace' = tospace /\ tospace' = fromspace
  /\ next' = tospace /\ curr' = tospace
  /\ index' = 1
  /\ status' = "roots"
  /\ collections' = collections + 1
  /\ clean' = Undamaged
  /\ UNCHANGED <<mem, current, roots, locals, held>>

(* Process and CopyPointer.  The assertion fails when there is no room.    *)
Forwarded(m, a, to) == [m EXCEPT ![a].forwarding = to]
Process(a) ==
  /\ mem' = Forwarded(Write(mem, next, mem[a]), a, next)
  /\ next' = next + GetTotalSize(mem[a])

Fits(a) == next + GetTotalSize(mem[a]) < fromspace + SemiSize

(* The copy of an object that is itself behind next covers its header.     *)
Overlaps(a) == a \in next..(next + GetTotalSize(mem[a]) - 1)

(* Reading an object that is not there any more: anything may happen.      *)
Wild == status' = "wild" /\ UNCHANGED <<mem, zone, roots, locals, held, collector>>

(* ProcessRoots                                                            *)
ProcessRoot ==
  /\ status = "roots" /\ index <= Len(Roots)
  /\ IF ~Fits(Roots[index].at) THEN Abort
     ELSE /\ Process(Roots[index].at)
          /\ index' = index + 1
          /\ UNCHANGED <<zone, roots, locals, held, status, curr, collections, clean>>
(* A mutant of EndProcessRoots: the copies of the roots are not scanned.   *)
EndProcessRootsBehind ==
  /\ status = "roots" /\ index > Len(Roots)
  /\ status' = "scan" /\ index' = 1 /\ curr' = next
  /\ UNCHANGED <<mem, zone, roots, locals, held, next, collections, clean>>
EndProcessRoots ==
  /\ status = "roots" /\ index > Len(Roots)
  /\ status' = "scan" /\ index' = 1
  /\ UNCHANGED <<mem, zone, roots, locals, held, next, curr, collections, clean>>

(* A mutant of Skips: objects are copied for every pointer to them.        *)
NeverSkips(a) == FALSE

(* Collector::Visit: an object that has been copied is left alone.  The    *)
(* pointer itself never changes.                                           *)
Skips(a) == IsForwarding(mem, a)

Scanning == status = "scan" /\ curr < next
Pointers == PointersOf(mem[curr])
Target   == Pointers[index]

VisitPointer ==
  /\ Scanning /\ index \in DOMAIN Pointers
  /\ Target \in DOMAIN mem
  /\ Skips(Target) \/ (Fits(Target) /\ ~Overlaps(Target))
  /\ IF Skips(Target) THEN UNCHANGED <<mem, next>> ELSE Process(Target)
  /\ index' = index + 1
  /\ UNCHANGED <<zone, roots, locals, held, status, curr, collections, clean>>
VisitPointerFails ==
  /\ Scanning /\ index \in DOMAIN Pointers
  /\ \/ Target = UNALLOCATED /\ Abort
     \/ Target \in DOMAIN mem /\ ~Skips(Target) /\ ~Fits(Target) /\ Abort
     \/ Target \in DOMAIN mem /\ ~Skips(Target) /\ Fits(Target) /\ Overlaps(Target) /\ Wild
     \/ Target \notin DOMAIN mem \cup {UNALLOCATED} /\ Wild

(* A mutant of Advance: the size without the header.                       *)
AdvanceShort(object) == curr + object.size

(* ProcessFromspace: curr_address_ += ptr->GetTotalSize()                  *)
Advance(object) == curr + GetTotalSize(object)
EndVisitPointers ==
  /\ Scanning /\ index \notin DOMAIN Pointers
  /\ curr' = Advance(mem[curr]) /\ index' = 1
  /\ UNCHANGED <<mem, zone, roots, locals, held, status, next, collections, clean>>
EndProcessFromspace ==
  /\ status = "scan" /\ curr >= next
  /\ status' = "notify" /\ index' = 1
  /\ UNCHANGED <<mem, zone, roots, locals, held, next, curr, collections, clean>>

(* A mutant of Notified: the root stays where it was.                      *)
NotNotified(root) == root

(* PointerNotifier::Visit                                                  *)
Notified(root) == [root EXCEPT !.at = mem[root.at].forwarding]
NotifyRoot ==
  /\ status = "notify" /\ index <= Len(Roots)
  /\ IF index <= Len(classes)
     THEN classes' = [classes EXCEPT ![index] = Notified(@)] /\ UNCHANGED modules
     ELSE modules' = [modules EXCEPT ![index - Len(classes)] = Notified(@)] /\ UNCHANGED classes
  /\ index' = index + 1
  /\ UNCHANGED <<mem, zone, locals, held, status, next, curr, collections, clean>>
(* SetCurrent                                                              *)
EndCollect ==
  /\ status = "notify" /\ index > Len(Roots)
  /\ current' = next
  /\ status' = "run"
  /\ UNCHANGED <<mem, fromspace, tospace, roots, locals, held, collector>>

-----------------------------------------------------------------------------

Program ==
  \/ \E size \in Sizes : NewObject(size) \/ OutOfMemory(size)
  \/ \E size \in Sizes, a \in Known : NewError(size, a) \/ NewClass(size, a) \/ NewModule(size, a)
  \/ \E id \in DOMAIN locals, a \in Known \cup {UNALLOCATED} : AddLocal(id, a)
  \/ \E id \in DOMAIN locals, i \in 1..MaxLocals, a \in Known : SetLocal(id, i, a)
  \/ Collect

Collecting ==
  \/ ProcessRoot \/ EndProcessRoots
  \/ VisitPointer \/ VisitPointerFails \/ EndVisitPointers \/ EndProcessFromspace
  \/ NotifyRoot \/ EndCollect

Next == Program \/ Collecting

Spec == Init /\ [][Next]_vars

-----------------------------------------------------------------------------

Collection == status \in {"roots", "scan", "notify"}

(* The end of what has been written in fromspace.                          *)
Frontier == IF Collection THEN next ELSE current

(* UNALLOCATED, or an address of the zone.                                 *)
Address == 0..(2 * SemiSize)
Object ==
  [kind : {"object", "error", "class", "module"}, id : 1..Len(held), size : Sizes,
   refs : Seq(Address), forwarding : Address]
Root == [id : 1..Len(held), at : Address]

(* The half in use is always the one that is written to, and has a free    *)
(* address behind its last object; a module has a scope.                   *)
TypeOK ==
  /\ <<fromspace, tospace>> \in {<<1, 1 + SemiSize>>, <<1 + SemiSize, 1>>}
  /\ status \in {"run", "roots", "scan", "notify", "abort", "wild"}
  /\ DOMAIN mem \subseteq Address \ {UNALLOCATED}
  /\ mem \in [DOMAIN mem -> Object]
  /\ classes \in Seq(Root) /\ modules \in Seq(Root)
  /\ held \in Seq(Address)
  /\ DOMAIN locals \subseteq 1..Len(held)
  /\ locals \in [DOMAIN locals -> Seq(Address)]
  /\ \A a \in DOMAIN mem : mem[a].kind = "module" => mem[a].id \in DOMAIN locals
  /\ {current, next, curr} \subseteq Address
  /\ index \in Nat \ {0} /\ collections \in Nat /\ clean \in BOOLEAN
  /\ status \notin {"abort", "wild"} => Frontier \in Space(fromspace)

(* The objects of fromspace follow one another without a gap, so that      *)
(* ProcessFromspace steps from each to the next and curr_address_ is       *)
(* always at one of them or at the end.                                    *)
Tiled ==
  status \notin {"abort", "wild"} =>
    LET ends == {GetEndingAddress(mem, a) : a \in ObjectsUpTo(Frontier)}
    IN  /\ ObjectsUpTo(Frontier) \cup {Frontier} = ends \cup {fromspace}
        /\ status = "scan" => curr \in ObjectsUpTo(Frontier) \cup {Frontier}

(* Whenever the program runs, every root is in fromspace, and is the class *)
(* or module that was registered (Register, PointerNotifier), after any    *)
(* number of collections.                                                  *)
RootsIntact ==
  Running => \A i \in DOMAIN Roots :
    Roots[i].at \in ObjectsUpTo(current) /\ mem[Roots[i].at].id = Roots[i].id

(* There is room for every root, and in a clean collection for every       *)
(* object it has to copy: the assertion of Process does not fail.          *)
RoomToCopy ==
  /\ status = "roots" /\ index <= Len(Roots) => Fits(Roots[index].at)
  /\ Scanning /\ clean /\ index \in DOMAIN Pointers /\ Target # UNALLOCATED =>
       Target \in DOMAIN mem /\ (Skips(Target) \/ Fits(Target))

(* A clean collection copies no object twice: its copies would no longer   *)
(* be the same object.                                                     *)
CopiedOnce ==
  Collection /\ clean =>
    \A a, b \in ObjectsUpTo(next) : mem[a].id = mem[b].id => a = b

(* When a clean collection has scanned all copies, every object they show  *)
(* a pointer to has a copy itself, which that object leads to.             *)
HasCopy(a) ==
  /\ a \in DOMAIN mem /\ IsForwarding(mem, a)
  /\ LET b == mem[a].forwarding
     IN  b \in ObjectsUpTo(next) /\ mem[b].id = mem[a].id
NothingLost ==
  status = "notify" /\ clean =>
    \A a \in ObjectsUpTo(next) : \A i \in DOMAIN PointersOf(mem[a]) :
      HasCopy(PointersOf(mem[a])[i])

(* Cheney's algorithm, as the comment on Collect has it: what a copied     *)
(* object refers to is in the new space, in the end.                       *)
FieldsForwarded ==
  status = "notify" /\ clean =>
    \A a \in ObjectsUpTo(next) : \A i \in DOMAIN PointersOf(mem[a]) :
      InFromspace(PointersOf(mem[a])[i])

=============================================================================
