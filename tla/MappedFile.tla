----------------------------- MODULE MappedFile -----------------------------
(***************************************************************************)
(* mapped_file: objects that map a file into memory, and the handles and   *)
(* mappings that the kernel has given out.  A call is a series of kernel   *)
(* calls, each of which may fail; a unique_resource closes the handles of  *)
(* a call that ends before the object has taken them.                      *)
(*                                                                         *)
(* On Windows the mapping has a handle of its own, made between the size   *)
(* and the view.                                                           *)
(***************************************************************************)
EXTENDS Integers, FiniteSets

CONSTANTS
  Objects,   \* mapped_file objects; one that is destroyed is as good as closed
  Handles,   \* handles the kernel has to give: file descriptors, HANDLEs
  Views,     \* addresses it has to give
  Lengths    \* lengths of files and mappings

VARIABLES
  windows,   \* which of the two halves of the source is built
  object,    \* [Objects -> [data, size, handles]]
  opened,    \* kernel: open handles
  mapped,    \* kernel: [mapped addresses -> length]
  call,      \* the open() or create() under way, NoCall if none
  error      \* did the last one report an error?

mapVars == <<windows, object, opened, mapped, call, error>>

CONSTANTS nullptr, NoCall

WholeFile == -1   \* the length that stands for st_size

(* A call: of which object, what length, how far, and the handles that the *)
(* guards will close.                                                      *)
Calls ==
  [object : Objects, kind : {"open", "create"}, length : Nat \cup {WholeFile},
   step : {"file", "size", "section", "view", "no view"}, guarded : SUBSET Handles]

ASSUME LengthsAssumption == Lengths \subseteq Nat
ASSUME NullAssumption == nullptr \notin Views /\ NoCall \notin Calls

Closed == [data |-> nullptr, size |-> 0, handles |-> {}]

is_open(o) == object[o].data # nullptr

MapInit ==
  /\ windows \in BOOLEAN
  /\ object = [o \in Objects |-> Closed]
  /\ opened = {}
  /\ mapped = [v \in {} |-> 0]
  /\ call = NoCall
  /\ error = FALSE
-----------------------------------------------------------------------------
Without(views) == [v \in DOMAIN mapped \ views |-> mapped[v]]

(* close() of object o, which then holds what follows: munmap(), close()   *)
(* and reset().                                                            *)
Release(o, others) ==
  /\ opened' = opened \ object[o].handles
  /\ mapped' = Without({object[o].data})
  /\ object' = others

Close(o) ==
  /\ call = NoCall
  /\ is_open(o)
  /\ Release(o, [object EXCEPT ![o] = Closed])
  /\ UNCHANGED <<windows, call, error>>

(* open() and create(): what the object maps is closed first.              *)
Begin(o, kind, length) ==
  /\ call = NoCall
  /\ call' = [object |-> o, kind |-> kind, length |-> length, step |-> "file", guarded |-> {}]
  /\ error' = FALSE
  /\ IF is_open(o) THEN Release(o, [object EXCEPT ![o] = Closed])
     ELSE UNCHANGED <<object, opened, mapped>>
  /\ UNCHANGED windows

(* A call that ends without a mapping: the guards close their handles.     *)
EndsLeaky(reported) ==   \* variant: nothing guards them
  /\ call' = NoCall
  /\ error' = reported
  /\ opened' = opened
  /\ UNCHANGED <<windows, object, mapped>>

Ends(reported) ==
  /\ call' = NoCall
  /\ error' = reported
  /\ opened' = opened \ call.guarded
  /\ UNCHANGED <<windows, object, mapped>>

(* A kernel call that gives a handle, which the next guard takes.          *)
Gives(step) ==
  \E h \in Handles \ opened :
    /\ opened' = opened \cup {h}
    /\ call' = [call EXCEPT !.guarded = @ \cup {h}, !.step = step]
    /\ UNCHANGED <<windows, object, mapped, error>>

Continues(length, step) ==
  /\ call' = [call EXCEPT !.length = length, !.step = step]
  /\ UNCHANGED <<windows, object, opened, mapped, error>>

At(step) == call # NoCall /\ call.step = step

File == At("file") /\ (Gives("size") \/ Ends(TRUE))

AfterSize == IF windows THEN "section" ELSE "view"

(* fstat() and GetFileSizeEx(), whose failure leaves length unset; then    *)
(* nothing is mapped of an empty file.  create() sets the size instead.    *)
SizeKnown ==
  /\ At("size")
  /\ call.length # WholeFile
  /\ \/ call.length = 0 /\ Ends(FALSE)
     \/ call.length # 0 /\ Continues(call.length, AfterSize)
     \/ call.length # 0 /\ call.kind = "create" /\ Ends(TRUE)

SizeAskedUnread ==   \* variant: length is not set to st_size
  /\ At("size")
  /\ call.length = WholeFile
  /\ (~windows /\ Ends(TRUE)) \/ Continues(WholeFile, AfterSize)

SizeAsked ==
  /\ At("size")
  /\ call.length = WholeFile
  /\ \/ ~windows /\ Ends(TRUE)
     \/ \E length \in Lengths :
          \/ length = 0 /\ Ends(FALSE)
          \/ length # 0 /\ Continues(length, AfterSize)

(* CreateFileMapping() returns NULL when it fails, and the code looks for  *)
(* INVALID_HANDLE_VALUE: it goes on to a view that cannot be made.         *)
Section ==
  /\ At("section")
  /\ Gives("view") \/ Continues(call.length, "no view")

(* mmap(), MapViewOfFileEx(): the object takes the view and the handles.   *)
View ==
  /\ At("view")
  /\ \E v \in Views \ DOMAIN mapped :
       /\ mapped' = [w \in DOMAIN mapped \cup {v} |->
                       IF w = v THEN call.length ELSE mapped[w]]
       /\ object' = [object EXCEPT ![call.object] =
                       [data |-> v, size |-> call.length, handles |-> call.guarded]]
  /\ call' = NoCall
  /\ error' = FALSE
  /\ UNCHANGED <<windows, opened>>

ViewFailsOpen ==   \* variant: _data is left as mmap() returned it
  /\ At("view") \/ At("no view")
  /\ call' = NoCall
  /\ error' = TRUE
  /\ opened' = opened \ call.guarded
  /\ \E v \in Views \ DOMAIN mapped : object' = [object EXCEPT ![call.object].data = v]
  /\ UNCHANGED <<windows, mapped>>

ViewFails == (At("view") \/ At("no view")) /\ Ends(TRUE)
-----------------------------------------------------------------------------
(* Move construction is a swap with an object that holds nothing.         *)
Swap(a, b) ==
  /\ call = NoCall
  /\ a # b
  /\ object' = [object EXCEPT ![a] = object[b], ![b] = object[a]]
  /\ UNCHANGED <<windows, opened, mapped, call, error>>

(* Move assignment: swap(), then rhs.close().                              *)
MoveAssignCopy(a, b) ==   \* variant: the source is closed, not the old one
  /\ call = NoCall
  /\ a # b
  /\ Release(b, [object EXCEPT ![a] = object[b], ![b] = Closed])
  /\ UNCHANGED <<windows, call, error>>

MoveAssign(a, b) ==
  /\ call = NoCall
  /\ a # b
  /\ Release(a, [object EXCEPT ![a] = object[b], ![b] = Closed])
  /\ UNCHANGED <<windows, call, error>>

MapNext ==
  \/ \E o \in Objects : Close(o)
  \/ \E o \in Objects, length \in Lengths \cup {WholeFile} : Begin(o, "open", length)
  \/ \E o \in Objects, length \in Lengths : Begin(o, "create", length)
  \/ File \/ SizeKnown \/ SizeAsked \/ Section \/ View \/ ViewFails
  \/ \E a, b \in Objects : Swap(a, b) \/ MoveAssign(a, b)

MapSpec == MapInit /\ [][MapNext]_mapVars
-----------------------------------------------------------------------------
Guarded == IF call = NoCall THEN {} ELSE call.guarded

MapTypeOK ==
  /\ windows \in BOOLEAN
  /\ object \in [Objects -> [data : Views \cup {nullptr}, size : Nat,
                             handles : SUBSET Handles]]
  /\ opened \subseteq Handles
  /\ DOMAIN mapped \subseteq Views
  /\ mapped \in [DOMAIN mapped -> Nat]
  /\ call = NoCall \/ call \in Calls
  /\ error \in BOOLEAN

(* Every handle that is open belongs to one object or to the call under    *)
(* way, and every mapping to one object, through failures at every kernel  *)
(* call, reuse of an object, swaps and moves: nothing leaks, nothing is    *)
(* closed or unmapped twice, and no object is left with what is gone.      *)
EachHeldOnce ==
  /\ opened = Guarded \cup UNION {object[o].handles : o \in Objects}
  /\ DOMAIN mapped = {object[o].data : o \in Objects} \ {nullptr}
  /\ \A o \in Objects :
       /\ object[o].handles \cap Guarded = {}
       /\ \A p \in Objects \ {o} :
            /\ object[o].handles \cap object[p].handles = {}
            /\ object[o].data # object[p].data \/ object[o].data = nullptr

(* An object says it is open exactly if it has a mapping, of its size and  *)
(* of at least one byte, with the handles it needs; and an object that a   *)
(* call works on, or has failed to open, is closed: begin() to end() never *)
(* reaches memory that is not there.                                       *)
OpenIsWhole ==
  \A o \in Objects :
    /\ is_open(o) <=> object[o].size > 0
    /\ is_open(o) => mapped[object[o].data] = object[o].size
    /\ Cardinality(object[o].handles) =
         IF ~is_open(o) THEN 0 ELSE IF windows THEN 2 ELSE 1
    /\ call # NoCall /\ call.object = o => ~is_open(o)

(* What memory there is at the address an object has: none if it is        *)
(* closed, and none either, but it would not know, if it was unmapped.     *)
Dangling == -1
held == [o \in Objects |-> IF ~is_open(o) THEN 0
                           ELSE IF object[o].data \in DOMAIN mapped
                                THEN mapped[object[o].data] ELSE Dangling]

(* The steps of open(), create(), close(), the swaps and the moves are     *)
(* those of Holding: a mapping is acquired whole or not at all, and every  *)
(* object keeps its own until it is closed, opened again or moved from.    *)
Hold == INSTANCE Holding WITH Nothing <- 0, Lengths <- Lengths \ {0}
HoldsAsPromised == Hold!HoldingSpec
=============================================================================
