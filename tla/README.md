# merlin-link in TLA+

merlin-link joins REL files of the Merlin 8/16+ assembler into OMF load files,
OMF object files or plain binaries.  It is given a list of REL files, or a
command file (`.S`) whose lines set options, link files and save outputs.  The
program is single threaded.  What is hard about it is not concurrency but a
large mutable state - globals in `link.cpp` and `main.cpp` - that a command
file may drive through any sequence of some forty opcodes, in which any line
may throw half way, the loop goes on after it, and several outputs may be made
one after the other; and writers that pack what is left into records whose
sizes and positions must agree with each other.

This directory models the program, checks it with TLC on small instances, and
proves the parts that matter most with TLAPS.

## The system

| part | source | state | operations |
|---|---|---|---|
| command line | `main.cpp` | `save_file`, `express`, `compress`, `verbose` | `-o`, `-D` (define), choice of command file or files |
| command file loop | `link.cpp` `process_script` | line number, `errors`, `end` | read a line, catch its exception, give up at the tenth, exit status |
| lexer | `script.re2c` | none | `parse_line`, `number_operand`, `path_operand`, `label_operand`, `string_operand`, `ovr_operand` |
| conditional blocks | `link.cpp` `evaluate`, first switch | `active_bits`, `active` | DO, ELS, FIN |
| opcodes | `link.cpp` `evaluate`, second switch | `lkv`, `ver`, `ftype`, `atype`, `org`, `loadname`, `pos_var`, `len_var` | one case per opcode |
| symbol tables | `link.cpp` `find_symbol`, `define` | `symbol_table`/`symbol_map`, `local_symbol_table` | insert, define once |
| linker core | `link.cpp` | `segments`, `relocations` | `new_segment`, `process_unit` (labels, relocations, DS/ERR), `import`, `resolve`, `finish` |
| object file layout | `link.cpp` `finish3` | iterators, breaks and the buffer of one call | lay labels and relocations inline |
| OMF writer | `omf.cpp` | the file, the segments (renumbered in place), the patch lists | `save_bin`, `save_object`, `save_omf`, `add_relocs`, `super_helper` |
| mapped files | `mapped_file.*`, `unique_resource.h` | descriptor, mapping | open, create, close, swap, move |
| file types | `set_file_type.cpp` | none | through libafp, a submodule that is not in the tree |

The parts call each other directly and share the globals.  `parse_line` calls
`evaluate`, which calls the linker core; the core opens its input as mapped
files, hands its segments to the writer and sets the file type.  A failure
comes back as an exception that only `process_script` catches, or ends the
process by `errx`.  There is no callback, thread, signal or persistent state: a
crash leaves at most a partly written output.

What makes each part correct:

- *conditional blocks*: DO and FIN pair as they nest; a line is evaluated
  exactly when every open block is in its chosen half; errors keep that.
- *symbol tables*: the first definition of a name stays.
- *linker core*: every reference of every linked file is resolved in exactly
  one way, to the place where its symbol is, in the file that is written;
  everything that is linked is written once; no write goes outside a segment,
  and all that although `resolve` may throw half way.
- *command file loop*: skipped lines have no effect, rejected lines have none,
  END is final, failure is told.
- *object file layout*: it ends; every label and relocation finds its place, or
  the throw says that one did not; the body reads back as the segment.
- *OMF writer*: the records decode to what was encoded; sizes, positions and
  numbers agree.
- *mapped files*: what was acquired has one owner and is released once.

`PROJECT.json` lists under `hazards` what is hard to test, at its line, and the
properties that speak of it.

## Modules

| module | models | uses |
|---|---|---|
| `Process` | how a call ends: returns, throws, exits | |
| `RelFile` | the contents of REL and binary files; what `process_reloc`, `process_ds_err` derive from one | |
| `SymbolTable` | both tables, `find_symbol`, `define`, the LBL masks, `-D` | `RelFile` |
| `Placement` | which segments finish3 can lay out | |
| `Linker` | segments, pending relocations, `process_unit`, `import`, `resolve`, `finish`, `finish3`, SAV, END, every opcode with an effect | `Process`, `SymbolTable`, `Placement` |
| `LinkerSafety` | the properties of `Linker` | `Linker` |
| `Conditional` | DO, ELS, FIN over the register | `Process`, instance of `CondNest` |
| `CondNest` | abstract: a stack of blocks | |
| `MerlinLink` | the whole program: loop, operand errors, dispatch, exit | `LinkerSafety`, `Conditional` |
| `ObjectFile` | the layout loop of `finish3`, step by step | `Placement`, `Sums`, instance of `ObjectPromise` |
| `ObjectPromise` | abstract: one decision on a segment | `Placement` |
| `Sums` | what the elements of a vector, pushed one after the other, take | |
| `OmfRecords` | `add_relocs`, `super_helper`: the records of one segment | `Sums` |
| `OmfFile` | `save_omf`, `save_object`: where the parts of a file stand | `Process`, `Sums` |
| `MappedFile` | `mapped_file` on both platforms, kernel call by kernel call | instance of `Holding` |
| `Holding` | abstract: an object holds a mapping or nothing | |
| `MCLinker`, `MCMerlinLink`, `MCObjectFile`, `MCOmfRecords`, `MCOmfFile` | files, lines, segments for TLC | |
| `LinkerProofs`, `SegmentProofs`, `ReferenceProofs` | theorems about `Linker`, each on top of the one before | TLAPS |
| `ScriptProofs` | theorems about `Conditional` and `MerlinLink` | `ReferenceProofs` |
| `ObjectFileProofs`, `OmfProofs`, `MappedFileProofs` | theorems about `ObjectFile`; `OmfRecords` and `OmfFile`; `MappedFile` | TLAPS |
| `SumsProofs` | lemmas about sums and sequences for the writers | `Sums` |

`Linker` and `Conditional` are composed by `MerlinLink`.  The writers are not
composed with it: a segment of `Linker` has references and a size, one of
`OmfRecords` has bytes, and their product is out of TLC's reach.  They meet in
what they assume of each other instead: `Linker` decides finish3 by
`Placement!Fits`, the very operator that `ObjectFile` is shown to implement,
and `HandedOver` shows that what `Linker` gives away has the form that
`ObjectFile` (fields inside the data), `OmfRecords` (the same, relocations to
other segments only) and `OmfFile` (numbers from 1, in order) start from.

### How state and actions correspond to the code

**Process.**  `thrown` is the message of the exception that the last call
threw, `exited` the exit status.  An action of another module ends in
`Returns`, `Throws(message)` or `Exits(status)`.

**RelFile.**  A unit is its length, its labels and its relocation records.  A
record names its symbol where the file has a slot number (`cookie.remap`), and
addends are taken after the 0x8000 bias is removed.  `Processed` are the records
`process_reloc` gets to before one of its early returns, `References` what it
makes of each (three for an external DDB).  `WellFormed` states what the
assertions of `process_reloc` and `process_labels` demand.

**SymbolTable.**  A symbol's id is its name: ids are never reused and
`symbol_map` is injective.  `home`, a ghost, says which segment holds the
symbol's definition.

**Linker.**  A segment has its attributes, its size, the files `placed` in it
and its references by what has become of them: `relocs` and `intersegs` as in
`omf::segment`, and as ghosts `patches` (absolute symbols whose value `resolve`
wrote into the data) and `dropped` (undefined symbols it reported).  The bytes
are not modelled.  `number` tells apart all segments ever made, `written` holds
the files in the order of writing.  Vectors of relocations are sets - `copy`
keeps the two equal records of a DDB apart - so the sorts at the end of
`resolve` have no counterpart.  `resolve` is one atomic operation: `Reached`
are the segments before the first one that is too large, where it throws
(`ResolveThrows`), with the effects on those before.

SAV and END are one action each with all they call: `Finish`, `StartOver`, and
the failures (`FinishFails` exits, `ResolveThrows` and `Finish3Throws` leave the
changed segments to the next line).  `Finish3Throws` leaves the segment with a
size out of `EncodedSizes`: the encoding is longer than the data, how much
longer is not modelled here.  Whether finish3's layout succeeds is `Placeable`,
which applies `Fits` to the segment's labels and references.

**Conditional.**  `active_bits` is a function from bit positions to 0 and 1, so
that the shifts and the test `(b & (b + 1)) == 0` (`AllOnes`) are those of the
code for any width.  `openDos`, `strayFin` and `badDo` are ghosts.

**MerlinLink.**  A line is its opcode, its label and its operand by kind.
`Evaluate` has the order of the code: the conditional opcodes, then the return
of a skipped line, the label check, the END check, the opcode.  `ReadLine` adds
the catch clause: an error is counted only if `active` holds after it.
`source` is the family of command files out of which the lines come, chosen at
the start.  KBD's terminal is a choice; the operand of the line stands for the
answer.

**ObjectFile.**  The iterators `iter1`, `iter2`, `iter3` into sorted vectors are
the sets of what is left (`globals`, `unresolved`, `resolved`): an iterator
stands at an element of least offset, and equal ones come in any order, as
`std::sort` may leave them.  The two nested loops are five steps: `Copy` (the
outer loop's break, the checks on it, CONST or LCONST), `Globals`, `Unresolved`
and `Resolved` (one round of the inner loop), `Check` (what is left over, save
or throw).  `records` is the body.

**OmfRecords.**  One relocation per step, in the order of the vectors: `Follows`
is the sort that `resolve` left.  `helpers` is the array `ss`, with the data,
page and count of each list; `image` the bytes SUPER writes into the segment;
`body` the records.  `Skips` and `Added` are `super_helper::append` with its
bytes; a byte has `Radix` values, so that a page, the skip flag (half of it)
and the 16-bit limit (its square) scale together.  `Flush` is one turn of the
loop over the lists.  `Reader`, with which the property decodes a list, takes it
byte by byte as a loader does: a count or a skip, then so many offsets.

**OmfFile.**  `Open` leaves room for the express segment and renumbers,
`WriteSegment` is one turn of the loop over the segments, `WriteExpress` writes
the express segment into the room.  Bytes are counted: each segment written is
its place and its header.  `Word` is the cut to 16 bits.

**MappedFile.**  One kernel call per step, each of which may fail.  `call` is
the `open` or `create` under way with the handles its `unique_resource`s guard;
`opened` and `mapped` are the kernel's side.  `windows` chooses the half of the
source that is built.  Lengths stay symbolic but for 0 and `WholeFile` (-1).
Swaps and moves are single steps: they only touch the two objects.

## Runs

Deadlock is checked for `conditional` only, which never stops: in the other
runs the program ends or a bound stops it (`CHECK_DEADLOCK FALSE`).

| run | what | distinct states |
|---|---|---|
| `conditional` | register of 5 bits, up to 7 DOs counted; refinement of `CondNest` | 324 |
| `linker` | lkv 1 and 2, three units, 4 segments, 3 links, a bank of 7 bytes | 1.3 million |
| `object` | lkv 0, 2 and 3, the same units, an import, unreadable files, encoding of 20 bytes | 950 thousand |
| `settings` | every setting and definition around one unit, 2 segments | 53 thousand |
| `script` | command files of 7 lines over 10 lines, and of 4 lines over every opcode and error; with fairness | 384 thousand |
| `object_file` | every segment of up to 4 bytes, up to 2 fields of either kind and 2 labels; refinement of `ObjectPromise`, with fairness | 910 thousand |
| `records` | up to 5 relocations of all kinds, or 12 on full and distant pages, a byte of 8 values | 340 thousand |
| `omf_file` | up to 3 segments, versions 1 and 2, express or not, names of 3, 255 and 300 characters | 400 thousand |
| `mapped_file` | 2 objects, 5 handles, 3 addresses, lengths 0 to 2, both platforms; refinement of `Holding` | 13 thousand |
| `stale_symbol`, `label_between`, `padding` | violations, see below | |

### Bounds

- `Width` 5 (conditional), 3 (script): refused, full, and all partial nestings
  occur; the code's width is 32 and the theorems hold for every width.
  `MaxOpen` bounds the ghost `openDos`, which grows only behind a stray FIN.
- `MaxSegments`, `MaxLinks`: three files and four segments give two outputs, a
  multi-segment output with references both ways between its segments, and an
  output that fails and is tried again.  Fewer leave `written` with one file;
  more only repeat.
- `Page` is 4 instead of 256 and `MaxBank` 7 or 3 instead of 65535, so that DS
  fills pad and banks overflow with units of a few bytes.  Nothing depends on
  the values themselves.
- `MaxErrors` is 2 instead of 10; `BlockLength` 7 is enough for a block with two
  halves around a link and a SAV, or two outputs, the second after a failure;
  `LabelLength` 4 for a definition, two uses and a repeat.
- The units: `main` refers to `foo` and to itself, `lib` defines `foo`, refers
  to `bar` by DDB and has a record behind it that is never read, `late` defines
  `bar`, defines `foo` again as absolute, and pads.  So each symbol is external,
  relocatable, absolute, undefined or defined twice, depending on the order.
- `MaxSize` 4, `MaxFields` 2, `MaxLabels` 2: two fields of a kind touch, overlap
  and are equal, a label stands before, inside, between and behind them; what
  the loop does depends on neighbours only, and the theorems hold for every
  segment.
- `Radix` 8: a page of 8 bytes is filled to its last byte, a skip needs one byte
  or two, an offset and a value reach 16 bits.  The 240 of a shift is not scaled:
  it is only compared.
- `SuperSegments` 2, `Segnums` 1 and 3: segments with a SUPER list, without one,
  and too large for a byte.
- Names of 255 and 300 stand on either side of the length byte; a size of 448
  with a name of 3 fills a block of version 1 to the byte; `Word` 200 cuts the
  table of the express segment.
- 5 handles are enough for two open objects of Windows and a call's first; when
  none is left the call fails, which it may anyway.

### What the passing runs show

- `ReferencesAccounted`: each external reference of each file placed in a
  segment is pending, relocated, intersegment, patched or reported undefined,
  exactly one of these, through any number of failed and repeated resolutions
  and in every file written.
- `BindsToDefinition`: a relocated reference designates the offset in the
  segment where the defining file stands, if that segment is in the same file.
- `UndefinedIsUndefined`: what an output reports undefined, or an object file
  leaves to the loader, no file in it defines.  It is about the report that the
  output makes itself: a reference that a failed attempt before it has reported
  is gone from `pending`, stays zero although its symbol may be defined by then,
  and is not counted again (`DroppedBefore`).
- `WrittenOnce`, `LeavesWritten`: no segment is written twice; a segment with
  contents only leaves the linker in a written file, but for the two cases the
  property names, which the code accepts.
- `HandedOver`: every file goes to its writer in the form the writer relies on.
- `FirstDefinitionStays`: both symbol tables only grow.
- `FieldsInside`: no relocation reaches behind its segment's data.
- `ClosedSegmentsKeep`: lines for a segment do not change those before it.
- `LevelMarked`, `ActiveMeansChosen`, `ImplementsNesting`: the register counts
  levels and evaluates what a stack of blocks would.
- `OnlyChosenLinesLink`, `EndIsFinal`, `FailedOutputTold`,
  `RejectedLineChangesNothing`: the same through the whole program.
- `ErrorIsTold`: under fairness, an error that was reported ends in an exit
  status other than 0.
- `PlacedIffFits`, `NeverBehind`: finish3 saves exactly the segments in which
  everything has a place, and the first of its exceptions is never thrown.
- `ReadsBack`: a reader of the body finds every byte, label and field where the
  segment had it.
- `PromiseKept`: the loop ends, and is the one decision of `ObjectPromise`.
- `LoaderSeesRelocations`: a decoder of the records, SUPER lists included, gets
  the relocations of the segment, their values and their segments, no others.
- `SizeIsWritten`: the size that `add_relocs` adds up is that of the records.
- `PagesAscend`: the assertion of `super_helper::append` holds, although
  relocations and intersegs, sorted apart, go to the lists one after the other.
- `SegmentsInSequence`: the byte counts lead a loader from segment to segment
  through the whole file (names within their length byte; version 1's extra
  block apart).
- `ExpressTells`: marks and sizes of the express segment meet the data and the
  relocations; its table, up to 16 bits, meets the headers; reserved space is
  counted once.
- `NumbersArePlaces`: segments, intersegs and the express map are renumbered
  together.
- `EachHeldOnce`, `OpenIsWhole`, `HoldsAsPromised`: handles and mappings have
  one owner through every failure; an open object has its mapping; the calls
  implement `Holding`.
- `CondTypeOK`, `LinkerTypeOK`, `ScriptTypeOK`, `TypeOK`, `MapTypeOK`: the
  types, one per component.

### Disagreements

Three sentences of the repository are not true of the code; each has a run in
which TLC shows it.

- `omf.cpp:534` no links to other files: symbols outlive the output that
  defined them (`stale_symbol`).
- `link.cpp:969` "global expr global expr": a label between an unresolved field
  and a resolved one behind it is passed over, and the segment is refused
  (`label_between`).
- `omf.cpp:674` padding to 512 bytes: a segment that fills its last block is
  padded by one more (`padding`).

Others were met while modelling; the models follow the code.

- `link.cpp:172` "32 do levels supported": 31 (`link.cpp:1129` refuses the 32nd).
- `link.cpp:1152` "fin without do": given for a FIN that has its DO as well, once
  an earlier FIN had none.
- `link.cpp:415` a DDB gives one relocation per byte: an external one gives two
  for the high byte (`link.cpp:433`).
- `README.md:25` an import is named by its file name: it is named by its
  directory, if the path has one (`link.cpp:1110`).
- `README.md:24` "only allows OMF version 2": VER 1 is accepted
  (`link.cpp:1262`).
- `README.md:22` lists `EQ`: `script.re2c:36` knows it as `=` only.
- `main.cpp:32` default `gs.out`: it is `omf.out` (`link.cpp:794`).
- `script.re2c:108` upper-cases a name by assigning each character to the whole
  string, so TYP finds no file type by name.
- `omf.cpp:573` leaves room for the whole of a segment name in the express
  segment, `push` (`omf.cpp:196`) writes 255 characters: behind a longer name
  the first segment does not follow (why `SegmentsInSequence` has `NamesFit`).
- finish3 writes the references within the segment only: those to segments
  closed under lkv 2 before (`link.cpp:895`) are left out of the object file.

## Fairness and liveness

Two specifications state fairness, in both weak fairness of the whole
next-state relation: the program is one thread, and as long as it has a next
step nothing can withhold it.  (Files have an end, and the kernel and the user
answer.)

- `MerlinLink!FairSpec`: `ErrorIsTold`.  Without it a program may stop between
  the error and the exit.
- `ObjectFile!Spec`: `PromiseKept`, which contains the weak fairness of
  `ObjectPromise`'s `Decide`.  It fails if a round of the two endless loops can
  repeat without progress.

`Linker` alone has none: it has no operation that waits for another.  Nor has
`MappedFile`: that a call comes back is the kernel's promise.

## Theorems

All are checked by TLAPS without assumptions beyond the `ASSUME`s of the
modules, which TLC evaluates in every run.

- `CondSafety`: `CondSpec => [](CondTypeOK /\ LevelMarked /\ ActiveMeansChosen)`
  for every `Width >= 2`.  The inductive invariant `CondInv` adds to the three
  that after a bad DO the innermost bit is 0 while `active` is true, and that
  `active` otherwise is `AllOnes`: without it the step of ELS and FIN, which
  recompute the flag from the register, does not go through.
- `CondRefinesNest`: `CondSpec => ImplementsNesting`.  `Blocks` reads the bits
  below the leading 1, outermost first; each opcode maps to one step of
  `CondNest` or to a stutter.
- `LinkerShape`: `LinkerSpec => [](LinkerTypeOK /\ VectorsParallel /\
  FieldsInside)`.  The invariant `LinkerInv` needs, beside the three, that the
  definitions of symbols have types that make sums of addends and values
  integers; padding only grows a segment (arithmetic of `PadTo`), so that old
  references stay inside while a file is placed behind them.
- `FirstDefinition`: `LinkerSpec => FirstDefinitionStays`, one lemma per way of
  changing the tables.
- `WrittenApart`: `LinkerSpec => []WrittenOnce`.  `OnceInv` adds that no number
  of a segment, built or written, is above `made`: so the segment that the next
  output starts with differs from all before it.  `OnceStep` says what a call
  may do - keep the segments, add one, or write a file out of them and then
  clear them or exit - and every action is shown to be such a step.
- `NoReferenceLost`, `WritersGivenOrder`: `LinkerSpec => []ReferencesAccounted`,
  `LinkerSpec => []HandedOver`.  `Held` says of one segment what
  `ReferencesAccounted` says of all, element by element.  A file is placed behind
  the data, and by `LinkerInv` every reference so far lies inside it: so none of
  the new references, which are at least one byte, is an old one (`Behind`,
  `UnitHeld`).  `resolve` splits the pending ones by what their symbols are
  (`Moved`, `ResolvedHeld`), whether it reaches all segments or throws.
  `AccountInv` adds that each written file is `Sound`, which `FinishSound` shows
  of every way that a file is written.
- `ClosedSegments`, `NoneLost`: `LinkerSpec => ClosedSegmentsKeep`,
  `LinkerSpec => LeavesWritten`.  Every call keeps each segment at its index, but
  for the last one, to which it may add, and a new one (`FollowStep`).  What
  makes a segment known by its number is that no two of them share one
  (`Distinct`), inductive with the bound `made` of `OnceInv`.  `FileHolds` says
  which numbers a written file has.
- `PartsKeep`, `ReferencesKeep`, `StepsKeep`: all of these, and `RightDefinition`
  and `NoneFalselyReported` below, about `Spec`, the whole program.  The lemmas about `Linker` are about `LinkerStep`: a
  call with any operand, the end of a list of files, or nothing done to the
  linker.  `LinkerNext` makes such steps (`NextSteps`), and so does `Next`
  (`ProgramSteps`): each line is a call or leaves the linker alone
  (`LineCalls`), from the kinds of operand that `number_operand` and the others
  let through.  So `PartsInv`, which joins the invariants, is kept line by line.
- `EndStays`: `Spec => EndIsFinal`.  The invariant `Ended` says that after END
  the multi-segment linker has one segment, so that END, the only opcode with
  an effect that is obeyed after END, has nothing left to write.
- `ChosenLinesLink`, `RejectedLines`: `Spec => OnlyChosenLinesLink`,
  `Spec => RejectedLineChangesNothing`, from the same invariant and one case per
  opcode.
- `SavesWhatFits`: `Spec => []PlacedIffFits`, for every segment.  `LayoutInv`
  says what has been done so far fits (`DoneFits`: fields placed are apart,
  labels placed are outside them, all of it up to `offset`) and, if everything
  fits (`Whole`), that whatever is left stands at or behind `offset`
  (`LeftAhead`): so a plan that fits is never left with something behind it, and
  one that does not has a pair of which only one can be placed.
  `NeverThrownByCopy` and `LayoutTypes` follow from the same invariant,
  `OneDecision` (`Spec => Promise!PromiseSafe`, the safety half of
  `PromiseKept`) from it as well.
- `RightDefinition`: `LinkerSpec => []BindsToDefinition`.  `BindInv` follows a
  definition from the step that makes it to the last output: a defined symbol
  has the segment and a place of its name in the segment that is its `home`, and
  every reference that was bound was given what the table says (`Grounded`).
  Since defined symbols stay (`FirstDefinition`) and segments keep their numbers
  apart (`Distinct`), no later call can part the two.
- `NoneFalselyReported`: `LinkerSpec => UndefinedIsUndefined`.  `CoverInv`: a name
  that a file placed in a segment defines is a defined symbol.  Every call but
  the two that place a file only moves what is placed (`Built`); `resolve`
  reports what it does not find defined (`ResolvedReported`), in every way that a
  file is written, for lkv 3 as well, where the run has only lkv 1 and 2.
- `FailureTold`: `Spec => []FailedOutputTold`.  `Told`: as long as no error was
  counted no segment has been touched by an output that failed, and an exit with
  status 0 has none counted.  Every call that leaves a trace throws, which the
  loop counts, since such a line is evaluated only while `active` holds.
- `BodyReadsBack`: `Spec => []ReadsBack`, for segments of any size.  `Laid` says
  that the records stand one behind the other up to `pc`, each label and field
  at the sum of the sizes before it, and `BodyInv` that together they are what
  the loop has passed.
- `WalkFindsAll`, `LoaderIsTold`, `PlacesKnown`: `FileSpec => []` of
  `SegmentsInSequence`, `ExpressTells` and `NumbersArePlaces`, for any number of
  segments of any size.  `FileInv` has one part for what was written
  (`Headers`), one for where it stands (`Chain`, `Ending`) and one for object
  files; that the express segment fills the room left for it is arithmetic of
  sums over the segments.
- `SizeAdded`, `AscendingPages`: `Spec => []SizeIsWritten`, `Spec =>
  PagesAscend`.  `RecordsInv`: a list is at a page no later than the last
  relocation that fed it, and is fed by relocations only or by intersegs only:
  that is why the two vectors need to be sorted only apart.
- `LoaderSeesAll`: `Spec => []LoaderSeesRelocations`, for any relocations.
  `LoadInv` says of a list in the making that a reader gets from it the offsets
  gathered so far (`Packed`), of the records that they say nothing that was not
  meant (`Honest`), and of each relocation done that it has its record or is in
  a list (`Kept`) and, for SUPER, its bytes in the data (`Left`).  A count byte is
  never taken for a skip because fields are apart and of two bytes at least, so
  that half as many offsets as it has bytes fill a page (`Reading`).
- `HeldOnce`, `WholeOrClosed`, `HoldsItsPromise`: `MapSpec => []` of `MapTypeOK`,
  `EachHeldOnce`, `OpenIsWhole`, and `MapSpec => HoldsAsPromised`, for any number
  of objects, handles and lengths.  `MapInv` states ownership handle by handle
  and mapping by mapping, and how many handles a call guards at each step;
  `Released` is the one lemma about close, reopening and move assignment.

Sums and decoders are recursive functions over the indices of a sequence.  The
lemma `Inductive` of `SumsProofs` is induction over a set of numbers, from the
well-foundedness of `<`; with it `SumsAre`, `SumsShift` and `SumsAppend` say what
a sum is, for every sequence, and the proofs about files and records cite only
these.

Only model checked: `ErrorIsTold` and the liveness half of `PromiseKept`, which
are about fairness and out of TLAPS's reach.  Every other property of the
passing runs is a theorem.

## Not modelled

- the bytes of segments, but for the patch lists and what SUPER leaves in the
  data (`OmfRecords`); the byte order and the constant fields of headers; the
  results of `write()`, which the code does not look at;
- the GEQU records of finish3, one per absolute symbol: they stand before the
  body and take no part in its layout;
- 32-bit overflow of addresses: a linked program is far smaller;
- the characters of the lexer: each line is what the lexer makes of it, by kind
  of operand; the parsing of numbers in `-D`;
- `check_exd`, warnings, ENT's and `-v`'s listings, DAT, the effect of PFX on
  later relative paths;
- `lib()`, which nothing calls; LIB throws;
- flags, offsets and alignment of `mapped_file`;
- libafp (a submodule that is not in the tree); what `set_file_type` does to a
  file, but that it may fail;
- which settings outlive an output: `ftype`, `atype`, `org`, `ver` and the first
  load name are kept, and the models keep them, but nothing in the repository
  says whether they should be.

## Plan

Done: `Conditional` with `CondNest`, `Linker` with its parts, `MerlinLink`,
`ObjectFile` with `ObjectPromise`, `OmfRecords`, `OmfFile`, `MappedFile` with
`Holding`, liveness, and the theorems above.

Next:

1. `ScriptLexer`: kinds of operand from classes of characters, with the number
   formats, at the width of their type.
2. The last two meetings of the parts as theorems: that `PlacedIffFits` and
   `Linker`'s `Placeable` speak of the same segments, and that what `HandedOver`
   gives satisfies the assumptions with which `OmfRecords` and `OmfFile` start.
