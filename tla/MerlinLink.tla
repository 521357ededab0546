----------------------------- MODULE MerlinLink -----------------------------
(***************************************************************************)
(* merlin-link run on a command file: process_script() reads the lines,    *)
(* parse_line() and evaluate() act on each, an exception ends the line.    *)
(* Composes the linker (Linker) and the conditional blocks (Conditional).  *)
(* With a list of REL files instead, process_files() links them and exits. *)
(***************************************************************************)
EXTENDS LinkerSafety, Conditional

CONSTANTS
  Scripts,    \* command files, by the lines they may hold and a bound on how many:
              \* [lines : sets of [op, label, operand, text, number], length]
  MaxErrors   \* errors at which process_script() gives up, 10 in the code

VARIABLES
  source,     \* which of Scripts the command file is
  end,        \* an END line has been evaluated
  no,         \* lines read
  errors,     \* errors reported
  finished    \* the loop of process_script() is over

scriptVars == <<source, end, no, errors, finished>>
vars == <<linkerVars, condVars, scriptVars>>

(* What the operand of a line is: a number, a name, a path, nothing (or a  *)
(* comment), or something no *_operand() of script.re2c accepts.           *)
OperandKinds == {"number", "name", "path", "none", "bad"}

ASSUME ScriptsAssumption ==
  \A s \in Scripts :
    s.length \in Nat /\ \A line \in s.lines : line.operand \in OperandKinds

ASSUME ErrorsAssumption == MaxErrors \in Nat \ {0}

ConditionalOps == {"DO", "ELS", "FIN"}
NumberOps == {"LKV", "VER", "TYP", "ADR", "ORG", "KND", "ALI", "DS", "=", "EQU", "GEQ"}
PathOps == {"LNK", "IMP", "SAV"}

op_needs_label(op) == op \in {"KBD", "=", "EQU", "GEQ"}
op_after_end(op) ==
  op \in {"END", "CMD", "PFX", "DAT", "RES", "RID", "RTY", "RAT", "FIL"}
Unsupported == {"LIB", "NOL", "RES", "RID", "RTY", "RAT", "FIL", "CMD", "ZIP"}

(* number_operand(): a name is looked up in the script's table, except the *)
(* name TYP is given, which x_label_operand() cuts down to its last letter *)
(* and file_types does not have.                                           *)
NumberError(line) ==
  IF line.operand = "none" THEN "missing operand"
  ELSE IF line.operand \in {"bad", "path"} THEN "bad operand"
  ELSE IF line.operand = "name"
          /\ (line.op = "TYP" \/ line.text \notin DOMAIN local_symbol_table)
  THEN "Bad symbol"
  ELSE Quiet

Number(line) ==
  IF line.operand = "name" THEN local_symbol_table[line.text] ELSE line.number

(* path_operand(): a name or a number is a path, too.  label_operand().    *)
PathError(line) ==
  IF line.operand = "none" THEN "missing operand"
  ELSE IF line.operand = "bad" THEN "bad operand"
  ELSE Quiet

LabelError(line) ==
  IF line.operand = "none" THEN "missing operand"
  ELSE IF line.operand # "name" THEN "bad operand"
  ELSE Quiet

(* Operands are names of symbols, the files there are, and numbers.        *)
ASSUME LinesAssumption ==
  \A s \in Scripts : \A line \in s.lines :
    /\ line.number \in Int
    /\ line.label \in Names \cup {""}
    /\ line.operand = "name" => line.text \in Names
    /\ PathError(line) = Quiet =>
         /\ line.op = "LNK" => line.text \in Units
         /\ line.op = "IMP" => line.text \in Binaries
         /\ line.op = "SAV" => line.text \in Outputs
-----------------------------------------------------------------------------
LineConditional(line) ==
  /\ line.op \in ConditionalOps
  /\ \/ /\ line.op = "DO"
        /\ \/ DoTooDeep
           \/ DoSkipped
           \/ NumberError(line) = Quiet /\ DoEvaluated(Number(line))
           \/ NumberError(line) # Quiet /\ DoBadOperand(NumberError(line))
     \/ line.op = "ELS" /\ (Els \/ ElsStray)
     \/ line.op = "FIN" /\ (Fin \/ FinStray)
  /\ UNCHANGED <<core, end>>

StoreNumber(line) ==
  \/ line.op = "LKV" /\ Lkv(Number(line))
  \/ line.op = "VER" /\ Ver(Number(line))
  \/ line.op = "TYP" /\ Typ(Number(line))
  \/ line.op = "ADR" /\ Adr(Number(line))
  \/ line.op = "ORG" /\ Org(Number(line))
  \/ line.op = "KND" /\ Knd(Number(line))
  \/ line.op = "ALI" /\ Ali(Number(line))
  \/ line.op = "DS" /\ Ds(Number(line))
  \/ line.op = "=" /\ Eq(line.label, Number(line))
  \/ line.op = "EQU" /\ Equ(line.label, Number(line))
  \/ line.op = "GEQ" /\ Geq(line.label, Number(line))

LineNumber(line) ==
  /\ line.op \in NumberOps
  /\ IF NumberError(line) = Quiet THEN StoreNumber(line)
     ELSE Throws(NumberError(line)) /\ UNCHANGED core
  /\ UNCHANGED end

LinePath(line) ==
  /\ line.op \in PathOps
  /\ IF PathError(line) # Quiet THEN Throws(PathError(line)) /\ UNCHANGED core
     ELSE \/ line.op = "LNK" /\ (LinkUnit(line.text) \/ LinkFails(line.text))
          \/ line.op = "IMP" /\ (Import(line.text) \/ ImportFails(line.text))
          \/ line.op = "SAV" /\ Sav(line.text)
  /\ UNCHANGED end

Ignored == Returns /\ UNCHANGED core

(* KBD prompts on a terminal only, and not for a name the script has.  The *)
(* operand of the line stands for what the user answers.                   *)
LineKbd(line) ==
  \/ Ignored
  \/ IF NumberError(line) = Quiet \/ line.label \in DOMAIN local_symbol_table
     THEN Kbd(line.label, Number(line))
     ELSE Throws(NumberError(line)) /\ UNCHANGED core

(* POS and LEN have a label as operand, EXT and KBD before the opcode.     *)
LineLabel(line) ==
  /\ \/ /\ line.op = "POS"
        /\ IF line.operand = "none" THEN PosReset
           ELSE IF LabelError(line) = Quiet THEN PosLabel(line.text)
           ELSE Throws(LabelError(line)) /\ UNCHANGED core
     \/ /\ line.op = "LEN"
        /\ IF LabelError(line) = Quiet THEN LenLabel(line.text)
           ELSE Throws(LabelError(line)) /\ UNCHANGED core
     \/ /\ line.op = "EXT"
        /\ IF line.label = "" THEN Ignored ELSE Ext(line.label)
     \/ line.op = "KBD" /\ LineKbd(line)
  /\ UNCHANGED end

LineEnd(line) ==
  /\ line.op = "END"
  /\ EndLink
  /\ end' = IF thrown' = Quiet THEN TRUE ELSE end

(* Opcodes that print, change the directory, set a flag nobody reads (fas, *)
(* ovr) or do nothing yet, once their operand was parsed.                  *)
IdleError(line) ==
  CASE line.op \in {"ENT", "DAT", "FAS"} -> Quiet
    [] line.op \in {"PFX", "PUT", "IF", "ASM"} -> PathError(line)
    [] line.op = "SEG" -> LabelError(line)
    [] line.op = "OVR" ->
         IF line.operand = "none" \/ line.text \in {"ALL", "OFF"} THEN Quiet
         ELSE "bad operand"

IdleOps == {"ENT", "DAT", "FAS", "PFX", "PUT", "IF", "ASM", "SEG", "OVR"}

LineIdle(line) ==
  /\ line.op \in IdleOps
  /\ IF IdleError(line) = Quiet THEN Ignored
     ELSE Throws(IdleError(line)) /\ UNCHANGED core
  /\ UNCHANGED end

LineUnsupported(line) ==
  /\ line.op \in Unsupported
  /\ Throws("opcode not yet supported")
  /\ UNCHANGED <<core, end>>

(* evaluate()                                                              *)
Evaluate(line) ==
  \/ LineConditional(line)
  \/ /\ line.op \notin ConditionalOps
     /\ UNCHANGED condVars
     /\ \/ ~active /\ Ignored /\ UNCHANGED end
        \/ /\ active
           /\ op_needs_label(line.op) /\ line.label = ""
           /\ Throws("Bad label")
           /\ UNCHANGED <<core, end>>
        \/ /\ active
           /\ ~(op_needs_label(line.op) /\ line.label = "")
           /\ \/ end /\ ~op_after_end(line.op) /\ Ignored /\ UNCHANGED end
              \/ /\ ~end \/ op_after_end(line.op)
                 /\ \/ LineNumber(line)
                    \/ LinePath(line)
                    \/ LineLabel(line)
                    \/ LineEnd(line)
                    \/ LineIdle(line)
                    \/ LineUnsupported(line)

(* The opcodes of ops.h, and "=": an alias counts as the opcode it is for. *)
Opcodes ==
  ConditionalOps \cup NumberOps \cup PathOps \cup IdleOps \cup Unsupported
  \cup {"KBD", "POS", "LEN", "EXT", "END"}

(* parse_line() throws before evaluate() sees the line.                    *)
BadOpcode(line) ==
  /\ line.op \notin Opcodes
  /\ Throws("bad opcode")
  /\ UNCHANGED <<core, condVars, end>>

(* The tenth error ends the script.                                        *)
TooManyAfter(count) == count > MaxErrors   \* variant: one more
TooMany(count) == count >= MaxErrors

(* One turn of the loop of process_script(): the exception of a line that  *)
(* leaves the script skipping is not reported.                             *)
ReadLine(line) ==
  /\ script /\ ~finished /\ exited = Running
  /\ no < source.length
  /\ \/ line.op \in Opcodes /\ Evaluate(line)
     \/ BadOpcode(line)
  /\ no' = no + 1
  /\ errors' = IF thrown' # Quiet /\ active' THEN errors + 1 ELSE errors
  /\ finished' = TooMany(errors')
  /\ UNCHANGED source

(* The end of the file.                                                    *)
EndOfFile ==
  /\ script /\ ~finished /\ exited = Running
  /\ finished' = TRUE
  /\ Returns
  /\ UNCHANGED <<core, condVars, source, end, no, errors>>

(* exit(errors ? EX_DATAERR : 0)                                           *)
ExitZero ==   \* variant: errors are forgotten
  /\ finished /\ exited = Running
  /\ Exits(0)
  /\ UNCHANGED <<progress, symbolVars, condVars, scriptVars>>

Exit ==
  /\ finished /\ exited = Running
  /\ Exits(IF errors > 0 THEN EX_DATAERR ELSE 0)
  /\ UNCHANGED <<progress, symbolVars, condVars, scriptVars>>

(* process_files()                                                         *)
LinkFile ==
  /\ ~script /\ exited = Running
  /\ LinkAny \/ FinishFiles
  /\ UNCHANGED <<condVars, scriptVars>>

Init ==
  /\ LinkerInit
  /\ CondInit
  /\ source \in Scripts
  /\ end = FALSE
  /\ no = 0
  /\ errors = 0
  /\ finished = FALSE

Next ==
  \/ \E line \in source.lines : ReadLine(line)
  \/ EndOfFile
  \/ Exit
  \/ LinkFile

Spec == Init /\ [][Next]_vars

(* One thread: as long as the process can go on it does.  A command file   *)
(* has an end, and what the kernel and the user are asked is answered.     *)
FairSpec == Spec /\ WF_vars(Next)
-----------------------------------------------------------------------------
(* The script's own variables have their types.                            *)
ScriptTypeOK ==
  /\ end \in BOOLEAN
  /\ source \in Scripts
  /\ no \in 0 .. source.length
  /\ errors \in 0 .. MaxErrors
  /\ finished \in BOOLEAN

(* A line changes what is linked only where every DO around it has its     *)
(* chosen half: not in a skipped block, however deep, and not because a    *)
(* refused level or a stray ELS upset the register.  The exceptions: a DO  *)
(* with a bad operand opens a block whose lines are evaluated, and after a *)
(* FIN without DO the register means nothing.                              *)
OnlyChosenLinesLink ==
  [][core' # core /\ script /\ ~finished =>
       (\A j \in DOMAIN Blocks : Blocks[j] = 1) \/ badDo \/ strayFin]_vars

(* Once END has been evaluated no further file is written and no unit is   *)
(* linked, although END itself is still obeyed after END.                  *)
EndIsFinal == [][end => written' = written /\ lnk' = lnk]_vars

(* A script whose output failed - resolve() or finish3() threw and left    *)
(* segments half resolved or encoded - does not end with status 0.         *)
Untouched(seg) ==
  /\ ~seg.encoded
  /\ seg.intersegs = {} /\ seg.patches = {} /\ seg.dropped = {}
  /\ \A link \in seg.relocs : link.ref.sym = Itself

FailedOutputTold ==
  script /\ exited = 0 => \A ix \in DOMAIN segments : Untouched(segments[ix])

(* A line that is rejected leaves the linker as it was: its operand is     *)
(* parsed and checked before anything is stored.  Only a failed output     *)
(* leaves traces.                                                          *)
RejectedLineChangesNothing ==
  [][thrown' \notin {Quiet, CodeExceedsBank, OffsetError} => UNCHANGED core]_vars

(* An error that was reported reaches the caller: the process comes to an  *)
(* end, whatever lines follow, and not with status 0.                      *)
ErrorIsTold == errors > 0 ~> exited \notin {Running, 0}
=============================================================================
