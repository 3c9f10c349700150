---- MODULE Loader_proofs ----
(* What happens before the game runs on: the words of a hooked function fit their *)
(* trampoline and name what they named before, the pages of its view are free, no  *)
(* plugin runs twice; and what the game hears from files and tables afterwards.    *)
EXTENDS InlineHook, ControlledPages, PluginManager, FileReplacement,
        FiniteSetTheorems, WellFoundedInduction, TLAPS

\* Every set of natural numbers but the empty one has a least member: the numbers
\* are well founded.
LEMMA LeastNatural ==
  ASSUME NEW T, T \subseteq Nat, T # {}
  PROVE  \E x \in T : \A y \in T : x <= y
  <1> DEFINE R == OpToRel(<, Nat)
  <1>a. IsWellFoundedOn(R, Nat)
    BY NatLessThanWellFounded
  <1>b. \A x, y \in Nat : <<y, x>> \in R <=> y < x
    BY DEF OpToRel
  <1> HIDE DEF R
  <1>c. PICK x \in T : \A y \in T : ~(<<y, x>> \in R)
    BY <1>a, WFMin, Zenon
  <1>d. \A y \in T : ~(y < x)
    BY <1>b, <1>c
  <1> QED
    BY <1>d

----
(* Hooks: a trampoline is large enough for whatever instructions a function begins
   with. *)

Moved == [op : Ops, target : Nat]

\* Words one instruction takes at most, a load of four words with three NOPs.
Most == 9

\* The trampoline of the function being hooked begins at Base.
Base == Trampolines + InsnsWords * (__index - 1)

HookTypes ==
    /\ __index \in Nat
    /\ hook \in [symbol : Nat, replace : Nat, count : 0 .. A64_MAX_INSTRUCTIONS, inline : BOOLEAN]
    /\ program \in Seq(Moved)
    /\ outprx \in Nat
    /\ inline_hook_curridx \in Nat

\* While a hook is made, what is written grows by at most Most words with each
\* instruction, and by five words with the jump back.
Growth ==
    hook # NoHook =>
        /\ Len(program) <= hook.count
        /\ outprx <= Base + Most * Len(program) + IF back = NoBack THEN 0 ELSE 5

Unhooked == hook = NoHook => program = <<>> /\ back = NoBack

HookInv == HookTypes /\ Growth /\ Unhooked

----
\* Some place among the next w keeps the alignment of data of w words, so that a
\* load never takes more than w - 1 NOPs.
LEMMA AlignedPlace ==
    ASSUME NEW place \in Nat, NEW ahead \in Int, NEW w \in {1, 2, 4}
    PROVE  /\ \E p \in place .. place + w - 1 : (p + ahead) % w = 0
           /\ \E p \in place .. place + w - 1 : (ahead - p) % w = 0
<1>a. CASE w = 1
  <2>a. (place + ahead) % 1 = 0 /\ (ahead - place) % 1 = 0
    OBVIOUS
  <2> QED BY <1>a, <2>a
<1>b. CASE w = 2
  <2>a. (place + ahead) % 2 = 0 \/ (place + 1 + ahead) % 2 = 0
    OBVIOUS
  <2>b. (ahead - place) % 2 = 0 \/ (ahead - (place + 1)) % 2 = 0
    OBVIOUS
  <2>c. place \in place .. place + w - 1 /\ place + 1 \in place .. place + w - 1
    BY <1>b
  <2> QED BY <1>b, <2>a, <2>b, <2>c
<1>c. CASE w = 4
  <2>a. \E k \in 0 .. 3 : (place + k + ahead) % 4 = 0
    <3>a. \/ (place + 0 + ahead) % 4 = 0 \/ (place + 1 + ahead) % 4 = 0
          \/ (place + 2 + ahead) % 4 = 0 \/ (place + 3 + ahead) % 4 = 0
      OBVIOUS
    <3> QED BY <3>a
  <2>b. \E k \in 0 .. 3 : (ahead - (place + k)) % 4 = 0
    <3>a. \/ (ahead - (place + 0)) % 4 = 0 \/ (ahead - (place + 1)) % 4 = 0
          \/ (ahead - (place + 2)) % 4 = 0 \/ (ahead - (place + 3)) % 4 = 0
      OBVIOUS
    <3> QED BY <3>a
  <2>c. \A k \in 0 .. 3 : place + k \in place .. place + w - 1
    BY <1>c
  <2> QED BY <1>c, <2>a, <2>b, <2>c
<1> QED BY <1>a, <1>b, <1>c

\* What every way of moving an instruction does besides writing its item.
Advances(ins) ==
    /\ outprx' \in Nat /\ outprx' <= outprx + Most
    /\ program' = Append(program, ins)
    /\ UNCHANGED <<__index, inline_hook_curridx, hook, back>>

\* An item behind at most pad NOPs with at most Most - pad words.
LEMMA EmitAdvances ==
    ASSUME NEW ins, NEW item, NEW place, NEW waitsFor, NEW pad \in 0 .. 3, NEW words \in Nat,
           outprx \in Nat, item.at \in outprx .. outprx + pad, words + pad <= Most,
           Emit(ins, item, words, place, waitsFor)
    PROVE  Advances(ins)
BY DEF Emit, Advances, Most

LEMMA NearAdvances ==
    ASSUME NEW ins, NEW target, outprx \in Nat, Near(ins, target)
    PROVE  Advances(ins)
<1> DEFINE at == outprx
<1>a. PICK value, waitsFor :
         Emit(ins, [from |-> outprx, at |-> outprx, form |-> "Relative", value |-> value], 1,
              At(outprx), waitsFor)
  BY DEF Near
<1>b. 1 \in Nat /\ 0 \in 0 .. 3 /\ 1 + 0 <= Most /\ outprx \in outprx .. outprx + 0
  BY DEF Most
<1> QED BY <1>a, <1>b, EmitAdvances

LEMMA FarAdvances ==
    ASSUME NEW ins, NEW target, NEW at, NEW words \in Nat, NEW mark, words <= 6,
           outprx \in Nat, at \in outprx .. outprx + 1, Far(ins, target, at, words, mark)
    PROVE  Advances(ins)
<1>a. 1 \in 0 .. 3 /\ words + 1 <= Most
  BY DEF Most
<1>b. Emit(ins, [from |-> outprx, at |-> at, form |-> "Absolute", value |-> target], words,
           At(mark), {})
  BY DEF Far
<1> QED BY <1>a, <1>b, EmitAdvances

LEMMA PaddedIsNext ==
    ASSUME outprx \in Nat, NEW aligned
    PROVE  Padded(aligned) \in outprx .. outprx + 1
BY DEF Padded

\* Every instruction, whatever it is, takes at most Most words.
LEMMA InstructionAdvances ==
    ASSUME HookTypes, NEW ins \in Moved,
           \/ __fix_branch_imm(ins)
           \/ __fix_cond_comp_test_branch(ins)
           \/ __fix_loadlit(ins)
           \/ __fix_adr(ins)
           \/ __fix_adrp(ins)
           \/ SkipPrefetch(ins)
           \/ CopyInstruction(ins)
    PROVE  Advances(ins)
<1>0. outprx \in Nat
  BY DEF HookTypes
<1>a. CASE __fix_branch_imm(ins)
  <2>a. CASE Near(ins, ins.target)
    BY <1>0, <2>a, NearAdvances
  <2>b. CASE ~Near(ins, ins.target)
    <3> DEFINE at == Padded((outprx % 2 = 0) = (ins.op = "B"))
               words == IF ins.op = "B" THEN 4 ELSE 5
    <3>a. Far(ins, ins.target, at, words, at)
      BY <1>a, <2>b DEF __fix_branch_imm
    <3>b. at \in outprx .. outprx + 1 /\ words \in Nat /\ words <= 6
      BY <1>0, PaddedIsNext
    <3> HIDE DEF at, words
    <3> QED BY <1>0, <3>a, <3>b, FarAdvances
  <2> QED BY <2>a, <2>b
<1>b. CASE __fix_cond_comp_test_branch(ins)
  <2>a. CASE Near(ins, Decoded(ins))
    BY <1>0, <2>a, NearAdvances
  <2>b. CASE ~Near(ins, Decoded(ins))
    <3> DEFINE at == Padded(outprx % 2 = 0)
    <3>a. Far(ins, Decoded(ins), at, 6, outprx)
      BY <1>b, <2>b DEF __fix_cond_comp_test_branch
    <3>b. at \in outprx .. outprx + 1
      BY <1>0, PaddedIsNext
    <3> HIDE DEF at
    <3> QED BY <1>0, <3>a, <3>b, FarAdvances
  <2> QED BY <2>a, <2>b
<1>c. CASE __fix_loadlit(ins)
  <2> DEFINE words == LoadWords(ins.op)
             copied == AlignedFrom(outprx, 2, words)
             moved == CHOOSE p \in outprx .. outprx + words - 1 : (ins.target - p) % words = 0
  <2>a. words \in {1, 2, 4}
    BY <1>c DEF __fix_loadlit, Loads, LoadWords
  <2>b. copied \in outprx .. outprx + (words - 1)
    <3> HIDE DEF words
    <3>a. 2 \in Int
      OBVIOUS
    <3>b. \E p \in outprx .. outprx + words - 1 : (p + 2) % words = 0
      BY <1>0, <2>a, <3>a, AlignedPlace
    <3> QED BY <1>0, <2>a, <3>b DEF AlignedFrom
  <2>c. moved \in outprx .. outprx + (words - 1)
    <3>a. ins.target \in Int
      BY DEF Moved
    <3>b. \E p \in outprx .. outprx + words - 1 : (ins.target - p) % words = 0
      BY <1>0, <2>a, <3>a, AlignedPlace
    <3> QED BY <1>0, <2>a, <3>b
  <2>d. words - 1 \in 0 .. 3 /\ 2 + words \in Nat /\ 2 + words + (words - 1) <= Most
        /\ 1 \in Nat /\ 1 + (words - 1) <= Most
    BY <2>a DEF Most
  <2>e. \/ \E form, value :
              Emit(ins, [from |-> outprx, at |-> moved, form |-> form, value |-> value], 1,
                   At(moved), {})
        \/ Emit(ins, [from |-> outprx, at |-> copied, form |-> "Copied",
                      value |-> ins.target], 2 + words, At(copied), {})
    BY <1>c DEF __fix_loadlit
  <2> HIDE DEF words, copied, moved
  <2> QED BY <1>0, <2>b, <2>c, <2>d, <2>e, EmitAdvances
<1>d. CASE __fix_adr(ins)
  <2>a. CASE Near(ins, ins.target)
    BY <1>0, <2>a, NearAdvances
  <2>b. CASE ~Near(ins, ins.target) /\ ~SpoilRegister(ins)
    <3> DEFINE at == Padded(outprx % 2 = 0)
    <3>a. Far(ins, ins.target, at, 4, at)
      BY <1>d, <2>b DEF __fix_adr
    <3>b. at \in outprx .. outprx + 1
      BY <1>0, PaddedIsNext
    <3> HIDE DEF at
    <3> QED BY <1>0, <3>a, <3>b, FarAdvances
  <2>c. CASE SpoilRegister(ins)
    <3>a. Emit(ins, [from |-> outprx, at |-> outprx, form |-> "Corrupt",
                     value |-> ins.target - outprx], 1, At(outprx), {})
      BY <2>c DEF SpoilRegister
    <3>b. 1 \in Nat /\ 0 \in 0 .. 3 /\ 1 + 0 <= Most /\ outprx \in outprx .. outprx + 0
      BY <1>0 DEF Most
    <3> QED BY <1>0, <3>a, <3>b, EmitAdvances
  <2> QED BY <2>a, <2>b, <2>c
<1>e. CASE __fix_adrp(ins)
  <2> DEFINE at == Padded(outprx % 2 = 0)
  <2>a. at \in outprx .. outprx + 1
    BY <1>0, PaddedIsNext
  <2>b. \/ \E form, value, place :
              Emit(ins, [from |-> outprx, at |-> outprx, form |-> form, value |-> value], 1,
                   place, {})
        \/ \E form, value, place :
              Emit(ins, [from |-> outprx, at |-> at, form |-> form, value |-> value], 4,
                   place, {})
    BY <1>e DEF __fix_adrp
  <2>c. 1 \in 0 .. 3 /\ 1 \in Nat /\ 4 \in Nat /\ 1 + 1 <= Most /\ 4 + 1 <= Most
        /\ outprx \in outprx .. outprx + 1
    BY <1>0 DEF Most
  <2> HIDE DEF at
  <2> QED BY <1>0, <2>a, <2>b, <2>c, EmitAdvances
<1>f. CASE SkipPrefetch(ins) \/ CopyInstruction(ins)
  <2>a. 0 \in 0 .. 3 /\ 0 \in Nat /\ 1 \in Nat /\ 0 + 0 <= Most /\ 1 + 0 <= Most
        /\ outprx \in outprx .. outprx + 0
    BY <1>0 DEF Most
  <2>b. \E form : \E words \in {0, 1} :
           Emit(ins, [from |-> outprx, at |-> outprx, form |-> form, value |-> 0], words,
                At(outprx), {})
    BY <1>f DEF SkipPrefetch, CopyInstruction
  <2> QED BY <1>0, <2>a, <2>b, EmitAdvances
<1> QED BY <1>a, <1>b, <1>c, <1>d, <1>e, <1>f

----
LEMMA InitHook == ASSUME InlineHookInit PROVE HookInv
BY DEF InlineHookInit, HookInv, HookTypes, Growth, Unhooked, NoHook, A64_MAX_INSTRUCTIONS

LEMMA StartKeeps ==
    ASSUME HookInv, NEW symbol \in Nat, NEW replace \in Nat, NEW inline \in BOOLEAN,
           Start(symbol, replace, inline)
    PROVE  HookInv'
<1>a. Trampolines \in Nat
  BY InlineHookAssumption
<1>b. program = <<>> /\ back = NoBack /\ program' = <<>> /\ back' = NoBack
  BY DEF HookInv, Unhooked, Start
<1>c. __index \in Nat /\ __index' = __index + 1
  BY DEF HookInv, HookTypes, Start
<1>d. outprx' = Trampolines + 50 * __index
  BY DEF Start, InsnsWords, A64_MAX_INSTRUCTIONS
<1>e. /\ hook' \in [symbol : Nat, replace : Nat, count : 0 .. 5, inline : BOOLEAN]
      /\ hook'.count >= 1
  BY DEF Start
<1>f. outprx' = Base'
  BY <1>a, <1>c, <1>d DEF Base, InsnsWords, A64_MAX_INSTRUCTIONS
<1>g. HookTypes'
  <2>a. inline_hook_curridx' \in Nat
    BY DEF Start, HookInv, HookTypes
  <2>b. outprx' \in Nat
    BY <1>a, <1>c, <1>d
  <2>c. program' \in Seq(Moved)
    BY <1>b
  <2> QED BY <1>c, <1>e, <2>a, <2>b, <2>c DEF HookTypes, A64_MAX_INSTRUCTIONS
<1>h. Growth'
  <2>a. Len(program') = 0 /\ (IF back' = NoBack THEN 0 ELSE 5) = 0
    BY <1>b
  <2>b. Base' \in Int
    BY <1>a, <1>c, <1>d, <1>f
  <2>c. hook'.count \in Int /\ Len(program') <= hook'.count
    BY <1>e, <2>a
  <2>d. outprx' <= Base' + Most * Len(program') + (IF back' = NoBack THEN 0 ELSE 5)
    <3> DEFINE tail == IF back' = NoBack THEN 0 ELSE 5
    <3>a. tail = 0
      BY <2>a
    <3> HIDE DEF tail
    <3>b. outprx' <= Trampolines + 50 * (__index' - 1) + 9 * Len(program') + tail
      BY <1>a, <1>c, <1>d, <2>a, <3>a
    <3> QED BY <3>b DEF Base, Most, InsnsWords, A64_MAX_INSTRUCTIONS, tail
  <2> QED BY <2>c, <2>d DEF Growth
<1>i. Unhooked'
  BY <1>b DEF Unhooked
<1> QED BY <1>g, <1>h, <1>i DEF HookInv

LEMMA InstructionIsMoved == ASSUME HookInv PROVE \A ins \in Instruction : ins \in Moved
<1> SUFFICES ASSUME NEW ins \in Instruction PROVE ins \in Moved
  OBVIOUS
<1>a. Targets \subseteq Nat
  BY InlineHookAssumption
<1>b. hook.symbol .. hook.symbol + hook.count - 1 \subseteq Nat
  BY DEF HookInv, HookTypes
<1>c. CASE ins \in [op : {"PRFM", "Other"}, target : {0}]
  BY <1>c DEF Moved, Ops
<1>d. CASE ins \in [op : Relative, target : Targets \cup
                             (hook.symbol .. hook.symbol + hook.count - 1)]
  <2>a. ins.op \in Ops /\ ins.target \in Nat /\ ins = [op |-> ins.op, target |-> ins.target]
    BY <1>a, <1>b, <1>d DEF Ops
  <2> QED BY <2>a DEF Moved
<1> QED BY <1>c, <1>d DEF Instruction

LEMMA InstructionKeeps ==
    ASSUME HookInv, __fix_instruction
    PROVE  HookInv'
<1>a. PICK ins \in Instruction :
         \/ __fix_branch_imm(ins)
         \/ __fix_cond_comp_test_branch(ins)
         \/ __fix_loadlit(ins)
         \/ __fix_adr(ins)
         \/ __fix_adrp(ins)
         \/ SkipPrefetch(ins)
         \/ CopyInstruction(ins)
  BY DEF __fix_instruction
<1>b. ins \in Moved
  BY <1>a, InstructionIsMoved
<1>c. Advances(ins)
  BY <1>a, <1>b, InstructionAdvances DEF HookInv
<1>d. program \in Seq(Moved) /\ Len(program) \in Nat /\ outprx \in Nat
  BY DEF HookInv, HookTypes
<1>e. program' \in Seq(Moved) /\ Len(program') = Len(program) + 1
  BY <1>b, <1>c, <1>d DEF Advances
<1>f. Len(program) < hook.count
  BY DEF __fix_instruction
<1>g. HookTypes'
  BY <1>c, <1>e DEF HookInv, HookTypes, Advances
<1>h. hook # NoHook
  BY <1>d, <1>f DEF NoHook
<1>i. hook.count \in Nat /\ Base \in Int /\ Base' = Base
  BY <1>c, InlineHookAssumption
     DEF HookInv, HookTypes, Base, InsnsWords, A64_MAX_INSTRUCTIONS, Advances
<1>j.  Growth'
  <2>a. outprx <= Base + Most * Len(program) + (IF back = NoBack THEN 0 ELSE 5)
    BY <1>h DEF HookInv, Growth
  <2>b. Len(program') <= hook'.count
    BY <1>c, <1>d, <1>e, <1>f, <1>i DEF Advances
  <2>c. outprx' <= Base' + Most * Len(program') + (IF back' = NoBack THEN 0 ELSE 5)
    BY <1>c, <1>d, <1>e, <1>i, <2>a DEF Advances, Most
  <2> QED BY <2>b, <2>c DEF Growth
<1>k.  Unhooked'
  BY <1>c, <1>h DEF Unhooked, Advances
<1> QED BY <1>g, <1>j, <1>k DEF HookInv

LEMMA JumpBackKeeps ==
    ASSUME HookInv, JumpBack
    PROVE  HookInv'
<1>a. PICK at \in outprx .. outprx + 1, words \in {1, 4} : outprx' = at + words
  <2>a. outprx \in Nat
    BY DEF HookInv, HookTypes
  <2>b. \E near : outprx' = Padded(near \/ outprx % 2 = 0) + (IF near THEN 1 ELSE 4)
    BY DEF JumpBack
  <2> QED BY <2>a, <2>b, PaddedIsNext
<1>b. /\ outprx \in Nat /\ outprx' \in Nat /\ outprx' <= outprx + 5
      /\ Len(program) \in Nat
  BY <1>a DEF HookInv, HookTypes
<1>c. hook # NoHook /\ back = NoBack
      /\ UNCHANGED <<__index, inline_hook_curridx, hook, program>>
  BY DEF JumpBack
<1>d. HookTypes'
  BY <1>b, <1>c DEF HookInv, HookTypes
<1>e. Base \in Int /\ Base' = Base
  BY <1>c, InlineHookAssumption DEF HookInv, HookTypes, Base, InsnsWords, A64_MAX_INSTRUCTIONS
<1>f. back' # NoBack
  BY DEF JumpBack, NoBack
<1>g. Growth'
  BY <1>b, <1>c, <1>e, <1>f DEF HookInv, Growth, Most
<1>h. Unhooked'
  BY <1>c DEF Unhooked
<1> QED BY <1>d, <1>g, <1>h DEF HookInv

LEMMA FinishKeeps ==
    ASSUME HookInv, Finish
    PROVE  HookInv'
<1>a. HookTypes'
  BY DEF Finish, HookInv, HookTypes, NoHook, A64_MAX_INSTRUCTIONS
<1>b. Growth' /\ Unhooked'
  BY DEF Finish, Growth, Unhooked
<1> QED BY <1>a, <1>b DEF HookInv

\* HookInv is kept by every step.
LEMMA NextKeeps ==
    ASSUME HookInv, [InlineHookNext]_hookVars
    PROVE  HookInv'
<1>a. Symbols \subseteq Nat /\ Replacements \subseteq Nat /\ Handlers \in Nat
  BY InlineHookAssumption
<1>b. CASE \E symbol \in Symbols, replace \in Replacements : A64HookFunction(symbol, replace)
  BY <1>a, <1>b, StartKeeps DEF A64HookFunction
<1>c. CASE \E symbol \in Symbols : A64InlineHook(symbol)
  <2>a. PICK symbol \in Symbols :
           /\ inline_hook_curridx < inline_hook_count
           /\ Start(symbol, Handlers + 9 * inline_hook_curridx, TRUE)
    BY <1>c DEF A64InlineHook
  <2>b. Handlers + 9 * inline_hook_curridx \in Nat
    BY <1>a DEF HookInv, HookTypes
  <2> QED BY <1>a, <2>a, <2>b, StartKeeps
<1>d. CASE __fix_instruction
  BY <1>d, InstructionKeeps
<1>e. CASE JumpBack
  BY <1>e, JumpBackKeeps
<1>f. CASE Finish
  BY <1>f, FinishKeeps
<1>g. CASE UNCHANGED hookVars
  BY <1>g DEF hookVars, HookInv, HookTypes, Growth, Unhooked, Base
<1> QED BY <1>b, <1>c, <1>d, <1>e, <1>f, <1>g DEF InlineHookNext

\* What is written for one function stays in its own trampoline, of ten words for each
\* of five instructions: whatever they are, wherever function, trampoline and
\* replacement lie.
THEOREM TrampolineSuffices == InlineHookSpec => []FitsTrampoline
<1>a. InlineHookInit => HookInv
  BY InitHook
<1>b. HookInv /\ [InlineHookNext]_hookVars => HookInv'
  BY NextKeeps
<1>c. HookInv => FitsTrampoline
  <2> SUFFICES ASSUME HookInv, hook # NoHook
               PROVE  outprx <= Trampolines + InsnsWords * __index
    BY DEF FitsTrampoline
  <2>a. Len(program) \in Nat /\ Len(program) <= 5 /\ outprx \in Nat /\ __index \in Nat
    BY DEF HookInv, HookTypes, Growth, A64_MAX_INSTRUCTIONS
  <2>b. Trampolines \in Nat
    BY InlineHookAssumption
  <2>c. outprx <= Base + 9 * Len(program) + 5
    BY <2>a, <2>b DEF HookInv, Growth, Most, Base, InsnsWords, A64_MAX_INSTRUCTIONS
  <2> QED BY <2>a, <2>b, <2>c DEF Base, InsnsWords, A64_MAX_INSTRUCTIONS
<1> QED BY <1>a, <1>b, <1>c, PTL DEF InlineHookSpec

----
(* Hooks: every moved instruction still names what it named.  One that waits for *)
(* a later instruction is told its place when that is written, and none waits    *)
(* for an instruction that is not moved.                                         *)

Forms == {"Relative", "Absolute", "Copied", "Corrupt", "Unchanged", "None", "Same"}
Item == [from : Int, at : Int, form : Forms, value : Int]
Entered == [view : {"rx", "rw"}, at : Int]

NotWaiting(i) == \A w \in waiting : w.item # i

\* What item i names so far.
NamesOutside(i) ==
    /\ items[i].form \in {"Absolute", "Relative"}
    /\ ~is_in_fixing_range(Read(i)) /\ NotWaiting(i)
    /\ Denotes(items[i]) = Read(i)
NamesMoved(i) ==
    LET r == get_ref_ins_index(Read(i))
    IN  /\ items[i].form = "Relative" /\ is_in_fixing_range(Read(i))
        /\ program[i].op \notin Loads
        /\ r <= Len(program) /\ NotWaiting(i)
        /\ program[r].op # "ADRP" =>
               items[r].from <= Denotes(items[i]) /\ Denotes(items[i]) <= items[r].at
WillName(i) ==
    LET r == get_ref_ins_index(Read(i))
    IN  /\ items[i].form = "Relative" /\ is_in_fixing_range(Read(i))
        /\ program[i].op \notin Loads
        /\ r > Len(program) /\ [item |-> i, ref |-> r] \in waiting
        /\ \A w \in waiting : w.item = i => w.ref = r
NamesCopy(i) ==
    items[i].form = "Copied" /\ items[i].value = Read(i) /\ NotWaiting(i)

Names(i) ==
    \/ items[i].form \in {"Corrupt", "Unchanged"} /\ Spoiled(program[i], items[i])
    \/ NamesCopy(i) \/ NamesOutside(i) \/ NamesMoved(i) \/ WillName(i)

Placed(i) ==
    program[i].op # "ADRP" =>
        dat[i].view = "rx" /\ items[i].from <= dat[i].at /\ dat[i].at <= items[i].at

Written ==
    /\ items \in Seq(Item) /\ Len(items) = Len(program)
    /\ dat \in Seq(Entered) /\ Len(dat) = Len(program)
    /\ waiting \subseteq [item : 1 .. Len(program), ref : Int]
    /\ \A w \in waiting : w.ref > Len(program)

Relocated ==
    /\ Written
    /\ \A i \in 1 .. Len(program) : Placed(i) /\ (program[i].op \in Relative => Names(i))
    /\ back # NoBack =>
          Len(program) = hook.count /\ Denotes(back) = hook.symbol + hook.count

RelocationInv == HookInv /\ Relocated

\* What a new item, its place and what it waits for have to be.
WellPlaced(ins, item, place, waitsFor) ==
    LET index == Len(program) + 1
        r == get_ref_ins_index(Decoded(ins))
    IN  /\ item \in Item /\ place \in Entered /\ waitsFor \subseteq Int
        /\ \A s \in waitsFor : s > index
        /\ ins.op # "ADRP" =>
               place.view = "rx" /\ item.from <= place.at /\ place.at <= item.at
        /\ ins.op \in Relative =>
              \/ item.form \in {"Corrupt", "Unchanged"} /\ Spoiled(ins, item)
              \/ item.form = "Copied" /\ item.value = Decoded(ins) /\ waitsFor = {}
              \/ /\ item.form \in {"Absolute", "Relative"}
                 /\ ~is_in_fixing_range(Decoded(ins)) /\ waitsFor = {}
                 /\ Denotes(item) = Decoded(ins)
              \/ /\ item.form = "Relative" /\ is_in_fixing_range(Decoded(ins))
                 /\ ins.op \notin Loads
                 /\ r <= index /\ waitsFor = {}
                 /\ r = index => item.from <= Denotes(item) /\ Denotes(item) <= item.at
                 /\ r < index /\ program[r].op # "ADRP" =>
                       items[r].from <= Denotes(item) /\ Denotes(item) <= items[r].at
              \/ /\ item.form = "Relative" /\ is_in_fixing_range(Decoded(ins))
                 /\ ins.op \notin Loads
                 /\ r > index /\ waitsFor = {r}

\* The lists after an item is written: the older items keep all but the value, which
\* changes for those that waited for this one.
ListsGrow(ins, item, place, waitsFor, index) ==
    /\ Written'
    /\ Len(program') = index /\ index \in Nat
    /\ program'[index] = ins /\ items'[index] = item /\ dat'[index] = place
    /\ \A i \in 1 .. Len(program) :
          /\ program'[i] = program[i] /\ dat'[i] = dat[i]
          /\ items[i] \in Item /\ items'[i] \in Item
          /\ items'[i].from = items[i].from /\ items'[i].at = items[i].at
          /\ items'[i].form = items[i].form
          /\ items'[i].value = IF [item |-> i, ref |-> index] \in waiting
                               THEN Offset(place, items[i].at) ELSE items[i].value
    /\ \A w : w \in waiting' <=>
          \/ w \in waiting /\ w.ref # index
          \/ \E s \in waitsFor : w = [item |-> index, ref |-> s]

LEMMA EmitLists ==
    ASSUME HookInv, Written, NEW ins \in Moved, NEW item \in Item, NEW words,
           NEW place \in Entered, NEW waitsFor, waitsFor \subseteq Int,
           NEW index, index = Len(program) + 1, \A s \in waitsFor : s > index,
           Emit(ins, item, words, place, waitsFor)
    PROVE  ListsGrow(ins, item, place, waitsFor, index)
<1> DEFINE longer == Append(items, item)
<1>a. program \in Seq(Moved) /\ Len(program) \in Nat
  BY DEF HookInv, HookTypes
<1>b. items \in Seq(Item) /\ Len(items) = Len(program) /\ dat \in Seq(Entered) /\ Len(dat) = Len(program)
  BY DEF Written
<1>c. longer \in Seq(Item) /\ Len(longer) = index /\ longer[index] = item
      /\ \A i \in 1 .. Len(program) : longer[i] = items[i]
  BY <1>a, <1>b
<1>d. [item |-> index, ref |-> index] \notin waiting
  BY <1>a DEF Written
<1>e. \A i \in 1 .. index : longer[i] \in Item
  BY <1>a, <1>c
<1>f. \A i \in Int : Offset(place, i) \in Int
  BY DEF Offset, Entered, Astray
<1> HIDE DEF longer
<1>g. items' = [i \in 1 .. index |-> IF [item |-> i, ref |-> index] \in waiting
                    THEN [longer[i] EXCEPT !.value = Offset(place, longer[i].at)] ELSE longer[i]]
  <2>a. DOMAIN longer = 1 .. index
    BY <1>c
  <2> QED BY <2>a DEF Emit, process_fix_map, longer
<1>h. \A i \in 1 .. index : items'[i] \in Item
  BY <1>e, <1>f, <1>g DEF Item
<1>i. items' \in Seq(Item) /\ Len(items') = index
  <2>a. index \in Nat
    BY <1>a
  <2>b. items' \in [1 .. index -> Item]
    BY <1>g, <1>h
  <2> QED BY <2>a, <2>b
<1>j.  /\ program' = Append(program, ins) /\ dat' = Append(dat, place)
       /\ waiting' = {w \in waiting : w.ref # index} \cup {[item |-> index, ref |-> s] : s \in waitsFor}
  BY DEF Emit
<1>k.  /\ Len(program') = index /\ program'[index] = ins
       /\ dat' \in Seq(Entered) /\ Len(dat') = index /\ dat'[index] = place
       /\ \A i \in 1 .. Len(program) : program'[i] = program[i] /\ dat'[i] = dat[i]
  BY <1>a, <1>b, <1>j
<1>l.  Written'
  <2>a. waiting' \subseteq [item : 1 .. Len(program'), ref : Int]
    <3>a. waiting \subseteq [item : 1 .. index, ref : Int]
      BY <1>a DEF Written
    <3>b. {[item |-> index, ref |-> s] : s \in waitsFor} \subseteq [item : 1 .. index, ref : Int]
      BY <1>a
    <3> QED BY <1>j, <1>k, <3>a, <3>b
  <2>b. \A w \in waiting' : w.ref > Len(program')
    <3> SUFFICES ASSUME NEW w \in waiting' PROVE w.ref > index
      BY <1>k
    <3>a. CASE w \in waiting /\ w.ref # index
      BY <1>a, <3>a DEF Written
    <3>b. CASE w \in {[item |-> index, ref |-> s] : s \in waitsFor}
      BY <3>b
    <3> QED BY <1>j, <3>a, <3>b
  <2> QED BY <1>i, <1>k, <2>a, <2>b DEF Written
<1>m.  items'[index] = item
  BY <1>a, <1>c, <1>d, <1>g
<1>n.  \A i \in 1 .. Len(program) :
          /\ items[i] \in Item /\ items'[i] \in Item
          /\ items'[i].from = items[i].from /\ items'[i].at = items[i].at
          /\ items'[i].form = items[i].form
          /\ items'[i].value = IF [item |-> i, ref |-> index] \in waiting
                               THEN Offset(place, items[i].at) ELSE items[i].value
  <2> SUFFICES ASSUME NEW i \in 1 .. Len(program)
               PROVE  /\ items[i] \in Item /\ items'[i] \in Item
                      /\ items'[i].from = items[i].from /\ items'[i].at = items[i].at
                      /\ items'[i].form = items[i].form
                      /\ items'[i].value = IF [item |-> i, ref |-> index] \in waiting
                                           THEN Offset(place, items[i].at) ELSE items[i].value
    OBVIOUS
  <2>a. i \in 1 .. index /\ longer[i] = items[i]
    BY <1>a, <1>c
  <2>b. items'[i] = IF [item |-> i, ref |-> index] \in waiting
                    THEN [items[i] EXCEPT !.value = Offset(place, items[i].at)] ELSE items[i]
    BY <1>g, <2>a
  <2>c. items[i] \in Item
    BY <1>e, <2>a
  <2> QED BY <1>h, <2>a, <2>b, <2>c DEF Item
<1>o.  \A w : w \in waiting' <=>
          \/ w \in waiting /\ w.ref # index
          \/ \E s \in waitsFor : w = [item |-> index, ref |-> s]
  BY <1>j
<1> QED BY <1>a, <1>k, <1>l, <1>m, <1>n, <1>o DEF ListsGrow

\* An item that fits keeps what is named.
LEMMA EmitKeeps ==
    ASSUME RelocationInv, back = NoBack, NEW ins \in Moved, NEW item, NEW words,
           NEW place, NEW waitsFor, WellPlaced(ins, item, place, waitsFor),
           Emit(ins, item, words, place, waitsFor)
    PROVE  Relocated'
<1>0. PICK index \in Nat : index = Len(program) + 1
  BY DEF RelocationInv, HookInv, HookTypes
<1>a. /\ HookInv /\ Written /\ item \in Item /\ place \in Entered /\ waitsFor \subseteq Int
      /\ \A s \in waitsFor : s > index
  BY <1>0 DEF RelocationInv, Relocated, WellPlaced
<1>t.  ListsGrow(ins, item, place, waitsFor, index)
  BY <1>0, <1>a, EmitLists, Zenon
<1>b. /\ Written'
      /\ Len(program') = index
      /\ program'[index] = ins /\ items'[index] = item /\ dat'[index] = place
  BY <1>t DEF ListsGrow
<1>c. \A i \in 1 .. Len(program) :
         /\ program'[i] = program[i] /\ dat'[i] = dat[i]
         /\ items[i] \in Item /\ items'[i] \in Item
         /\ items'[i].from = items[i].from /\ items'[i].at = items[i].at
         /\ items'[i].form = items[i].form
         /\ items'[i].value = IF [item |-> i, ref |-> index] \in waiting
                              THEN Offset(place, items[i].at) ELSE items[i].value
  BY <1>t DEF ListsGrow
<1>d. \A w : w \in waiting' <=>
         \/ w \in waiting /\ w.ref # index
         \/ \E s \in waitsFor : w = [item |-> index, ref |-> s]
  BY <1>t DEF ListsGrow
<1>e. UNCHANGED <<hook, back>> /\ hook.symbol \in Nat /\ hook.count \in Nat /\ Len(program) \in Nat
  BY DEF Emit, RelocationInv, HookInv, HookTypes
<1>f. \A i \in 1 .. Len(program) : program[i] \in Moved /\ program[i].target \in Nat
  <2>a. program \in Seq(Moved)
    BY <1>a DEF HookInv, HookTypes
  <2>b. \A i \in 1 .. Len(program) : program[i] \in Moved
    BY <2>a
  <2> QED BY <2>b DEF Moved
<1>g. waiting \subseteq [item : 1 .. Len(program), ref : Int]
      /\ \A w \in waiting : w.ref > Len(program)
  BY <1>a DEF Written
<1>h. ins.target \in Nat /\ inprx = hook.symbol + index - 1
  BY <1>0, <1>b, <1>e DEF Moved, inprx
<1>p. /\ \A i \in 1 .. Len(program) : Read(i) \in Int /\ Read(i)' = Read(i)
      /\ Decoded(ins) \in Int /\ Read(index)' = Decoded(ins)
  <2>a. \A op \in Conditional : Wrap[op] \in Nat
    BY InlineHookAssumption
  <2>b. \A i \in 1 .. Len(program) : Read(i) \in Int /\ Read(i)' = Read(i)
    <3> SUFFICES ASSUME NEW i \in 1 .. Len(program)
                 PROVE  Read(i) \in Int /\ Read(i)' = Read(i)
      OBVIOUS
    <3>a. program'[i] = program[i] /\ hook' = hook /\ program[i].target \in Nat
      BY <1>c, <1>e, <1>f, Zenon
    <3>b. Read(i)' = Read(i)
      BY <3>a DEF Read, ReadAt
    <3>c. Read(i) \in Int
      BY <2>a, <3>a DEF Read, ReadAt
    <3> QED BY <3>b, <3>c
  <2>c. Decoded(ins) \in Int /\ Read(index)' = Decoded(ins)
    BY <1>b, <1>e, <1>h, <2>a DEF Read, ReadAt, Decoded
  <2> QED BY <2>b, <2>c
<1>i. ASSUME NEW i \in 1 .. Len(program) PROVE Placed(i)' /\ (program'[i].op \in Relative => Names(i)')
  <2>a. Placed(i) /\ (program[i].op \in Relative => Names(i))
    BY DEF RelocationInv, Relocated
  <2>b. Placed(i)'
    BY <1>c, <2>a DEF Placed
  <2>c. program'[i].op = program[i].op
    BY <1>c
  <2>d. SUFFICES ASSUME Names(i) PROVE Names(i)'
    BY <2>a, <2>b, <2>c
  <2>e. i # index
    BY <1>0, <1>b
  <2>f. NotWaiting(i) => NotWaiting(i)'
    BY <1>d, <2>e DEF NotWaiting
  <2>g. NotWaiting(i) => [item |-> i, ref |-> index] \notin waiting
    BY DEF NotWaiting
  <2>h. is_in_fixing_range(Read(i))' <=> is_in_fixing_range(Read(i))
    BY <1>e, <1>p DEF is_in_fixing_range
  <2>i. get_ref_ins_index(Read(i))' = get_ref_ins_index(Read(i))
    BY <1>e, <1>p DEF get_ref_ins_index
  <2>j.  CASE items[i].form \in {"Corrupt", "Unchanged"} /\ Spoiled(program[i], items[i])
    <3>a. Spoiled(program[i], items[i])'
      BY <1>c, <1>e, <2>j DEF Spoiled, is_in_fixing_range
    <3> QED BY <1>c, <2>j, <3>a DEF Names
  <2>k.  CASE NamesCopy(i)
    <3>a. NamesCopy(i)'
      BY <1>c, <1>p, <2>f, <2>g, <2>k DEF NamesCopy
    <3> QED BY <3>a DEF Names
  <2>l.  CASE NamesOutside(i)
    <3>a. NamesOutside(i)'
      <4>a. Denotes(items[i])' = Denotes(items[i])
        BY <1>c, <2>g, <2>l DEF NamesOutside, Denotes
      <4> QED BY <1>c, <1>p, <2>f, <2>h, <2>l, <4>a DEF NamesOutside
    <3> QED BY <3>a DEF Names
  <2>m.  CASE NamesMoved(i)
    <3> DEFINE r == get_ref_ins_index(Read(i))
    <3>a. r \in 1 .. Len(program)
      BY <1>e, <1>p, <2>m DEF NamesMoved, is_in_fixing_range, get_ref_ins_index
    <3>b. Denotes(items[i])' = Denotes(items[i])
      BY <1>c, <2>g, <2>m DEF NamesMoved, Denotes
    <3>c. PICK k \in 1 .. Len(program) : k = r
      BY <3>a
    <3>d. items'[k].from = items[k].from /\ items'[k].at = items[k].at /\ program'[k] = program[k]
      BY <1>c
    <3>e. r' = k
      BY <2>i, <3>c
    <3>f. k <= Len(program')
      BY <1>0, <1>b, <3>c
    <3>g. items'[i].form = "Relative"
      BY <1>c, <2>m DEF NamesMoved
    <3>h. program[k].op # "ADRP" =>
             items[k].from <= Denotes(items[i]) /\ Denotes(items[i]) <= items[k].at
      BY <2>m, <3>c DEF NamesMoved
    <3>i. NotWaiting(i)'
      BY <2>f, <2>m DEF NamesMoved
    <3>j.  is_in_fixing_range(Read(i))'
      BY <2>h, <2>m DEF NamesMoved
    <3>k.  program'[k].op # "ADRP" =>
              items'[k].from <= Denotes(items[i])' /\ Denotes(items[i])' <= items'[k].at
      BY <3>b, <3>d, <3>h
    <3> HIDE DEF r
    <3>l.  program'[i].op \notin Loads
      BY <1>c, <2>m DEF NamesMoved
    <3>m.  NamesMoved(i)'
      BY <3>l, <3>e, <3>f, <3>g, <3>i, <3>j, <3>k DEF NamesMoved, r
    <3> QED BY <3>m DEF Names
  <2>n.  CASE WillName(i)
    <3> DEFINE r == get_ref_ins_index(Read(i))
    <3>a. /\ r \in Int /\ r > Len(program) /\ [item |-> i, ref |-> r] \in waiting
          /\ \A w \in waiting : w.item = i => w.ref = r
      BY <1>e, <1>p, <2>n DEF WillName, get_ref_ins_index
    <3>b. is_in_fixing_range(Read(i))' /\ items'[i].form = "Relative"
          /\ program'[i].op \notin Loads
      BY <1>c, <2>h, <2>n DEF WillName
    <3>c. PICK k \in Int : k = r
      BY <3>a
    <3>d. r' = k
      BY <2>i, <3>c
    <3> HIDE DEF r
    <3>e. CASE k = index
      <4>a. NotWaiting(i)'
        <5> SUFFICES ASSUME NEW w \in waiting', w.item = i PROVE FALSE
          BY DEF NotWaiting
        <5>a. CASE w \in waiting /\ w.ref # index
          BY <3>a, <3>c, <3>e, <5>a
        <5>b. CASE \E s \in waitsFor : w = [item |-> index, ref |-> s]
          BY <2>e, <5>b
        <5> QED BY <1>d, <5>a, <5>b
      <4>b. items'[i].value = Offset(place, items[i].at) /\ items'[i].at = items[i].at
        BY <1>c, <3>a, <3>c, <3>e
      <4>c. ins.op # "ADRP" => place.view = "rx" /\ item.from <= place.at /\ place.at <= item.at
        BY DEF WellPlaced
      <4>d. ASSUME ins.op # "ADRP"
            PROVE  item.from <= Denotes(items[i])' /\ Denotes(items[i])' <= item.at
        <5>a. Denotes(items[i])' = items[i].at + (place.at - items[i].at)
          BY <3>b, <4>b, <4>c, <4>d DEF Denotes, Offset
        <5>b. items[i].at \in Int /\ place.at \in Int
          BY <1>a, <1>c DEF Item, Entered
        <5> QED BY <4>c, <4>d, <5>a, <5>b
      <4>e. r' <= Len(program') /\ program'[r'] = ins /\ items'[r'] = item
        BY <1>b, <3>d, <3>e
      <4>f. NamesMoved(i)'
        BY <3>b, <4>a, <4>d, <4>e DEF NamesMoved, r
      <4> QED BY <4>f DEF Names
    <3>f. CASE k # index
      <4>a. [item |-> i, ref |-> k] \in waiting'
        BY <1>d, <3>a, <3>c, <3>f
      <4>b. k > Len(program')
        BY <1>0, <1>b, <3>a, <3>c, <3>f
      <4>c. \A w \in waiting' : w.item = i => w.ref = k
        <5> SUFFICES ASSUME NEW w \in waiting', w.item = i PROVE w.ref = k
          OBVIOUS
        <5>a. CASE w \in waiting /\ w.ref # index
          BY <3>a, <3>c, <5>a
        <5>b. CASE \E s \in waitsFor : w = [item |-> index, ref |-> s]
          BY <2>e, <5>b
        <5> QED BY <1>d, <5>a, <5>b
      <4>d. WillName(i)'
        BY <3>b, <3>d, <4>a, <4>b, <4>c DEF WillName, r
      <4> QED BY <4>d DEF Names
    <3> QED BY <3>e, <3>f
  <2> QED BY <2>d, <2>j, <2>k, <2>l, <2>m, <2>n DEF Names
<1>j.  Placed(index)'
  BY <1>b DEF Placed, WellPlaced
<1>k.  ASSUME program'[index].op \in Relative PROVE Names(index)'
  <2> DEFINE r == get_ref_ins_index(Decoded(ins))
  <2>a. ins.op \in Relative
    BY <1>b, <1>k
  <2>b. get_ref_ins_index(Read(index))' = r /\ r \in Int
    BY <1>e, <1>p DEF get_ref_ins_index
  <2>c. is_in_fixing_range(Read(index))' <=> is_in_fixing_range(Decoded(ins))
    BY <1>e, <1>p DEF is_in_fixing_range
  <2>d. waitsFor = {} => NotWaiting(index)'
    <3> SUFFICES ASSUME waitsFor = {}, NEW w \in waiting', w.item = index PROVE FALSE
      BY <1>b DEF NotWaiting
    <3>a. w \in waiting
      BY <1>d
    <3> QED BY <1>0, <1>b, <1>g, <3>a
  <2>e. CASE item.form \in {"Corrupt", "Unchanged"} /\ Spoiled(ins, item)
    <3>a. Spoiled(program[index], items[index])'
      BY <1>b, <1>e, <2>e DEF Spoiled, is_in_fixing_range
    <3> QED BY <1>b, <2>e, <3>a DEF Names
  <2>f. CASE item.form = "Copied" /\ item.value = Decoded(ins) /\ waitsFor = {}
    <3>a. NamesCopy(index)'
      BY <1>b, <1>p, <2>d, <2>f DEF NamesCopy
    <3> QED BY <3>a DEF Names
  <2>g. CASE /\ item.form \in {"Absolute", "Relative"}
             /\ ~is_in_fixing_range(Decoded(ins)) /\ waitsFor = {}
             /\ Denotes(item) = Decoded(ins)
    <3>a. NamesOutside(index)'
      BY <1>b, <1>p, <2>c, <2>d, <2>g DEF NamesOutside
    <3> QED BY <3>a DEF Names
  <2>h. CASE /\ item.form = "Relative" /\ is_in_fixing_range(Decoded(ins))
             /\ ins.op \notin Loads /\ r <= index /\ waitsFor = {}
             /\ r = index => item.from <= Denotes(item) /\ Denotes(item) <= item.at
             /\ r < index /\ program[r].op # "ADRP" =>
                   items[r].from <= Denotes(item) /\ Denotes(item) <= items[r].at
    <3>a. r \in 1 .. index
      BY <1>b, <1>e, <1>p, <2>b, <2>h DEF is_in_fixing_range, get_ref_ins_index
    <3>b. PICK k \in 1 .. index : k = r
      BY <3>a
    <3>c. program'[k].op # "ADRP" =>
             items'[k].from <= Denotes(item) /\ Denotes(item) <= items'[k].at
      <4>a. CASE k = index
        BY <1>b, <2>h, <3>b, <4>a
      <4>b. CASE k # index
        <5>a. k \in 1 .. Len(program) /\ k < index
          BY <1>0, <1>b, <4>b
        <5> QED BY <1>c, <2>h, <3>b, <5>a
      <4> QED BY <4>a, <4>b
    <3>d. get_ref_ins_index(Read(index))' = k /\ k <= Len(program')
      BY <1>b, <2>b, <3>b
    <3> HIDE DEF r
    <3>e. NamesMoved(index)'
      BY <1>b, <2>c, <2>d, <2>h, <3>c, <3>d DEF NamesMoved, r
    <3> QED BY <3>e DEF Names
  <2>i. CASE /\ item.form = "Relative" /\ is_in_fixing_range(Decoded(ins))
             /\ ins.op \notin Loads /\ r > index /\ waitsFor = {r}
    <3>a. PICK k \in Int : k = r
      BY <2>b
    <3>b. [item |-> index, ref |-> k] \in waiting' /\ k > Len(program')
      BY <1>b, <1>d, <2>i, <3>a
    <3>c. \A w \in waiting' : w.item = index => w.ref = k
      <4> SUFFICES ASSUME NEW w \in waiting', w.item = index PROVE w.ref = k
        OBVIOUS
      <4>a. w \notin waiting
        BY <1>0, <1>b, <1>g
      <4> QED BY <1>d, <2>i, <3>a, <4>a
    <3>d. get_ref_ins_index(Read(index))' = k
      BY <2>b, <3>a
    <3> HIDE DEF r
    <3>e. WillName(index)'
      BY <1>b, <2>c, <2>i, <3>b, <3>c, <3>d DEF WillName, r
    <3> QED BY <3>e DEF Names
  <2> QED BY <1>0, <2>a, <2>e, <2>f, <2>g, <2>h, <2>i DEF WellPlaced
<1>l.  \A i \in 1 .. Len(program') : i \in 1 .. Len(program) \/ i = index
  BY <1>0, <1>b
<1>m.  \A i \in 1 .. Len(program') : Placed(i)' /\ (program'[i].op \in Relative => Names(i)')
  BY <1>i, <1>j, <1>k, <1>l
<1>n.  back' = NoBack
  BY <1>e
<1> QED BY <1>b, <1>m, <1>n DEF Relocated

\* The instruction that is moved next, and where.
LEMMA NextPlace ==
    ASSUME RelocationInv
    PROVE  /\ outprx \in Nat /\ Len(program) \in Nat /\ hook.symbol \in Nat /\ hook.count \in Nat
           /\ inprx = hook.symbol + Len(program)
           /\ dat \in Seq(Entered) /\ Len(dat) = Len(program)
           /\ \A a \in Nat : At(a) \in Entered /\ At(a).view = "rx" /\ At(a).at = a
  BY DEF RelocationInv, HookInv, HookTypes, inprx, Relocated, Written, At, Entered

\* target is what the code takes ins to name.
Takes(ins, target) ==
    target \in Int /\ target = Decoded(ins)

LEMMA NearKeeps ==
    ASSUME RelocationInv, back = NoBack, NEW ins \in Moved, ins.op \notin {"ADRP"} \cup Loads,
           NEW target, Takes(ins, target),
           Near(ins, target)
    PROVE  Relocated'
<1> DEFINE index == Len(program) + 1
           r == get_ref_ins_index(target)
           forward == is_in_fixing_range(target) /\ r > index
           places == Append(dat, At(outprx))
           value == IF forward THEN 0
                    ELSE IF is_in_fixing_range(target) THEN Offset(places[r], outprx)
                    ELSE target - outprx
           item == [from |-> outprx, at |-> outprx, form |-> "Relative", value |-> value]
           place == At(outprx)
           waitsFor == IF forward THEN {r} ELSE {}
<1>a. Emit(ins, item, 1, place, waitsFor)
  BY DEF Near
<1>b. /\ outprx \in Nat /\ Len(program) \in Nat /\ hook.symbol \in Nat /\ hook.count \in Nat
      /\ inprx = hook.symbol + Len(program) /\ r \in Int /\ target \in Int
      /\ place \in Entered /\ place.view = "rx" /\ place.at = outprx
  BY NextPlace DEF Takes, get_ref_ins_index
<1>c. ASSUME is_in_fixing_range(target), ~(r > index)
      PROVE  /\ r \in 1 .. index
             /\ value \in Int
             /\ r = index => value = 0
             /\ r < index => places[r] = dat[r]
             /\ r < index /\ dat[r].view = "rx" => value = dat[r].at - outprx
  <2>a. r \in 1 .. index
    BY <1>b, <1>c DEF is_in_fixing_range, get_ref_ins_index
  <2> HIDE DEF r
  <2>b. places \in Seq(Entered) /\ Len(places) = index /\ places[index] = place
        /\ \A i \in 1 .. Len(program) : places[i] = dat[i]
    BY <1>b, NextPlace
  <2> HIDE DEF places, place
  <2>c. places[r] \in Entered
    BY <2>a, <2>b
  <2>d. value = Offset(places[r], outprx)
    BY <1>c DEF r
  <2>e. r = index => value = 0
    BY <1>b, <2>b, <2>d DEF Offset
  <2>f. r < index => places[r] = dat[r]
    BY <1>b, <2>a, <2>b
  <2>g. value \in Int
    BY <1>b, <2>c, <2>d DEF Offset, Entered, Astray
  <2>h. r < index /\ dat[r].view = "rx" => value = dat[r].at - outprx
    BY <2>d, <2>f DEF Offset
  <2> QED BY <2>a, <2>e, <2>f, <2>g, <2>h
<1>d. value \in Int
  <2>a. CASE is_in_fixing_range(target) /\ ~(r > index)
    BY <1>c, <2>a
  <2>b. CASE ~(is_in_fixing_range(target) /\ ~(r > index))
    BY <1>b, <2>b
  <2> QED BY <2>a, <2>b
<1>e. item \in Item /\ waitsFor \subseteq Int /\ (\A s \in waitsFor : s > index)
  <2> HIDE DEF value
  <2>a. item \in Item
    BY <1>b, <1>d DEF Item, Forms
  <2>b. waitsFor \subseteq Int /\ \A s \in waitsFor : s > index
    BY <1>b
  <2> QED BY <2>a, <2>b
<1>f. WellPlaced(ins, item, place, waitsFor)
  <2>a. item.from = outprx /\ item.at = outprx /\ item.form = "Relative" /\ Denotes(item) = outprx + value
    BY DEF Denotes
  <2>b. ASSUME ins.op \in Relative
        PROVE  \/ /\ ~is_in_fixing_range(Decoded(ins)) /\ waitsFor = {} /\ Denotes(item) = Decoded(ins)
               \/ /\ is_in_fixing_range(Decoded(ins)) /\ waitsFor = {}
                  /\ get_ref_ins_index(Decoded(ins)) <= index
                  /\ get_ref_ins_index(Decoded(ins)) = index =>
                        item.from <= Denotes(item) /\ Denotes(item) <= item.at
                  /\ get_ref_ins_index(Decoded(ins)) < index
                     /\ program[get_ref_ins_index(Decoded(ins))].op # "ADRP" =>
                        /\ items[get_ref_ins_index(Decoded(ins))].from <= Denotes(item)
                        /\ Denotes(item) <= items[get_ref_ins_index(Decoded(ins))].at
               \/ /\ is_in_fixing_range(Decoded(ins)) /\ get_ref_ins_index(Decoded(ins)) > index
                  /\ waitsFor = {get_ref_ins_index(Decoded(ins))}
    <3>a. target = Decoded(ins)
      BY DEF Takes
    <3>b. CASE ~is_in_fixing_range(target)
      BY <1>b, <2>a, <3>a, <3>b
    <3>c. CASE is_in_fixing_range(target) /\ r > index
      BY <3>a, <3>c
    <3>d. CASE is_in_fixing_range(target) /\ ~(r > index)
      <4>a. waitsFor = {} /\ r <= index
        BY <1>b, <3>d
      <4>b. r = index => item.from <= Denotes(item) /\ Denotes(item) <= item.at
        <5>a. r = index => value = 0
          BY <1>c, <3>d
        <5> HIDE DEF item, value, r
        <5> QED BY <1>b, <2>a, <5>a
      <4>c. ASSUME r < index, program[r].op # "ADRP"
            PROVE  items[r].from <= Denotes(item) /\ Denotes(item) <= items[r].at
        <5>a. PICK k \in 1 .. Len(program) : k = r
          BY <1>b, <1>c, <3>d, <4>c
        <5>b. Placed(k)
          BY DEF RelocationInv, Relocated
        <5>c. dat[k].view = "rx" /\ items[k].from <= dat[k].at /\ dat[k].at <= items[k].at
          BY <4>c, <5>a, <5>b DEF Placed
        <5>d. dat[k].at \in Int
          <6>a. dat[k] \in Entered
            BY NextPlace, <1>b
          <6> QED BY <6>a DEF Entered
        <5>e. value = dat[k].at - outprx
          BY <1>c, <3>d, <4>c, <5>a, <5>c
        <5> HIDE DEF item, value, r
        <5>f. Denotes(item) = dat[k].at
          BY <1>b, <2>a, <5>d, <5>e
        <5> QED BY <5>a, <5>c, <5>f
      <4> HIDE DEF item, waitsFor, r
      <4> QED BY <3>a, <3>d, <4>a, <4>b, <4>c DEF r
    <3> QED BY <3>b, <3>c, <3>d
  <2> HIDE DEF item, waitsFor, place, value, r, forward, places
  <2>c. ins.op # "ADRP" => place.view = "rx" /\ item.from <= place.at /\ place.at <= item.at
    BY <1>b, <2>a
  <2> QED BY <1>b, <1>e, <2>a, <2>b, <2>c DEF WellPlaced
<1>g. 1 \in Nat
  OBVIOUS
<1> HIDE DEF item, place, waitsFor
<1> QED BY <1>a, <1>f, EmitKeeps, Zenon

LEMMA FarKeeps ==
    ASSUME RelocationInv, back = NoBack, NEW ins \in Moved, ins.op # "ADRP",
           NEW target, Takes(ins, target), ~is_in_fixing_range(target),
           NEW at \in Int, outprx <= at, NEW words, NEW mark \in {outprx, at},
           Far(ins, target, at, words, mark)
    PROVE  Relocated'
<1> DEFINE item == [from |-> outprx, at |-> at, form |-> "Absolute", value |-> target]
           place == At(mark)
           none == {}
<1>a. Emit(ins, item, words, place, none)
  BY DEF Far
<1>b. outprx \in Nat /\ target \in Int
  BY NextPlace DEF Takes
<1>c. place \in Entered /\ place.view = "rx" /\ place.at = mark
  BY <1>b DEF At, Entered
<1>d. item \in Item /\ item.from = outprx /\ item.at = at /\ item.form = "Absolute"
      /\ item.value = target /\ Denotes(item) = target
  BY <1>b DEF Item, Forms, Denotes
<1>e. none \subseteq Int /\ none = {}
  OBVIOUS
<1> HIDE DEF item, place, none
<1>f. /\ ~is_in_fixing_range(Decoded(ins))
      /\ Denotes(item) = Decoded(ins)
  BY <1>d DEF Takes
<1>g. item.from <= place.at /\ place.at <= item.at
  BY <1>b, <1>c, <1>d
<1>h. WellPlaced(ins, item, place, none)
  BY <1>c, <1>d, <1>e, <1>f, <1>g DEF WellPlaced
<1> QED BY <1>a, <1>h, EmitKeeps, Zenon

\* A branch, an ADR or a conditional branch, whichever way it is written.
LEMMA BranchKeeps ==
    ASSUME RelocationInv, back = NoBack, NEW ins \in Moved,
           \/ __fix_branch_imm(ins) \/ __fix_cond_comp_test_branch(ins)
           \/ __fix_adr(ins) /\ ~SpoilRegister(ins)
    PROVE  Relocated'
<1>a. outprx \in Nat /\ inprx \in Int /\ ins.target \in Int
  BY NextPlace DEF Moved
<1>b. \A aligned : Padded(aligned) \in Int /\ outprx <= Padded(aligned)
  BY <1>a DEF Padded
<1>c. ins.op \notin Conditional => Takes(ins, ins.target)
  BY <1>a DEF Takes, Decoded, ReadAt
<1>d. ins.op \in Conditional => Takes(ins, Decoded(ins))
  <2> SUFFICES ASSUME ins.op \in Conditional PROVE Takes(ins, Decoded(ins))
    OBVIOUS
  <2>a. Wrap[ins.op] \in Int
    BY InlineHookAssumption
  <2>b. Decoded(ins) \in Int
    BY <1>a, <2>a DEF Decoded, ReadAt
  <2> QED BY <2>b DEF Takes
<1>e. ASSUME NEW target, Takes(ins, target), ins.op \notin {"ADRP"} \cup Loads, NEW aligned,
             NEW words, NEW mark, mark = outprx \/ mark = Padded(aligned),
             IF IsNear(ins.op, target) THEN Near(ins, target)
             ELSE Far(ins, target, Padded(aligned), words, mark)
      PROVE  Relocated'
  <2>a. CASE Near(ins, target)
    BY <1>e, <2>a, NearKeeps, Zenon
  <2>b. CASE ~IsNear(ins.op, target) /\ Far(ins, target, Padded(aligned), words, mark)
    <3>a. PICK at \in Int : at = Padded(aligned)
      BY <1>b
    <3>b. outprx <= at /\ mark \in {outprx, at} /\ Far(ins, target, at, words, mark)
      BY <1>b, <1>e, <2>b, <3>a
    <3>c. ~is_in_fixing_range(target) /\ ins.op # "ADRP"
      BY <1>e, <2>b DEF IsNear
    <3> QED BY <1>e, <3>b, <3>c, FarKeeps, Zenon
  <2> QED BY <1>e, <2>a, <2>b
<1>f. CASE __fix_branch_imm(ins)
  <2> DEFINE aligned == (outprx % 2 = 0) = (ins.op = "B")
             words == IF ins.op = "B" THEN 4 ELSE 5
             mark == Padded(aligned)
  <2>a. ins.op \notin {"ADRP"} \cup Loads \cup Conditional
    BY <1>f DEF __fix_branch_imm, Branches, Loads, Conditional
  <2>b. IF IsNear(ins.op, ins.target) THEN Near(ins, ins.target)
        ELSE Far(ins, ins.target, Padded(aligned), words, mark)
    BY <1>f DEF __fix_branch_imm
  <2>c. mark = outprx \/ mark = Padded(aligned)
    OBVIOUS
  <2> HIDE DEF aligned, words, mark
  <2> QED BY <1>c, <1>e, <2>a, <2>b, <2>c, Zenon
<1>g. CASE __fix_cond_comp_test_branch(ins)
  <2> DEFINE aligned == outprx % 2 = 0
             words == 6
             mark == outprx
  <2>a. ins.op \notin {"ADRP"} \cup Loads /\ ins.op \in Conditional
    BY <1>g DEF __fix_cond_comp_test_branch, Conditional, Loads
  <2>b. IF IsNear(ins.op, Decoded(ins)) THEN Near(ins, Decoded(ins))
        ELSE Far(ins, Decoded(ins), Padded(aligned), words, mark)
    BY <1>g DEF __fix_cond_comp_test_branch
  <2>c. mark = outprx \/ mark = Padded(aligned)
    OBVIOUS
  <2> HIDE DEF aligned, words, mark
  <2> QED BY <1>d, <1>e, <2>a, <2>b, <2>c, Zenon
<1>h. CASE __fix_adr(ins) /\ ~SpoilRegister(ins)
  <2> DEFINE aligned == outprx % 2 = 0
             words == 4
             mark == Padded(aligned)
  <2>a. ins.op \notin {"ADRP"} \cup Loads \cup Conditional
    BY <1>h DEF __fix_adr, Addresses, Loads, Conditional
  <2>b. IF IsNear(ins.op, ins.target) THEN Near(ins, ins.target)
        ELSE Far(ins, ins.target, Padded(aligned), words, mark)
    BY <1>h DEF __fix_adr
  <2>c. mark = outprx \/ mark = Padded(aligned)
    OBVIOUS
  <2> HIDE DEF aligned, words, mark
  <2> QED BY <1>c, <1>e, <2>a, <2>b, <2>c, Zenon
<1> QED BY <1>f, <1>g, <1>h

\* An item that waits for nothing, in a form of its own.
LEMMA OwnFormKeeps ==
    ASSUME RelocationInv, back = NoBack, NEW ins \in Moved,
           NEW at \in Int, outprx <= at, NEW form \in Forms, NEW value \in Int, NEW words,
           NEW place \in Entered, ins.op # "ADRP" => place.view = "rx" /\ place.at = at,
           ins.op \notin Conditional,
           \/ ins.op \notin Relative
           \/ /\ form \in {"Corrupt", "Unchanged"}
              /\ Spoiled(ins, [from |-> outprx, at |-> at, form |-> form, value |-> value])
           \/ form = "Copied" /\ value = ins.target
           \/ form = "Absolute" /\ value = ins.target /\ ~is_in_fixing_range(ins.target)
           \/ form = "Relative" /\ at + value = ins.target /\ ~is_in_fixing_range(ins.target),
           Emit(ins, [from |-> outprx, at |-> at, form |-> form, value |-> value], words,
                place, {})
    PROVE  Relocated'
<1> DEFINE item == [from |-> outprx, at |-> at, form |-> form, value |-> value]
           none == {}
<1>a. Emit(ins, item, words, place, none)
  OBVIOUS
<1>b. outprx \in Nat
  BY NextPlace
<1>c. item \in Item /\ item.from = outprx /\ item.at = at /\ item.form = form /\ item.value = value
  BY <1>b DEF Item
<1>d. Denotes(item) = IF form = "Relative" THEN at + value ELSE value
  BY DEF Denotes
<1>e. none \subseteq Int /\ none = {}
  OBVIOUS
<1>f. place.at \in Int
  BY DEF Entered
<1>h. form \in {"Corrupt", "Unchanged"} => ins.op \notin Relative \/ Spoiled(ins, item)
  OBVIOUS
<1> HIDE DEF item, none
<1>i. Decoded(ins) = ins.target
  BY DEF Decoded, ReadAt
<1>g. WellPlaced(ins, item, place, none)
  BY <1>b, <1>c, <1>d, <1>e, <1>f, <1>h, <1>i DEF WellPlaced
<1> QED BY <1>a, <1>g, EmitKeeps, Zenon

LEMMA LoadKeeps ==
    ASSUME RelocationInv, back = NoBack, NEW ins \in Moved, __fix_loadlit(ins)
    PROVE  Relocated'
<1> DEFINE words == LoadWords(ins.op)
           copied == AlignedFrom(outprx, 2, words)
           moved == CHOOSE p \in outprx .. outprx + words - 1 : (ins.target - p) % words = 0
           form == IF SizeSurvives(ins.op, ins.target - moved) THEN "Relative" ELSE "Corrupt"
           target == ins.target
<1>a. outprx \in Nat /\ target \in Int /\ ins.op # "ADRP" /\ ins.op \notin Conditional
      /\ ins.op \in Loads
  BY NextPlace DEF Moved, __fix_loadlit, Loads, Conditional
<1>b. words \in {1, 2, 4}
  BY DEF __fix_loadlit, Loads, LoadWords
<1>c. copied \in outprx .. outprx + words - 1
  <2> HIDE DEF words
  <2>a. 2 \in Int
    OBVIOUS
  <2>b. \E p \in outprx .. outprx + words - 1 : (p + 2) % words = 0
    BY <1>a, <1>b, <2>a, AlignedPlace
  <2> QED BY <2>b DEF AlignedFrom
<1>d. moved \in outprx .. outprx + words - 1
  <2>a. \E p \in outprx .. outprx + words - 1 : (ins.target - p) % words = 0
    BY <1>a, <1>b, AlignedPlace
  <2> QED BY <2>a
<1>e. \/ /\ ~is_in_fixing_range(ins.target)
         /\ Emit(ins, [from |-> outprx, at |-> moved, form |-> form, value |-> target - moved],
                 1, At(moved), {})
      \/ Emit(ins, [from |-> outprx, at |-> copied, form |-> "Copied", value |-> target],
              2 + words, At(copied), {})
  BY DEF __fix_loadlit
<1>f. /\ copied \in Int /\ moved \in Int /\ outprx <= copied /\ outprx <= moved
      /\ \A a \in Int : At(a) \in Entered /\ At(a).view = "rx" /\ At(a).at = a
  <2>a. words \in Int
    BY <1>b
  <2> HIDE DEF words, copied, moved
  <2> QED BY <1>a, <1>c, <1>d, <2>a DEF At, Entered
<1>g. form \in Forms /\ form \in {"Relative", "Corrupt"} /\ "Copied" \in Forms
      /\ (form = "Corrupt" => ins.op \in Loads \ {"LDRX", "LDRSW"} /\ ~(target - moved >= 0))
  BY <1>a DEF Forms, SizeSurvives
<1> HIDE DEF words, copied, moved, form
<1>h. CASE /\ ~is_in_fixing_range(ins.target)
           /\ Emit(ins, [from |-> outprx, at |-> moved, form |-> form, value |-> target - moved],
                   1, At(moved), {})
  <2>a. PICK p \in Int : p = moved
    BY <1>f
  <2>b. PICK value \in Int : value = target - p
    BY <1>a
  <2>c. p + value = ins.target
    BY <1>a, <2>b
  <2>d. Emit(ins, [from |-> outprx, at |-> p, form |-> form, value |-> value], 1, At(p), {})
    BY <1>h, <2>a, <2>b
  <2>e. outprx <= p /\ At(p) \in Entered /\ At(p).view = "rx" /\ At(p).at = p
    BY <1>f, <2>a
  <2>f. PICK place \in Entered : place = At(p)
    BY <2>e
  <2>g. Emit(ins, [from |-> outprx, at |-> p, form |-> form, value |-> value], 1, place, {})
    BY <2>d, <2>f
  <2>h. form = "Corrupt" =>
           Spoiled(ins, [from |-> outprx, at |-> p, form |-> form, value |-> value])
    BY <1>a, <1>g, <1>h, <2>a DEF Spoiled
  <2> QED BY <1>a, <1>g, <1>h, <2>c, <2>e, <2>f, <2>g, <2>h, OwnFormKeeps
<1>i. CASE Emit(ins, [from |-> outprx, at |-> copied, form |-> "Copied", value |-> target],
                2 + words, At(copied), {})
  <2>a. PICK p \in Int : p = copied
    BY <1>f
  <2>b. PICK place \in Entered : place = At(p)
    BY <1>f
  <2>c. PICK n : n = 2 + words
    OBVIOUS
  <2>d. Emit(ins, [from |-> outprx, at |-> p, form |-> "Copied", value |-> target], n, place, {})
    BY <1>i, <2>a, <2>b, <2>c
  <2>e. outprx <= p /\ place.view = "rx" /\ place.at = p
    BY <1>f, <2>a, <2>b
  <2> QED BY <1>a, <1>g, <2>d, <2>e, OwnFormKeeps
<1> QED BY <1>e, <1>h, <1>i

LEMMA AdrpKeeps ==
    ASSUME RelocationInv, back = NoBack, NEW ins \in Moved, __fix_adrp(ins)
    PROVE  Relocated'
<1> DEFINE at == Padded(outprx % 2 = 0)
           target == ins.target
           entered == [view |-> "rw", at |-> outprx]
           place == IF at = outprx THEN entered ELSE At(at)
<1>a. outprx \in Nat /\ target \in Int /\ ins.op = "ADRP" /\ ins.op \notin Conditional
  BY NextPlace DEF Moved, __fix_adrp, Conditional
<1>b. at \in Int /\ outprx <= at
  BY <1>a DEF Padded
<1>c. entered \in Entered /\ place \in Entered
  BY <1>a, <1>b DEF Entered, At
<1>d. "Unchanged" \in Forms /\ "Absolute" \in Forms
  BY DEF Forms
<1>e. \/ /\ is_in_fixing_range(ins.target)
         /\ Emit(ins, [from |-> outprx, at |-> outprx, form |-> "Unchanged", value |-> target], 1,
                 entered, {})
      \/ /\ ~is_in_fixing_range(ins.target)
         /\ Emit(ins, [from |-> outprx, at |-> at, form |-> "Absolute", value |-> target], 4,
                 place, {})
  BY DEF __fix_adrp
<1> HIDE DEF at, entered, place
<1>f. CASE /\ is_in_fixing_range(ins.target)
           /\ Emit(ins, [from |-> outprx, at |-> outprx, form |-> "Unchanged", value |-> target], 1,
                   entered, {})
  <2>a. PICK p \in Int : p = outprx
    BY <1>a
  <2>b. PICK e \in Entered : e = entered
    BY <1>c
  <2>c. Emit(ins, [from |-> outprx, at |-> p, form |-> "Unchanged", value |-> target], 1, e, {})
    BY <1>f, <2>a, <2>b
  <2>d. outprx <= p
    BY <1>a, <2>a
  <2>e. Spoiled(ins, [from |-> outprx, at |-> p, form |-> "Unchanged", value |-> target])
    BY <1>a, <1>f DEF Spoiled
  <2> QED BY <1>a, <1>d, <2>c, <2>d, <2>e, OwnFormKeeps
<1>g. CASE /\ ~is_in_fixing_range(ins.target)
           /\ Emit(ins, [from |-> outprx, at |-> at, form |-> "Absolute", value |-> target], 4,
                   place, {})
  <2>a. PICK p \in Int : p = at
    BY <1>b
  <2>b. PICK e \in Entered : e = place
    BY <1>c
  <2>c. Emit(ins, [from |-> outprx, at |-> p, form |-> "Absolute", value |-> target], 4, e, {})
    BY <1>g, <2>a, <2>b
  <2>d. outprx <= p
    BY <1>b, <2>a
  <2> QED BY <1>a, <1>d, <1>g, <2>c, <2>d, OwnFormKeeps
<1> QED BY <1>e, <1>f, <1>g

LEMMA SpoilKeeps ==
    ASSUME RelocationInv, back = NoBack, NEW ins \in Moved, SpoilRegister(ins)
    PROVE  Relocated'
<1>a. outprx \in Nat /\ ins.target \in Int /\ ins.op = "ADRB" /\ ins.op \notin Conditional
      /\ ~is_in_fixing_range(ins.target)
  BY NextPlace DEF Moved, SpoilRegister, Conditional
<1>b. PICK value \in Int : value = ins.target - outprx
  BY <1>a
<1>c. PICK p \in Int : p = outprx
  BY <1>a
<1>d. PICK place \in Entered : place = At(p)
  BY <1>c DEF At, Entered
<1>e. Emit(ins, [from |-> outprx, at |-> p, form |-> "Corrupt", value |-> value], 1, place, {})
  BY <1>b, <1>c, <1>d DEF SpoilRegister
<1>f. outprx <= p /\ place.view = "rx" /\ place.at = p /\ "Corrupt" \in Forms
  BY <1>a, <1>c, <1>d DEF At, Forms
<1>g. Spoiled(ins, [from |-> outprx, at |-> p, form |-> "Corrupt", value |-> value])
  BY <1>a DEF Spoiled
<1> QED BY <1>a, <1>e, <1>f, <1>g, OwnFormKeeps

LEMMA OtherKeeps ==
    ASSUME RelocationInv, back = NoBack, NEW ins \in Moved,
           SkipPrefetch(ins) \/ CopyInstruction(ins)
    PROVE  Relocated'
<1>a. outprx \in Nat /\ ins.op \notin Relative /\ ins.op # "ADRP" /\ ins.op \notin Conditional
  BY NextPlace
     DEF SkipPrefetch, CopyInstruction, Relative, Branches, Conditional, Loads, Addresses
<1>b. PICK form \in Forms, words \in {0, 1} :
         Emit(ins, [from |-> outprx, at |-> outprx, form |-> form, value |-> 0], words,
              At(outprx), {})
  <2>a. "None" \in Forms /\ "Same" \in Forms
    BY DEF Forms
  <2> QED BY <2>a DEF SkipPrefetch, CopyInstruction
<1>c. PICK p \in Int : p = outprx
  BY <1>a
<1>d. PICK place \in Entered : place = At(p)
  BY <1>c DEF At, Entered
<1>e. Emit(ins, [from |-> outprx, at |-> p, form |-> form, value |-> 0], words, place, {})
  BY <1>b, <1>c, <1>d
<1>f. outprx <= p /\ place.view = "rx" /\ place.at = p
  BY <1>a, <1>c, <1>d DEF At
<1> QED BY <1>a, <1>e, <1>f, OwnFormKeeps

\* The invariant is kept by every step.
LEMMA RelocationStep ==
    ASSUME RelocationInv, [InlineHookNext]_hookVars
    PROVE  RelocationInv'
<1>a. HookInv'
  BY NextKeeps DEF RelocationInv
<1> SUFFICES Relocated'
  BY <1>a DEF RelocationInv
<1>b. ASSUME NEW symbol, NEW replace, NEW inline, Start(symbol, replace, inline)
      PROVE  Relocated'
  <2>a. /\ program = <<>> /\ back = NoBack
        /\ UNCHANGED <<program, items, dat, waiting, back>>
    BY <1>b DEF Start, RelocationInv, HookInv, Unhooked
  <2> QED BY <2>a DEF RelocationInv, Relocated, Written
<1>c. ASSUME __fix_instruction PROVE Relocated'
  <2>a. PICK ins \in Instruction :
           \/ __fix_branch_imm(ins)
           \/ __fix_cond_comp_test_branch(ins)
           \/ __fix_loadlit(ins)
           \/ __fix_adr(ins)
           \/ __fix_adrp(ins)
           \/ SkipPrefetch(ins)
           \/ CopyInstruction(ins)
    BY <1>c DEF __fix_instruction
  <2>b. ins \in Moved
    BY <2>a, InstructionIsMoved DEF RelocationInv
  <2>c. back = NoBack
    BY <1>c, NextPlace DEF __fix_instruction, RelocationInv, Relocated
  <2> QED BY <2>a, <2>b, <2>c, BranchKeeps, SpoilKeeps, LoadKeeps, AdrpKeeps, OtherKeeps
<1>d. ASSUME JumpBack PROVE Relocated'
  <2> DEFINE near == Distance(outprx, inprx) < Reach["B"]
             at == Padded(near \/ outprx % 2 = 0)
  <2>a. /\ UNCHANGED <<hook, program, items, dat, waiting>>
        /\ Len(program) = hook.count
        /\ back'.at = at /\ back'.form = (IF near THEN "Relative" ELSE "Absolute")
        /\ back'.value = (IF near THEN inprx - outprx ELSE inprx)
    BY <1>d DEF JumpBack
  <2>b. near => at = outprx
    BY DEF Padded
  <2> HIDE DEF near, at
  <2>c. outprx \in Nat /\ inprx = hook.symbol + hook.count /\ inprx \in Int
    BY <2>a, NextPlace
  <2>d. Denotes(back)' = inprx
    BY <2>a, <2>b, <2>c DEF Denotes
  <2>e. Written'
    BY <2>a DEF RelocationInv, Relocated, Written
  <2>f. \A i \in 1 .. Len(program) : Placed(i)' /\ (program'[i].op \in Relative => Names(i)')
    <3> SUFFICES ASSUME NEW i \in 1 .. Len(program) PROVE Placed(i)' /\ (program'[i].op \in Relative => Names(i)')
      OBVIOUS
    <3>a. Placed(i) /\ (program[i].op \in Relative => Names(i))
      BY DEF RelocationInv, Relocated
    <3> QED BY <2>a, <3>a DEF Placed, Names, NamesCopy, NamesOutside, NamesMoved, WillName,
               NotWaiting, Denotes, is_in_fixing_range, get_ref_ins_index, Read, Spoiled
  <2> QED BY <2>a, <2>c, <2>d, <2>e, <2>f DEF Relocated
<1>e. ASSUME Finish PROVE Relocated'
  <2>a. /\ program' = <<>> /\ items' = <<>> /\ dat' = <<>> /\ waiting' = {} /\ back' = NoBack
    BY <1>e DEF Finish
  <2> QED BY <2>a DEF Relocated, Written
<1>f. ASSUME UNCHANGED hookVars PROVE Relocated'
  <2>a. UNCHANGED <<hook, program, items, dat, waiting, back>>
    BY <1>f DEF hookVars
  <2>b. Written'
    BY <2>a DEF RelocationInv, Relocated, Written
  <2>c. \A i \in 1 .. Len(program) : Placed(i)' /\ (program'[i].op \in Relative => Names(i)')
    <3> SUFFICES ASSUME NEW i \in 1 .. Len(program) PROVE Placed(i)' /\ (program'[i].op \in Relative => Names(i)')
      OBVIOUS
    <3>a. Placed(i) /\ (program[i].op \in Relative => Names(i))
      BY DEF RelocationInv, Relocated
    <3> QED BY <2>a, <3>a DEF Placed, Names, NamesCopy, NamesOutside, NamesMoved, WillName,
               NotWaiting, Denotes, is_in_fixing_range, get_ref_ins_index, Read, Spoiled
  <2> QED BY <2>a, <2>b, <2>c DEF RelocationInv, Relocated, Denotes
<1> QED BY <1>b, <1>c, <1>d, <1>e, <1>f DEF InlineHookNext, A64HookFunction, A64InlineHook

\* InlineHook!MovedAsRead, for every reach, page and place: a moved instruction names
\* what the code read out of it, but for the words and references that the property
\* describes, and the only ones like that are those.
THEOREM MovedAsReadHolds == InlineHookSpec => []MovedAsRead
<1>a. InlineHookInit => RelocationInv
  BY InitHook DEF InlineHookInit, RelocationInv, Relocated, Written
<1>b. RelocationInv /\ [InlineHookNext]_hookVars => RelocationInv'
  BY RelocationStep
<1>c. RelocationInv => MovedAsRead
  <2> SUFFICES ASSUME RelocationInv, back # NoBack,
                      NEW i \in DOMAIN items, program[i].op \in Relative
               PROVE  CASE items[i].form \in {"Corrupt", "Unchanged"} -> Spoiled(program[i], items[i])
                        [] items[i].form = "Copied" -> items[i].value = Read(i)
                        [] OTHER -> LeadsToPage(i) \/ Meets(Read(i), Denotes(items[i]))
    BY DEF RelocationInv, Relocated, MovedAsRead
  <2>a. i \in 1 .. Len(program) /\ Len(program) = hook.count
    BY DEF RelocationInv, Relocated, Written
  <2>b. Names(i)
    BY <2>a DEF RelocationInv, Relocated
  <2>c. CASE items[i].form \in {"Corrupt", "Unchanged"} /\ Spoiled(program[i], items[i])
    BY <2>c
  <2>d. CASE NamesCopy(i)
    BY <2>d DEF NamesCopy
  <2>e. CASE NamesOutside(i)
    BY <2>e DEF NamesOutside, Meets
  <2>f. CASE NamesMoved(i)
    BY <2>f DEF NamesMoved, LeadsToPage, Meets
  <2>g. CASE WillName(i)
    <3>a. hook.symbol \in Nat /\ hook.count \in Nat /\ Read(i) \in Int
      <4>a. program[i] \in Moved
        BY <2>a DEF RelocationInv, HookInv, HookTypes
      <4>b. \A op \in Conditional : Wrap[op] \in Nat
        BY InlineHookAssumption
      <4> QED BY <2>a, <4>a, <4>b, NextPlace DEF Moved, Read, ReadAt
    <3> QED BY <2>a, <2>g, <3>a DEF WillName, is_in_fixing_range, get_ref_ins_index
  <2> QED BY <2>b, <2>c, <2>d, <2>e, <2>f, <2>g DEF Names
<1> QED BY <1>a, <1>b, <1>c, PTL DEF InlineHookSpec

----
(* Pages: the search for room never takes a page that is in use, or one of the heap
   or the alias region, whatever the layout of the address space. *)

PageTypes ==
    /\ cur_base \in Page
    /\ size \in Nat
    /\ purpose = "Claim" => size >= 1
    /\ purpose # "None" => claimed = {}

\* A place that was found is where the search stands, tested against everything.
FoundHere ==
    found # NotFound =>
        /\ found = cur_base /\ purpose = "Claim"
        /\ Room(cur_base) /\ ~Overlaps(Heap) /\ ~Overlaps(Alias)

PagesInv == PageTypes /\ FoundHere

----
LEMMA LeastOf ==
    ASSUME NEW S, S \subseteq Nat, S # {}
    PROVE  \E n \in S : \A k \in S : n <= k
<1>a. PICK n \in S : \A k \in S : ~(<<k, n>> \in OpToRel(<, Nat))
  BY NatLessThanWellFounded, WFMin
<1>b. \A k \in S : ~(k < n)
  BY <1>a DEF OpToRel
<1> QED BY <1>b, SMT

\* The block around a page ends behind it, and up to there all pages are like it.
LEMMA BlockIsUniform ==
    ASSUME NEW p \in Page
    PROVE  /\ BlockEnd(p) \in p + 1 .. Top
           /\ \A q \in p .. BlockEnd(p) - 1 : Alike(p, q)
<1>0. Top \in Nat /\ p \in Nat /\ p < Top
  BY PagesAssumption DEF Page
<1> DEFINE S == {e \in p + 1 .. Top : e = Top \/ ~Alike(p, e)}
<1>a. S \subseteq Nat /\ Top \in S
  BY <1>0
<1>b. PICK e \in S : \A k \in S : e <= k
  <2>a. S # {}
    BY <1>a
  <2> QED BY <1>a, <2>a, LeastOf
<1>c. ASSUME NEW q \in p .. e - 1
      PROVE  Alike(p, q)
  <2>a. CASE q = p
    BY <2>a DEF Alike
  <2>b. CASE q # p
    <3>a. q \in p + 1 .. Top /\ q < e
      BY <1>0, <2>b
    <3>b. q \notin S
      BY <1>0, <1>b, <3>a
    <3> QED BY <3>a, <3>b
  <2> QED BY <2>a, <2>b
<1>d. e \in p + 1 .. Top /\ (e = Top \/ ~Alike(p, e))
  OBVIOUS
<1>e. e \in Ends(p)
  BY <1>c, <1>d DEF Ends
<1>f. BlockEnd(p) \in Ends(p)
  BY <1>e DEF BlockEnd
<1> QED BY <1>f DEF Ends

LEMMA ContinueKeeps ==
    ASSUME PagesInv, purpose = "Claim", found = NotFound, NEW next \in Nat, Continue(next)
    PROVE  PagesInv'
BY PagesAssumption DEF PagesInv, PageTypes, FoundHere, Continue, Fails, Page

LEMMA SearchKeeps ==
    ASSUME PagesInv, locateMappableSpace
    PROVE  PagesInv'
<1>a. purpose = "Claim" /\ found = NotFound
  BY DEF locateMappableSpace
<1>b. CASE SkipHeap
  <2>a. Heap.end \in Nat
    BY PagesAssumption
  <2> QED BY <1>a, <1>b, <2>a, ContinueKeeps DEF SkipHeap
<1>c. CASE SkipAlias
  <2>a. Alias.end \in Nat
    BY PagesAssumption
  <2> QED BY <1>a, <1>c, <2>a, ContinueKeeps DEF SkipAlias
<1>d. CASE TakeBlock
  <2>a. PageTypes'
    BY <1>d DEF TakeBlock, PagesInv, PageTypes
  <2>b. Room(cur_base)' /\ ~Overlaps(Heap)' /\ ~Overlaps(Alias)'
    BY <1>d DEF TakeBlock, Room, Overlaps, BlockEnd, Ends, Alike
  <2>c. found' = cur_base' /\ purpose' = "Claim"
    BY <1>a, <1>d DEF TakeBlock
  <2> QED BY <2>a, <2>b, <2>c DEF PagesInv, FoundHere
<1>e. CASE SkipBlock
  <2>a. CASE BlockEnd(cur_base) < Aslr.end
    <3>a. BlockEnd(cur_base) \in Nat
      BY BlockIsUniform DEF PagesInv, PageTypes, Page
    <3>b. Continue(BlockEnd(cur_base))
      BY <1>e, <2>a DEF SkipBlock
    <3> QED BY <1>a, <3>a, <3>b, ContinueKeeps
  <2>b. CASE Fails
    BY <1>a, <2>b DEF Fails, PagesInv, PageTypes, FoundHere
  <2> QED BY <1>e, <2>a, <2>b DEF SkipBlock
<1> QED BY <1>b, <1>c, <1>d, <1>e DEF locateMappableSpace

LEMMA PagesKeep ==
    ASSUME PagesInv, [PagesNext]_pageVars
    PROVE  PagesInv'
<1>a. CASE \E n \in Sizes : StartClaim(n)
  BY <1>a, PagesAssumption DEF StartClaim, PagesInv, PageTypes, FoundHere
<1>b. CASE locateMappableSpace
  BY <1>b, SearchKeeps
<1>c. CASE MapView
  BY <1>c DEF MapView, PagesInv, PageTypes, FoundHere
<1>d. CASE Unclaim
  BY <1>d DEF Unclaim, PagesInv, PageTypes, FoundHere
<1>e. CASE StartPool
  <2>a. Text - PoolPages \in Page
    BY <1>e, PagesAssumption DEF StartPool, Page
  <2> QED BY <1>e, <2>a DEF StartPool, PagesInv, PageTypes, FoundHere
<1>f. CASE SearchDown
  <2>a. cur_base - 1 \in Page
    BY <1>f, PagesAssumption DEF SearchDown, PagesInv, PageTypes, Page
  <2> QED BY <1>f, <2>a DEF SearchDown, PagesInv, PageTypes, FoundHere
<1>g. CASE CreatePool
  BY <1>g DEF CreatePool, PagesInv, PageTypes, FoundHere
<1>h. CASE UNCHANGED pageVars
  BY <1>h DEF pageVars, PagesInv, PageTypes, FoundHere, Room, Overlaps, BlockEnd, Ends, Alike
<1> QED BY <1>a, <1>b, <1>c, <1>d, <1>e, <1>f, <1>g, <1>h DEF PagesNext

\* What a search found is free and outside heap and alias region, for every address
\* space and every size.
THEOREM SearchFindsFreePages == PagesSpec => []FoundIsFree
<1>a. PagesInit => PagesInv
  BY PagesAssumption DEF PagesInit, PagesInv, PageTypes, FoundHere, Page
<1>b. PagesInv /\ [PagesNext]_pageVars => PagesInv'
  BY PagesKeep
<1>c. PagesInv => FoundIsFree
  <2> SUFFICES ASSUME PagesInv, found # NotFound
               PROVE  FoundIsFree
    BY DEF FoundIsFree
  <2>a. found \in Nat /\ size \in Nat /\ size >= 1 /\ found \in Page
    BY DEF PagesInv, PageTypes, FoundHere, Page
  <2>b. /\ found \notin inUse /\ BlockEnd(found) - found >= size
        /\ \A q \in found .. BlockEnd(found) - 1 : Alike(found, q)
        /\ BlockEnd(found) \in Int
    <3>a. BlockEnd(found) \in found + 1 .. Top
          /\ \A q \in found .. BlockEnd(found) - 1 : Alike(found, q)
      BY <2>a, BlockIsUniform
    <3>b. Top \in Nat
      BY PagesAssumption
    <3> QED BY <3>a, <3>b DEF PagesInv, FoundHere, Room
  <2>c. ASSUME NEW q \in Pages(found, size)
        PROVE  q \notin inUse
    <3>a. q \in found .. BlockEnd(found) - 1
      BY <2>a, <2>b, <2>c DEF Pages
    <3> QED BY <2>b, <3>a DEF Alike
  <2>d. Pages(found, size) \cap (Heap.base .. Heap.end - 1) = {}
    <3>a. Heap.base \in Nat /\ Heap.end \in Nat
      BY PagesAssumption
    <3> QED BY <2>a, <3>a DEF PagesInv, FoundHere, Overlaps, Pages
  <2>e. Pages(found, size) \cap (Alias.base .. Alias.end - 1) = {}
    <3>a. Alias.base \in Nat /\ Alias.end \in Nat
      BY PagesAssumption
    <3> QED BY <2>a, <3>a DEF PagesInv, FoundHere, Overlaps, Pages
  <2> QED BY <2>c, <2>d, <2>e DEF FoundIsFree
<1> QED BY <1>a, <1>b, <1>c, PTL DEF PagesSpec

----
(* Plugins: EachContentRunsOnce holds of every directory of plugins.  While files are
   opened, the list up to the iterator and the set of hashes are kept alike; from the
   registration on, the list on either side of the iterator holds registered hashes,
   each once, and what has run lies before the iterator. *)

Nrr == [num_hashes : Nat, hashes : SUBSET Digests]

Distinct(s) == \A i, j \in DOMAIN s : s[i].hash = s[j].hash => i = j
Hashes(s) == {s[i].hash : i \in DOMAIN s}

TypeOK ==
    /\ stage \in {"Walk", "Open", "Load", "Run", "Done"}
    /\ kept \in Seq(Plugin) /\ rest \in Seq(Plugin) /\ ran \in Seq(Plugin)
    /\ sortedHashes \in SUBSET Digests
    /\ nrr \in Nrr \cup {NoNrr}

\* While files are opened, and before.
Opening ==
    stage \in {"Walk", "Open"} =>
        /\ nrr = NoNrr /\ ran = <<>>
        /\ Distinct(kept) /\ Hashes(kept) = sortedHashes
        /\ IsFiniteSet(sortedHashes) /\ Cardinality(sortedHashes) = Len(kept)

\* From the registration on.
Registered ==
    stage \in {"Load", "Run"} =>
        /\ nrr # NoNrr
        /\ Distinct(kept) /\ Distinct(rest)
        /\ Hashes(kept) \cap Hashes(rest) = {}
        /\ Hashes(kept) \cup Hashes(rest) \subseteq nrr.hashes
        /\ Hashes(ran) \subseteq Hashes(kept)
        /\ stage = "Load" => ran = <<>>

\* EachContentRunsOnce in the terms of this proof.
Once ==
    /\ nrr # NoNrr => nrr.num_hashes = Cardinality(nrr.hashes)
    /\ Distinct(ran)
    /\ ran # <<>> => nrr # NoNrr
    /\ Hashes(ran) \subseteq (IF nrr = NoNrr THEN {} ELSE nrr.hashes)

IInv == TypeOK /\ Opening /\ Registered /\ Once

----
(* Lists. *)

\* An element whose hash is new keeps a list free of repetitions.
LEMMA AppendDistinct ==
    ASSUME NEW s \in Seq(Plugin), NEW e \in Plugin, Distinct(s), e.hash \notin Hashes(s)
    PROVE  Distinct(Append(s, e))
  <1>a. \A i \in 1 .. Len(s) : s[i].hash # e.hash
    BY DEF Hashes
  <1>b. \A i \in 1 .. Len(s) : Append(s, e)[i] = s[i]
    OBVIOUS
  <1>c. Append(s, e)[Len(s) + 1] = e /\ Len(Append(s, e)) = Len(s) + 1
    OBVIOUS
  <1>d. SUFFICES ASSUME NEW i \in 1 .. Len(s) + 1, NEW j \in 1 .. Len(s) + 1,
                        Append(s, e)[i].hash = Append(s, e)[j].hash
                 PROVE  i = j
    BY <1>c DEF Distinct
  <1> QED
    BY <1>a, <1>b, <1>c, <1>d DEF Distinct

LEMMA AppendHashes ==
    ASSUME NEW s \in Seq(Plugin), NEW e \in Plugin
    PROVE  Hashes(Append(s, e)) = Hashes(s) \cup {e.hash}
  <1>a. \A i \in 1 .. Len(s) : Append(s, e)[i] = s[i]
    OBVIOUS
  <1>b. Append(s, e)[Len(s) + 1] = e /\ DOMAIN Append(s, e) = 1 .. Len(s) + 1
    OBVIOUS
  <1>c. DOMAIN s = 1 .. Len(s)
    OBVIOUS
  <1>d. ASSUME NEW h \in Hashes(Append(s, e)) PROVE h \in Hashes(s) \cup {e.hash}
    <2>a. PICK i \in 1 .. Len(s) + 1 : h = Append(s, e)[i].hash
      BY <1>b, <1>d DEF Hashes
    <2> QED
      BY <2>a, <1>a, <1>b, <1>c DEF Hashes
  <1>e. ASSUME NEW h \in Hashes(s) PROVE h \in Hashes(Append(s, e))
    <2>a. PICK i \in 1 .. Len(s) : h = s[i].hash
      BY <1>c, <1>e DEF Hashes
    <2>b. i \in DOMAIN Append(s, e) /\ h = Append(s, e)[i].hash
      BY <2>a, <1>a, <1>b
    <2> QED
      BY <2>b DEF Hashes
  <1>f. e.hash \in Hashes(Append(s, e))
    BY <1>b DEF Hashes
  <1> QED
    BY <1>d, <1>e, <1>f

\* What a list loses with its head.
LEMMA HeadAndTail ==
    ASSUME NEW s \in Seq(Plugin), s # <<>>
    PROVE  /\ Head(s) \in Plugin /\ Tail(s) \in Seq(Plugin)
           /\ Head(s).hash \in Hashes(s)
           /\ Hashes(Tail(s)) \subseteq Hashes(s)
           /\ Distinct(s) => Distinct(Tail(s)) /\ Head(s).hash \notin Hashes(Tail(s))
  <1>a. Head(s) = s[1] /\ 1 \in DOMAIN s /\ DOMAIN s = 1 .. Len(s)
    OBVIOUS
  <1>b. /\ Tail(s) \in Seq(Plugin) /\ DOMAIN Tail(s) = 1 .. Len(s) - 1
        /\ \A i \in 1 .. Len(s) - 1 : Tail(s)[i] = s[i + 1] /\ i + 1 \in 1 .. Len(s)
    OBVIOUS
  <1>c. Head(s) \in Plugin /\ Head(s).hash \in Hashes(s)
    BY <1>a DEF Hashes
  <1>d. Hashes(Tail(s)) \subseteq Hashes(s)
    BY <1>a, <1>b DEF Hashes
  <1>e. ASSUME Distinct(s) PROVE Distinct(Tail(s)) /\ Head(s).hash \notin Hashes(Tail(s))
    <2>a. ASSUME NEW i \in 1 .. Len(s) - 1, NEW j \in 1 .. Len(s) - 1,
                 Tail(s)[i].hash = Tail(s)[j].hash
          PROVE  i = j
      <3>a. i + 1 = j + 1
        BY <1>a, <1>b, <1>e, <2>a DEF Distinct
      <3> QED
        BY <3>a
    <2>b. ASSUME NEW i \in 1 .. Len(s) - 1, Tail(s)[i].hash = Head(s).hash
          PROVE  FALSE
      <3>a. i + 1 = 1
        BY <1>a, <1>b, <1>e, <2>b DEF Distinct
      <3> QED
        BY <3>a
    <2> QED
      BY <1>b, <2>a, <2>b DEF Distinct, Hashes
  <1> QED
    BY <1>b, <1>c, <1>d, <1>e

LEMMA EmptyList == Hashes(<<>>) = {} /\ Distinct(<<>>)
  BY DEF Hashes, Distinct

----
(* The invariant. *)

LEMMA InvInit == PluginInit => IInv
  <1> SUFFICES ASSUME PluginInit PROVE IInv
    OBVIOUS
  <1>a. TypeOK
    BY DEF PluginInit, TypeOK
  <1>b. IsFiniteSet({}) /\ Cardinality({}) = 0
    BY FS_EmptySet
  <1> QED
    BY <1>a, <1>b, EmptyList DEF PluginInit, IInv, Opening, Registered, Once

LEMMA InvNext == IInv /\ [PluginNext]_pluginVars => IInv'
  <1> SUFFICES ASSUME IInv, [PluginNext]_pluginVars PROVE IInv'
    OBVIOUS
  <1> USE DEF IInv
  <1>0. CASE UNCHANGED pluginVars
    <2>a. TypeOK'
      BY <1>0 DEF pluginVars, TypeOK
    <2>b. Opening'
      BY <1>0 DEF pluginVars, Opening, Distinct, Hashes
    <2>c. Registered'
      <3>a. /\ Distinct(kept)' = Distinct(kept) /\ Distinct(rest)' = Distinct(rest)
            /\ Hashes(kept)' = Hashes(kept) /\ Hashes(rest)' = Hashes(rest)
            /\ Hashes(ran)' = Hashes(ran)
        BY <1>0 DEF pluginVars, Distinct, Hashes
      <3> QED
        BY <1>0, <3>a DEF pluginVars, Registered
    <2>d. Once'
      BY <1>0 DEF pluginVars, Once, Distinct, Hashes
    <2> QED
      BY <2>a, <2>b, <2>c, <2>d
  <1>a. ASSUME NEW files \in Directories, walkDirectory(files) PROVE IInv'
    <2>a. files \in Seq(Plugin)
      BY <1>a, PluginAssumption DEF Directories
    <2>b. TypeOK'
      BY <1>a, <2>a DEF walkDirectory, TypeOK
    <2> QED
      BY <1>a, <2>b DEF walkDirectory, Opening, Registered, Once, Distinct, Hashes
  <1>b. CASE SkipFile
    <2>a. TypeOK'
      BY <1>b, HeadAndTail DEF SkipFile, Erase, TypeOK
    <2> QED
      BY <1>b, <2>a DEF SkipFile, Erase, Opening, Registered, Once, Distinct, Hashes
  <1>c. CASE TrackFile
    <2> DEFINE p == Head(rest)
    <2>a. p \in Plugin /\ Tail(rest) \in Seq(Plugin) /\ p.hash \in Digests
      BY <1>c, HeadAndTail DEF TrackFile, TypeOK, Plugin
    <2>0. /\ kept' \in {kept, Append(kept, p)} /\ rest' = Tail(rest)
          /\ sortedHashes' = sortedHashes \cup {p.hash} /\ UNCHANGED <<stage, nrr, ran>>
      BY <1>c DEF TrackFile, DropDuplicate, Erase, Keep
    <2>b. TypeOK'
      <3>0. kept \in Seq(Plugin)
        BY DEF TypeOK
      <3>a. kept' \in Seq(Plugin)
        <4> HIDE DEF p
        <4>a. Append(kept, p) \in Seq(Plugin)
          BY <2>a, <3>0
        <4> QED
          BY <2>0, <3>0, <4>a
      <3>b. sortedHashes' \subseteq Digests
        BY <2>0, <2>a DEF TypeOK
      <3> QED
        BY <2>0, <2>a, <3>a, <3>b DEF TypeOK
    <2>c. CASE p.hash \in sortedHashes
      <3>a. sortedHashes' = sortedHashes /\ kept' = kept /\ UNCHANGED <<stage, nrr, ran>>
        BY <1>c, <2>c DEF TrackFile, DropDuplicate, Erase
      <3>b. stage = "Open"
        BY <1>c DEF TrackFile
      <3>c. Opening' /\ Registered'
        BY <3>a, <3>b DEF Opening, Registered, Distinct, Hashes
      <3>d. Once'
        BY <3>a DEF Once, Distinct, Hashes
      <3> QED
        BY <2>b, <3>c, <3>d
    <2>d. CASE p.hash \notin sortedHashes
      <3>a. kept' = Append(kept, p) /\ sortedHashes' = sortedHashes \cup {p.hash}
            /\ UNCHANGED <<stage, nrr, ran>> /\ stage = "Open"
        BY <1>c, <2>d DEF TrackFile, Keep
      <3>b. kept \in Seq(Plugin) /\ Distinct(kept) /\ Hashes(kept) = sortedHashes
        BY <3>a DEF Opening, TypeOK
      <3>c. Distinct(kept') /\ Hashes(kept') = sortedHashes'
        BY <2>a, <2>d, <3>a, <3>b, AppendDistinct, AppendHashes
      <3>d. IsFiniteSet(sortedHashes') /\ Cardinality(sortedHashes') = Cardinality(sortedHashes) + 1
        BY <2>d, <3>a, FS_AddElement DEF Opening
      <3>e. Len(kept') = Len(kept) + 1
        BY <2>a, <3>a, <3>b
      <3> QED
        BY <2>b, <3>a, <3>c, <3>d, <3>e DEF Opening, Registered, Once, Distinct, Hashes
    <2> QED
      BY <2>c, <2>d
  <1>d. ASSUME NEW accepted \in BOOLEAN, RegisterModuleInfo(accepted) PROVE IInv'
    <2>a. /\ ran = <<>> /\ ran' = <<>> /\ Distinct(kept) /\ Hashes(kept) = sortedHashes
          /\ Cardinality(sortedHashes) = Len(kept)
      BY <1>d DEF RegisterModuleInfo, Opening
    <2>b. CASE accepted
      <3>a. /\ nrr' = [num_hashes |-> Len(kept), hashes |-> sortedHashes]
            /\ stage' = "Load" /\ rest' = kept /\ kept' = <<>> /\ sortedHashes' = sortedHashes
        BY <1>d, <2>b DEF RegisterModuleInfo, Rewind
      <3>b. nrr' \in Nrr
        BY <3>a DEF TypeOK, Nrr
      <3>c. nrr' # NoNrr
        BY <3>b, PluginAssumption DEF Nrr
      <3>d. TypeOK'
        BY <2>a, <3>a, <3>b DEF TypeOK
      <3> QED
        BY <2>a, <3>a, <3>c, <3>d, EmptyList DEF Opening, Registered, Once
    <2>c. CASE ~accepted
      <3>a. nrr' = NoNrr /\ stage' = "Done" /\ kept' = <<>> /\ rest' = <<>>
            /\ sortedHashes' = sortedHashes
        BY <1>d, <2>c DEF RegisterModuleInfo
      <3>b. TypeOK'
        BY <2>a, <3>a DEF TypeOK
      <3> QED
        BY <2>a, <3>a, <3>b, EmptyList DEF Opening, Registered, Once
    <2> QED
      BY <2>b, <2>c
  <1>e. ASSUME NEW loads \in BOOLEAN, LoadModule(loads) PROVE IInv'
    <2> DEFINE p == Head(rest)
    <2>a. /\ kept \in Seq(Plugin) /\ rest \in Seq(Plugin) /\ rest # <<>>
          /\ Distinct(kept) /\ Distinct(rest) /\ Hashes(kept) \cap Hashes(rest) = {}
          /\ Hashes(kept) \cup Hashes(rest) \subseteq nrr.hashes /\ nrr # NoNrr
          /\ ran = <<>> /\ stage = "Load" /\ UNCHANGED <<stage, sortedHashes, nrr, ran>>
          /\ rest' = Tail(rest)
      BY <1>e DEF LoadModule, Registered, TypeOK, Keep, Erase
    <2>b. /\ p \in Plugin /\ Tail(rest) \in Seq(Plugin) /\ p.hash \in Hashes(rest)
          /\ Hashes(Tail(rest)) \subseteq Hashes(rest)
          /\ Distinct(Tail(rest)) /\ p.hash \notin Hashes(Tail(rest))
      BY <2>a, HeadAndTail
    <2>c. kept' = kept \/ kept' = Append(kept, p)
      BY <1>e DEF LoadModule, Keep, Erase
    <2>d. TypeOK'
      BY <2>a, <2>b, <2>c DEF TypeOK
    <2>e. p.hash \notin Hashes(kept)
      BY <2>a, <2>b
    <2>f. Distinct(kept') /\ Hashes(kept') \subseteq Hashes(kept) \cup {p.hash}
      <3>a. CASE kept' = kept
        BY <2>a, <3>a
      <3>b. CASE kept' = Append(kept, p)
        BY <2>a, <2>b, <2>e, <3>b, AppendDistinct, AppendHashes
      <3> QED
        BY <2>c, <3>a, <3>b
    <2>g. Hashes(kept') \cap Hashes(rest') = {}
      BY <2>a, <2>b, <2>f
    <2>h. Hashes(kept') \cup Hashes(rest') \subseteq nrr'.hashes
      BY <2>a, <2>b, <2>f
    <2>i. Once'
      BY <2>a DEF Once, Distinct, Hashes
    <2> QED
      BY <2>a, <2>b, <2>d, <2>f, <2>g, <2>h, <2>i, EmptyList DEF Opening, Registered
  <1>f. CASE AllLoaded
    <2>a. /\ stage' = "Run" /\ rest' = kept /\ kept' = <<>> /\ stage = "Load" /\ ran = <<>>
          /\ UNCHANGED <<sortedHashes, nrr, ran>>
      BY <1>f DEF AllLoaded, Rewind, Registered
    <2>b. TypeOK'
      BY <2>a DEF TypeOK
    <2> QED
      BY <2>a, <2>b, EmptyList DEF Opening, Registered, Once
  <1>g. ASSUME NEW hasMain \in BOOLEAN, RunMain(hasMain) PROVE IInv'
    <2> DEFINE p == Head(rest)
    <2>a. /\ kept \in Seq(Plugin) /\ rest \in Seq(Plugin) /\ ran \in Seq(Plugin) /\ rest # <<>>
          /\ Distinct(kept) /\ Distinct(rest) /\ Hashes(kept) \cap Hashes(rest) = {}
          /\ Hashes(kept) \cup Hashes(rest) \subseteq nrr.hashes /\ nrr # NoNrr
          /\ Hashes(ran) \subseteq Hashes(kept)
          /\ stage = "Run" /\ UNCHANGED <<stage, sortedHashes, nrr>>
          /\ rest' = Tail(rest) /\ kept' = Append(kept, p)
          /\ ran' = ran \/ ran' = Append(ran, p)
      BY <1>g DEF RunMain, Registered, TypeOK, Keep
    <2>b. /\ p \in Plugin /\ Tail(rest) \in Seq(Plugin) /\ p.hash \in Hashes(rest)
          /\ Hashes(Tail(rest)) \subseteq Hashes(rest)
          /\ Distinct(Tail(rest)) /\ p.hash \notin Hashes(Tail(rest))
      BY <2>a, HeadAndTail
    <2>c. TypeOK'
      <3>a. Append(kept, p) \in Seq(Plugin) /\ Append(ran, p) \in Seq(Plugin)
        BY <2>a, <2>b
      <3>b. kept' \in Seq(Plugin) /\ rest' \in Seq(Plugin) /\ ran' \in Seq(Plugin)
        BY <2>a, <2>b, <3>a
      <3> QED
        BY <2>a, <3>b DEF TypeOK
    <2>d. p.hash \notin Hashes(kept) /\ p.hash \notin Hashes(ran)
      BY <2>a, <2>b
    <2>e. Distinct(kept') /\ Hashes(kept') = Hashes(kept) \cup {p.hash}
      BY <2>a, <2>b, <2>d, AppendDistinct, AppendHashes
    <2>f. Distinct(ran') /\ Hashes(ran') \subseteq Hashes(ran) \cup {p.hash}
      <3>a. CASE ran' = ran
        BY <3>a DEF Once
      <3>b. CASE ran' = Append(ran, p)
        BY <2>a, <2>b, <2>d, <3>b, AppendDistinct, AppendHashes DEF Once
      <3> QED
        BY <2>a, <3>a, <3>b
    <2>g. Hashes(kept') \cap Hashes(rest') = {}
      BY <2>a, <2>b, <2>e
    <2>h. /\ Hashes(kept') \cup Hashes(rest') \subseteq nrr'.hashes
          /\ Hashes(ran') \subseteq Hashes(kept') /\ Hashes(ran') \subseteq nrr'.hashes
      BY <2>a, <2>b, <2>e, <2>f
    <2>i. Once'
      BY <2>a, <2>f, <2>h DEF Once
    <2> QED
      BY <2>a, <2>b, <2>c, <2>e, <2>g, <2>h, <2>i DEF Opening, Registered
  <1>h. CASE AllRun
    BY <1>h DEF AllRun, TypeOK, Opening, Registered, Once, Distinct, Hashes
  <1> QED
    BY <1>0, <1>a, <1>b, <1>c, <1>d, <1>e, <1>f, <1>g, <1>h DEF PluginNext

LEMMA InvImplies == IInv => EachContentRunsOnce
  <1> SUFFICES ASSUME IInv PROVE EachContentRunsOnce
    OBVIOUS
  <1>a. ASSUME NEW i \in DOMAIN ran PROVE nrr # NoNrr /\ ran[i].hash \in nrr.hashes
    <2>a. ran[i].hash \in Hashes(ran)
      BY <1>a DEF Hashes
    <2> QED
      BY <2>a DEF IInv, Once
  <1> QED
    BY <1>a DEF IInv, Once, Distinct, EachContentRunsOnce

\* Every main that is called belongs to a registered content of its own, and ro is
\* told the number of contents, for every directory.
THEOREM EachContentRunsOnceHolds == PluginSpec => []EachContentRunsOnce
  <1>a. PluginInit => IInv
    BY InvInit
  <1>b. IInv /\ [PluginNext]_pluginVars => IInv'
    BY InvNext
  <1>c. IInv => EachContentRunsOnce
    BY InvImplies
  <1> QED
    BY <1>a, <1>b, <1>c, PTL DEF PluginSpec

----
(* Files and tables: once booted, the tables are those of the override file and the
   callbacks stand in the order in which they answer. *)

LEMMA LargestNatural ==
  ASSUME NEW n \in Nat, NEW T, T \subseteq 0 .. n, T # {}
  PROVE  \E x \in T : \A y \in T : y <= x
  <1> DEFINE U == {n - x : x \in T}
  <1>a. U \subseteq Nat /\ U # {}
    <2>a. PICK x \in T : TRUE
      OBVIOUS
    <2>b. n - x \in U
      BY <2>a
    <2>c. \A y \in T : n - y \in Nat
      OBVIOUS
    <2> QED
      BY <2>b, <2>c
  <1>b. PICK u \in U : \A v \in U : u <= v
    BY <1>a, LeastNatural
  <1>c. PICK x \in T : u = n - x
    OBVIOUS
  <1>d. \A y \in T : n - x <= n - y
    BY <1>b, <1>c
  <1>e. ASSUME NEW y \in T PROVE y <= x
    <2>a. x \in Nat /\ y \in Nat /\ n - x <= n - y
      BY <1>d
    <2> QED
      BY <2>a
  <1> QED
    BY <1>e

LEMMA Remainder == ASSUME NEW m \in Nat \ {0}, NEW k \in Nat, k < m PROVE k % m = k
  OBVIOUS

LEMMA IdsAreMany == Ids \in Nat /\ Ids - 1 \in Nat /\ Ids > 1
  BY DEF Ids

\* The rows of a section are numbers of 16 bits, so one of them is the largest.
LEMMA MaxRowIsLargest ==
  ASSUME NEW section, DOMAIN section \subseteq 0 .. Ids - 1
  PROVE  /\ MaxRow(section) \in 0 .. Ids - 1
         /\ \A row \in DOMAIN section : row <= MaxRow(section)
  <1>a. CASE DOMAIN section = {}
    BY <1>a, IdsAreMany DEF MaxRow
  <1>b. CASE DOMAIN section # {}
    <2> DEFINE large(r) == \A other \in DOMAIN section : other <= r
    <2>a. \E r \in DOMAIN section : large(r)
      BY <1>b, IdsAreMany, LargestNatural
    <2>b. MaxRow(section) = CHOOSE r \in DOMAIN section : large(r)
      BY <1>b DEF MaxRow
    <2> HIDE DEF large
    <2>c. MaxRow(section) \in DOMAIN section /\ large(MaxRow(section))
      BY <2>a, <2>b, Zenon
    <2> QED
      BY <2>c DEF large
  <1> QED
    BY <1>a, <1>b

\* What was loaded, and who is registered to answer for it.
File == IF overrideFile = NoTable THEN Nothing ELSE overrideFile

Registrants ==
    CASE DOMAIN File # {} /\ msScrambleType # "Off" -> <<"Toml", "Randomizer">>
      [] DOMAIN File # {} /\ msScrambleType = "Off" -> <<"Toml">>
      [] DOMAIN File = {} /\ msScrambleType # "Off" -> <<"Randomizer">>
      [] DOMAIN File = {} /\ msScrambleType = "Off" -> <<>>

Loaded ==
    /\ overrideFile \in OverrideFiles \cup {NoTable}
    /\ configFile \in ConfigFiles \cup {NoTable}
    /\ msScrambleType \in {"Off", "ScrambleIndex", "ShowSheetName"}
    /\ IF booted
       THEN /\ TOMLTable = File
            /\ SheetMaxIDs = [sheet \in DOMAIN File |-> MaxRow(File[sheet])]
            /\ Callbacks = Registrants
            /\ config = IF configFile = NoTable THEN ResetConfig
                        ELSE InitializeFromTable(ResetConfig, configFile)
       ELSE /\ Callbacks = <<>> /\ msScrambleType = "Off"
            /\ TOMLTable = Nothing /\ SheetMaxIDs = Nothing

FilesInv ==
    /\ Loaded
    /\ dumps = [read \in Reads |-> dumps[read]] /\ DumpIsOriginal
    /\ overrides = [read \in Reads |-> overrides[read]]
    /\ ServedAsOnCard
    /\ ~booted => served = Nothing

LEMMA FileRows ==
  ASSUME Loaded
  PROVE  \A sheet \in DOMAIN File : DOMAIN File[sheet] \subseteq 0 .. Ids - 1
  <1>a. CASE overrideFile = NoTable
    <2>a. DOMAIN File = {}
      BY <1>a DEF File, Nothing
    <2> QED
      BY <2>a
  <1>b. CASE overrideFile # NoTable
    <2>a. File = overrideFile /\ overrideFile \in OverrideFiles
      BY <1>b DEF File, Loaded
    <2> QED
      BY <2>a, ReplacementAssumption, Zenon
  <1> QED
    BY <1>a, <1>b

LEMMA ErasedFromNone == ASSUME NEW c, Callbacks = <<>> PROVE Erased(c) = <<>>
  BY DEF Erased

LEMMA ErasedRandomizer ==
  /\ Callbacks = <<"Toml">> => Erased("Randomizer") = <<"Toml">>
  /\ Callbacks = <<"Randomizer">> => Erased("Randomizer") = <<>>
  /\ Callbacks = <<"Toml", "Randomizer">> => Erased("Randomizer") = <<"Toml">>
  <1>a. CASE Callbacks = <<"Toml">>
    BY <1>a DEF Erased
  <1>b. CASE Callbacks = <<"Randomizer">>
    <2>a. {i \in DOMAIN Callbacks : Callbacks[i] = "Randomizer"} = {1}
      BY <1>b
    <2>b. Erased("Randomizer") = SubSeq(Callbacks, 1, 0) \o SubSeq(Callbacks, 2, 1)
      BY <1>b, <2>a DEF Erased
    <2> QED
      BY <1>b, <2>b
  <1>c. CASE Callbacks = <<"Toml", "Randomizer">>
    <2>a. {i \in DOMAIN Callbacks : Callbacks[i] = "Randomizer"} = {2}
      BY <1>c
    <2>b. Erased("Randomizer") = SubSeq(Callbacks, 1, 1) \o SubSeq(Callbacks, 3, 2)
      BY <1>c, <2>a DEF Erased
    <2> QED
      BY <1>c, <2>b
  <1> QED
    BY <1>a, <1>b, <1>c

LEMMA RegisteredOnce ==
  /\ RegisterCallback(<<>>, "Toml") = <<"Toml">>
  /\ RegisterCallback(<<>>, "Randomizer") = <<"Randomizer">>
  /\ RegisterCallback(<<"Toml">>, "Randomizer") = <<"Toml", "Randomizer">>
  /\ RegisterCallback(<<"Randomizer">>, "Randomizer") = <<"Randomizer">>
  /\ RegisterCallback(<<"Toml", "Randomizer">>, "Randomizer") = <<"Toml", "Randomizer">>
  <1>a. RegisterCallback(<<>>, "Toml") = <<"Toml">>
        /\ RegisterCallback(<<>>, "Randomizer") = <<"Randomizer">>
    BY DEF RegisterCallback
  <1>b. RegisterCallback(<<"Toml">>, "Randomizer") = <<"Toml", "Randomizer">>
    <2> DEFINE one == <<"Toml">>
    <2>a. DOMAIN one = 1 .. 1 /\ one[1] = "Toml"
      OBVIOUS
    <2>b. Append(one, "Randomizer") = <<"Toml", "Randomizer">>
      <3>a. one \in Seq({"Toml", "Randomizer"})
        OBVIOUS
      <3>b. Append(one, "Randomizer") = [i \in 1 .. 2 |-> IF i = 1 THEN "Toml" ELSE "Randomizer"]
        BY <3>a
      <3>c. <<"Toml", "Randomizer">> = [i \in 1 .. 2 |-> IF i = 1 THEN "Toml" ELSE "Randomizer"]
        OBVIOUS
      <3> QED
        BY <3>b, <3>c, Zenon
    <2> HIDE DEF one
    <2>c. ~ \E i \in DOMAIN one : one[i] = "Randomizer"
      BY <2>a
    <2>d. RegisterCallback(one, "Randomizer") = Append(one, "Randomizer")
      BY <2>c DEF RegisterCallback
    <2> QED
      BY <2>b, <2>d DEF one
  <1>c. RegisterCallback(<<"Randomizer">>, "Randomizer") = <<"Randomizer">>
    BY DEF RegisterCallback
  <1>d. RegisterCallback(<<"Toml", "Randomizer">>, "Randomizer") = <<"Toml", "Randomizer">>
    <2> DEFINE both == <<"Toml", "Randomizer">>
    <2>a. 2 \in DOMAIN both /\ both[2] = "Randomizer"
      OBVIOUS
    <2> HIDE DEF both
    <2>b. \E i \in DOMAIN both : both[i] = "Randomizer"
      BY <2>a
    <2>c. RegisterCallback(both, "Randomizer") = both
      BY <2>b DEF RegisterCallback
    <2> QED
      BY <2>c DEF both
  <1> QED
    BY <1>a, <1>b, <1>c, <1>d

LEMMA FilesInit == ReplacementInit => FilesInv
  <1> SUFFICES ASSUME ReplacementInit PROVE FilesInv
    OBVIOUS
  <1>a. Loaded
    BY DEF ReplacementInit, Loaded
  <1>b. dumps = [read \in Reads |-> dumps[read]] /\ DumpIsOriginal
    BY DEF ReplacementInit, DumpIsOriginal
  <1>c. overrides = [read \in Reads |-> overrides[read]]
    BY DEF ReplacementInit
  <1>d. ServedAsOnCard /\ served = Nothing
    BY DEF ReplacementInit, ServedAsOnCard
  <1> QED
    BY <1>a, <1>b, <1>c, <1>d DEF FilesInv

LEMMA MountKeeps == ASSUME FilesInv, RomMounted PROVE FilesInv'
  <1>a. Loaded'
    <2>a. File' = File /\ UNCHANGED <<overrideFile, configFile, msScrambleType>>
      BY DEF RomMounted, cardVars, File, Nothing
    <2>b. ~booted /\ booted' = TRUE /\ Callbacks = <<>> /\ msScrambleType = "Off"
      BY DEF RomMounted, FilesInv, Loaded
    <2>c. Erased("Toml") = <<>>
      BY <2>b, ErasedFromNone
    <2>d. CASE overrideFile = NoTable
      <3>a. File = Nothing /\ DOMAIN File = {}
        BY <2>d DEF File, Nothing
      <3>b. /\ SheetMaxIDs' = Nothing /\ TOMLTable' = Nothing /\ Callbacks' = <<>>
        BY <2>c, <2>d DEF RomMounted, LoadFromFile
      <3>c. Nothing = [sheet \in DOMAIN File |-> MaxRow(File[sheet])]
        BY <3>a DEF Nothing
      <3>d. Registrants' = <<>>
        BY <2>a, <2>b, <3>a DEF Registrants
      <3>e. config' = IF configFile = NoTable THEN ResetConfig
                      ELSE InitializeFromTable(ResetConfig, configFile)
        BY DEF RomMounted, LoadConfig
      <3> QED
        BY <2>a, <2>b, <3>a, <3>b, <3>c, <3>d, <3>e DEF Loaded, FilesInv
    <2>e. CASE overrideFile # NoTable
      <3>a. File = overrideFile
        BY <2>e DEF File
      <3>b. /\ SheetMaxIDs' = [sheet \in DOMAIN File |-> MaxRow(File[sheet])]
            /\ TOMLTable' = File
            /\ Callbacks' = IF DOMAIN File = {} THEN <<>> ELSE <<"Toml">>
        BY <2>c, <2>e, <3>a, RegisteredOnce DEF RomMounted, LoadFromFile
      <3>d. Registrants' = IF DOMAIN File = {} THEN <<>> ELSE <<"Toml">>
        BY <2>a, <2>b DEF Registrants
      <3>e. config' = IF configFile = NoTable THEN ResetConfig
                      ELSE InitializeFromTable(ResetConfig, configFile)
        BY DEF RomMounted, LoadConfig
      <3> QED
        BY <2>a, <2>b, <3>b, <3>d, <3>e DEF Loaded, FilesInv
    <2> QED
      BY <2>d, <2>e
  <1>b. UNCHANGED <<dumps, overrides, served>> /\ booted' /\ served = Nothing
    BY DEF RomMounted, cardVars, FilesInv
  <1> QED
    BY <1>a, <1>b DEF FilesInv, DumpIsOriginal, ServedAsOnCard, GameData, Nothing

LEMMA ScrambleKeeps ==
  ASSUME FilesInv, NEW type \in {"Off", "ScrambleIndex", "ShowSheetName"},
         ChooseScrambleType(type)
  PROVE  FilesInv'
  <1>a. /\ File' = File /\ booted /\ booted'
        /\ UNCHANGED <<overrideFile, configFile, TOMLTable, SheetMaxIDs, config, dumps,
                       overrides, served>>
        /\ type # msScrambleType /\ msScrambleType' = type
    BY DEF ChooseScrambleType, cardVars, File
  <1>b. Callbacks = Registrants
    BY <1>a DEF FilesInv, Loaded
  <1>c. Callbacks' = Registrants'
    <2>a. CASE type = "Off"
      <3>a. Callbacks' = Erased("Randomizer") /\ msScrambleType # "Off"
        BY <1>a, <2>a DEF ChooseScrambleType
      <3>b. CASE DOMAIN File = {}
        BY <1>a, <1>b, <2>a, <3>a, <3>b, ErasedRandomizer DEF Registrants
      <3>c. CASE DOMAIN File # {}
        BY <1>a, <1>b, <2>a, <3>a, <3>c, ErasedRandomizer DEF Registrants
      <3> QED
        BY <3>b, <3>c
    <2>b. CASE type # "Off"
      <3>a. Callbacks' = RegisterCallback(Callbacks, "Randomizer")
        BY <2>b DEF ChooseScrambleType
      <3>b. CASE DOMAIN File = {}
        <4>a. Callbacks \in {<<>>, <<"Randomizer">>} /\ Registrants' = <<"Randomizer">>
          BY <1>a, <1>b, <2>b, <3>b DEF Registrants
        <4> QED
          BY <3>a, <4>a, RegisteredOnce
      <3>c. CASE DOMAIN File # {}
        <4>a. Callbacks \in {<<"Toml">>, <<"Toml", "Randomizer">>}
              /\ Registrants' = <<"Toml", "Randomizer">>
          BY <1>a, <1>b, <2>b, <3>c DEF Registrants
        <4> QED
          BY <3>a, <4>a, RegisteredOnce
      <3> QED
        BY <3>b, <3>c
    <2> QED
      BY <2>a, <2>b
  <1> QED
    BY <1>a, <1>c DEF FilesInv, Loaded, DumpIsOriginal, ServedAsOnCard, GameData

LEMMA ReadKeeps ==
  ASSUME FilesInv, NEW read \in Reads, NEW fullyLoaded \in BOOLEAN, ReadFile(read, fullyLoaded)
  PROVE  FilesInv'
  <1>a. Loaded'
    <2>a. UNCHANGED <<config, booted, tableVars, msScrambleType, cardVars>>
      BY DEF ReadFile
    <2> QED
      BY <2>a DEF FilesInv, Loaded, File, Registrants, tableVars, cardVars
  <1>b. dumps' = dumps \/ \E dump \in {dumps[read], NoDump, Blank, GameData(read)} :
           dumps' = [dumps EXCEPT ![read] = dump]
    BY DEF ReadFile, FileDetourImpl, DumpToFilesystem
  <1>c. dumps' = [r \in Reads |-> dumps'[r]] /\ DumpIsOriginal'
    BY <1>b DEF FilesInv, DumpIsOriginal, GameData
  <1>d. UNCHANGED <<config, overrides, booted>> /\ booted
    BY DEF ReadFile, cardVars
  <1>e. ServedAsOnCard'
    <2>a. CASE served' = Nothing
      BY <2>a DEF ServedAsOnCard, Nothing
    <2>b. CASE served' = GameData(read)
      <3>a. served'.of = read
        BY <2>b DEF GameData
      <3>b. served' = GameData(served'.of)
        BY <2>b, <3>a
      <3> QED
        BY <3>b DEF ServedAsOnCard
    <2>c. CASE /\ config["enableFileOverrides"] /\ overrides[read] # "None"
               /\ served' = OverrideData(read)
      <3>a. /\ served'.of = read /\ served'.start = "Override"
            /\ served'.end = IF overrides[read] = "Shorter" THEN "Game" ELSE "Override"
            /\ served'.after = IF overrides[read] = "Longer" THEN "Override" ELSE "Kept"
        BY <2>c DEF OverrideData
      <3>b. /\ served'.end = "Game" <=> overrides[read] = "Shorter"
            /\ served'.after = "Override" <=> overrides[read] = "Longer"
        BY <3>a
      <3> QED
        BY <1>d, <2>c, <3>a, <3>b DEF ServedAsOnCard
    <2> QED
      BY <2>a, <2>b, <2>c DEF ReadFile, FileDetourImpl, LoadFromFilesystem
  <1> QED
    BY <1>a, <1>c, <1>d, <1>e DEF FilesInv

LEMMA FilesStep == FilesInv /\ [ReplacementNext]_replacementVars => FilesInv'
  <1> SUFFICES ASSUME FilesInv, [ReplacementNext]_replacementVars PROVE FilesInv'
    OBVIOUS
  <1>a. CASE RomMounted
    BY <1>a, MountKeeps
  <1>b. CASE \E type \in {"Off", "ScrambleIndex", "ShowSheetName"} : ChooseScrambleType(type)
    BY <1>b, ScrambleKeeps
  <1>c. CASE \E read \in Reads, fullyLoaded \in BOOLEAN : ReadFile(read, fullyLoaded)
    BY <1>c, ReadKeeps
  <1>d. CASE UNCHANGED replacementVars
    BY <1>d DEF replacementVars, tableVars, cardVars, FilesInv, Loaded, File, Registrants,
       DumpIsOriginal, ServedAsOnCard, GameData, Nothing
  <1> QED
    BY <1>a, <1>b, <1>c, <1>d DEF ReplacementNext

----
\* The settings.

LEMMA WholeListIsRead ==
  ASSUME NEW list, ~load_failed(list)
  PROVE  FirstElements(list) = list
  <1>a. {i \in DOMAIN list : list[i] = WrongType} = {}
    BY DEF load_failed
  <1> QED
    BY <1>a DEF FirstElements

LEMMA SettingsFollowSections == FilesInv => SectionOverridesFile
  <1> SUFFICES ASSUME FilesInv, booted, configFile # NoTable PROVE SectionOverridesFile
    BY DEF SectionOverridesFile
  <1> DEFINE global == InitializeFrom(Default, configFile.global, TRUE)
             game == configFile.game
             Sections(x) == IF game = NoTable THEN {} ELSE {game[x]}
             usable(x) == is_array(configFile.global[x]) /\ ~load_failed(configFile.global[x])
  <1>a. config = IF game = NoTable THEN global ELSE InitializeFrom(global, game, FALSE)
    BY DEF FilesInv, Loaded, InitializeFromTable, ResetConfig
  <1>b. ASSUME NEW x \in Scalars
        PROVE  config[x] = IF \E node \in Sections(x) : HasNode(node)
                           THEN value_or(game[x], Default[x])
                           ELSE value_or(configFile.global[x], Default[x])
    <2>a. global[x] = value_or(configFile.global[x], Default[x])
      BY DEF InitializeFrom, ScalarFrom
    <2> HIDE DEF global, game
    <2>b. CASE game = NoTable
      BY <1>a, <2>a, <2>b
    <2>c. CASE game # NoTable
      <3>a. config[x] = ScalarFrom(global[x], game[x], Default[x], FALSE)
        BY <1>a, <2>c DEF InitializeFrom
      <3> QED
        BY <2>a, <2>c, <3>a DEF ScalarFrom
    <2> QED
      BY <2>b, <2>c
  <1>c. ASSUME NEW x \in Lists
        PROVE  config[x] = IF \E node \in Sections(x) : is_array(node)
                           THEN FirstElements(game[x])
                           ELSE IF usable(x) THEN configFile.global[x] ELSE Default[x]
    <2>u. x \notin Scalars
      BY ReplacementAssumption
    <2>a. global[x] = IF usable(x) THEN configFile.global[x] ELSE Default[x]
      <3>a. global[x] = ListFrom(Default[x], configFile.global[x], Default[x], TRUE)
        BY <2>u DEF InitializeFrom
      <3> HIDE DEF global
      <3> QED
        BY <3>a, WholeListIsRead DEF ListFrom
    <2> HIDE DEF global, game, usable
    <2>b. CASE game = NoTable
      BY <1>a, <2>a, <2>b
    <2>c. CASE game # NoTable
      <3>a. config[x] = ListFrom(global[x], game[x], Default[x], FALSE)
        BY <1>a, <2>u, <2>c DEF InitializeFrom
      <3> QED
        BY <2>a, <2>c, <3>a DEF ListFrom
    <2> QED
      BY <2>b, <2>c
  <1> QED
    BY <1>b, <1>c, Zenon DEF SectionOverridesFile

----
\* The tables.

Access(sheet, member, row, data, ignore) ==
    [sheet |-> sheet, member |-> member, row |-> row, data |-> data, ignoreEmptyData |-> ignore]

LEMMA AccessFields ==
  ASSUME NEW s, NEW m, NEW r, NEW d, NEW b
  PROVE  /\ Access(s, m, r, d, b).sheet = s /\ Access(s, m, r, d, b).member = m
         /\ Access(s, m, r, d, b).row = r /\ Access(s, m, r, d, b).data = d
         /\ Access(s, m, r, d, b).ignoreEmptyData = b
  BY DEF Access

LEMMA AccessMoved ==
  ASSUME NEW s, NEW m, NEW r, NEW d, NEW b, NEW e
  PROVE  [Access(s, m, r, d, b) EXCEPT !.row = e] = Access(s, m, e, d, b)
  BY DEF Access

\* What the file says of a row, which the callback answers or moves.
Named(sheet, idx) == sheet \in DOMAIN File /\ idx \in DOMAIN File[sheet]
Given(sheet, member, idx) == Named(sheet, idx) /\ member \in DOMAIN File[sheet][idx].values
RowFor(sheet, idx) ==
    IF Named(sheet, idx) /\ File[sheet][idx].fb # NoFallback THEN File[sheet][idx].fb ELSE idx

LEMMA WordGoesOn == Word(0) # Ended
  BY DEF Word, Ended

LEMMA TomlAnswers ==
  ASSUME Loaded, booted, NEW sheet, NEW member, NEW idx, NEW mtRand
  PROVE  Run("Toml", Access(sheet, member, idx, Word(0), FALSE), mtRand)
           = IF Given(sheet, member, idx)
             THEN Access(sheet, member, RowFor(sheet, idx),
                         Converted(Kind[member], File[sheet][idx].values[member]), TRUE)
             ELSE Access(sheet, member, RowFor(sheet, idx), Word(0), FALSE)
  <1> DEFINE access == Access(sheet, member, idx, Word(0), FALSE)
             row == File[sheet][idx]
  <1>a. access.sheet = sheet /\ access.member = member /\ access.row = idx
    BY DEF Access
  <1>b. TOMLTable = File /\ DOMAIN SheetMaxIDs = DOMAIN File
    BY DEF Loaded
  <1>c. Run("Toml", access, mtRand) =
           IF sheet \in DOMAIN File THEN TomlOverride(access) ELSE access
    <2>a. access.data = Word(0)
      BY DEF Access
    <2> HIDE DEF access
    <2> QED
      BY <1>a, <1>b, <2>a, WordGoesOn DEF Run, TomlApplies
  <1> HIDE DEF access
  <1>d. CASE ~Named(sheet, idx)
    <2>a. Run("Toml", access, mtRand) = access
      BY <1>a, <1>b, <1>c, <1>d DEF Named, TomlOverride
    <2> QED
      BY <1>d, <2>a DEF Given, RowFor, access
  <1>e. CASE Named(sheet, idx)
    <2> DEFINE moved == IF row.fb = NoFallback THEN access ELSE [access EXCEPT !.row = row.fb]
    <2>a. Run("Toml", access, mtRand) =
             IF member \in DOMAIN row.values
             THEN [moved EXCEPT !.data = Converted(Kind[member], row.values[member]),
                                !.ignoreEmptyData = TRUE]
             ELSE moved
      BY <1>a, <1>b, <1>c, <1>e DEF Named, TomlOverride
    <2>b. moved = Access(sheet, member, RowFor(sheet, idx), Word(0), FALSE)
      <3>a. [access EXCEPT !.row = row.fb] = Access(sheet, member, row.fb, Word(0), FALSE)
        <4> DEFINE no == FALSE
                   zero == Word(0)
                   fb == row.fb
        <4> HIDE DEF no, zero, fb
        <4>a. [Access(sheet, member, idx, zero, no) EXCEPT !.row = fb]
                 = Access(sheet, member, fb, zero, no)
          BY AccessMoved
        <4> QED
          BY <4>a DEF no, zero, fb, access
      <3> QED
        BY <1>e, <3>a, Zenon DEF RowFor, access
    <2>c. Given(sheet, member, idx) <=> member \in DOMAIN row.values
      BY <1>e DEF Given
    <2> HIDE DEF moved, row
    <2> QED
      <3>a. CASE Given(sheet, member, idx)
        <4> DEFINE value == Converted(Kind[member], row.values[member])
                   r == RowFor(sheet, idx)
                   zero == Word(0)
        <4>a. [Access(sheet, member, r, zero, FALSE) EXCEPT !.data = value, !.ignoreEmptyData = TRUE]
                 = Access(sheet, member, r, value, TRUE)
          <5> DEFINE no == FALSE
                     yes == TRUE
          <5> HIDE DEF value, r, zero, no, yes
          <5>a. [Access(sheet, member, r, zero, no) EXCEPT !.data = value]
                   = Access(sheet, member, r, value, no)
            BY DEF Access
          <5>b. [Access(sheet, member, r, value, no) EXCEPT !.ignoreEmptyData = yes]
                   = Access(sheet, member, r, value, yes)
            BY DEF Access
          <5>c. [Access(sheet, member, r, zero, no) EXCEPT !.data = value, !.ignoreEmptyData = yes]
                   = [[Access(sheet, member, r, zero, no) EXCEPT !.data = value]
                         EXCEPT !.ignoreEmptyData = yes]
            BY Zenon
          <5> QED
            BY <5>a, <5>b, <5>c, Zenon DEF no, yes
        <4>b. Run("Toml", access, mtRand) = Access(sheet, member, r, value, TRUE)
          <5> HIDE DEF value
          <5> QED
            BY <2>a, <2>b, <2>c, <3>a, <4>a DEF value
        <4> QED
          BY <3>a, <4>b DEF row, access
      <3>b. CASE ~Given(sheet, member, idx)
        <4>a. Run("Toml", access, mtRand) = moved
          BY <2>a, <2>c, <3>b
        <4> QED
          BY <2>b, <3>b, <4>a DEF access
      <3> QED
        BY <3>a, <3>b
  <1> QED
    BY <1>d, <1>e

\* Whoever is scrambled is answered by the randomizer, unless a value is given; it
\* leaves others alone.
LEMMA RandomizerAnswers ==
  ASSUME Loaded, NEW sheet, NEW member, NEW r, NEW d, NEW b, NEW mtRand
  PROVE  LET a == Access(sheet, member, r, d, b)
             out == Run("Randomizer", a, mtRand)
         IN /\ ~(msScrambleType # "Off" /\ sheet \in MessageSheets /\ member = NameMember)
                  => out = a
            /\ msScrambleType # "ShowSheetName" => out.data = d /\ out.ignoreEmptyData = b
            /\ d = Ended => out = a
  <1> DEFINE a == Access(sheet, member, r, d, b)
             out == Run("Randomizer", a, mtRand)
  <1>a. a.sheet = sheet /\ a.member = member /\ a.data = d /\ a.ignoreEmptyData = b
    BY AccessFields
  <1>b. ~(msScrambleType # "Off" /\ sheet \in MessageSheets /\ member = NameMember) => out = a
    BY <1>a DEF Run, RandomizerApplies
  <1>d. d = Ended => out = a
    BY <1>a DEF Run
  <1>c. ASSUME msScrambleType # "ShowSheetName", d # Ended
        PROVE  out.data = d /\ out.ignoreEmptyData = b
    <2>a. CASE RandomizerApplies(a)
      <3>a. msScrambleType = "ScrambleIndex"
        BY <1>c, <2>a DEF RandomizerApplies, Loaded
      <3>b. PICK e : out = [a EXCEPT !.row = e]
        BY <1>a, <1>c, <2>a, <3>a DEF Run, RandomizerOverride
      <3>c. out = Access(sheet, member, e, d, b)
        BY <3>b, AccessMoved
      <3> QED
        BY <3>c DEF Access
    <2>b. CASE ~RandomizerApplies(a)
      BY <1>a, <2>b DEF Run
    <2> QED
      BY <2>a, <2>b
  <1> QED
    BY <1>a, <1>b, <1>c, <1>d

\* What the hook of getVal makes of what the callbacks left.
LEMMA LastAccess ==
  ASSUME Loaded, booted, Callbacks # <<>>, NEW sheet, NEW member, NEW idx, idx = Row(idx),
         NEW mtRand
  PROVE  \E access :
            /\ Skips(sheet) => access = Access(sheet, member, idx, Word(0), FALSE)
            /\ ~Skips(sheet) => access = RunAll(Access(sheet, member, idx, Word(0), FALSE), mtRand)
            /\ getVal(sheet, member, idx, mtRand) =
                  IF access.ignoreEmptyData \/ access.data # Word(0) THEN access.data
                  ELSE Orig(sheet, member, access.row)
  <1> DEFINE first == Access(sheet, member, idx, Word(0), FALSE)
             access == IF Skips(sheet) THEN first ELSE RunAll(first, mtRand)
  <1>a. process(sheet, member, idx, mtRand) = access
    BY DEF process, Access
  <1>b. getVal(sheet, member, idx, mtRand) =
           IF access.ignoreEmptyData \/ access.data # Word(0) THEN access.data
           ELSE Orig(sheet, member, access.row)
    <2> HIDE DEF access
    <2> QED
      BY <1>a DEF getVal
  <1>c. (Skips(sheet) => access = first) /\ (~Skips(sheet) => access = RunAll(first, mtRand))
    OBVIOUS
  <1> HIDE DEF access
  <1> QED
    BY <1>b, <1>c

\* Where the callbacks leave an access: the file's first, then the randomizer's.
LEMMA CallbacksInOrder ==
  ASSUME Loaded, booted, NEW access, NEW mtRand
  PROVE  LET second == IF DOMAIN File # {} THEN Run("Toml", access, mtRand) ELSE access
         IN RunAll(access, mtRand) =
               IF msScrambleType # "Off" THEN Run("Randomizer", second, mtRand) ELSE second
  <1>a. Callbacks = Registrants
    BY DEF Loaded
  <1>b. CASE DOMAIN File # {} /\ msScrambleType # "Off"
    BY <1>a, <1>b DEF Registrants, RunAll
  <1>c. CASE DOMAIN File # {} /\ msScrambleType = "Off"
    BY <1>a, <1>c DEF Registrants, RunAll
  <1>d. CASE DOMAIN File = {} /\ msScrambleType # "Off"
    BY <1>a, <1>d DEF Registrants, RunAll
  <1>e. CASE DOMAIN File = {} /\ msScrambleType = "Off"
    BY <1>a, <1>e DEF Registrants, RunAll
  <1> QED
    BY <1>b, <1>c, <1>d, <1>e

LEMMA Answers ==
  ASSUME Loaded, booted, NEW sheet, NEW member, NEW idx, idx = Row(idx), NEW mtRand
  PROVE  LET scrambled == /\ ~Skips(sheet) /\ msScrambleType # "Off"
                          /\ sheet \in MessageSheets /\ member = NameMember
             answer == getVal(sheet, member, idx, mtRand)
         IN /\ ~Skips(sheet) /\ Given(sheet, member, idx)
                  /\ ~(scrambled /\ msScrambleType = "ShowSheetName")
               => answer = Converted(Kind[member], File[sheet][idx].values[member])
            /\ ~Skips(sheet) /\ Given(sheet, member, idx)
                  /\ ~Fitting(Kind[member], File[sheet][idx].values[member])
               => answer = Ended
            /\ ~(~Skips(sheet) /\ Given(sheet, member, idx)) /\ ~scrambled
               => answer = Orig(sheet, member, IF Skips(sheet) THEN idx ELSE RowFor(sheet, idx))
  <1> DEFINE scrambled == /\ ~Skips(sheet) /\ msScrambleType # "Off"
                          /\ sheet \in MessageSheets /\ member = NameMember
             answer == getVal(sheet, member, idx, mtRand)
             first == Access(sheet, member, idx, Word(0), FALSE)
             second == IF DOMAIN File # {} THEN Run("Toml", first, mtRand) ELSE first
             value == Converted(Kind[member], File[sheet][idx].values[member])
             row == RowFor(sheet, idx)
             given == Given(sheet, member, idx)
  <1>a. CASE Callbacks = <<>>
    <2>a. DOMAIN File = {} /\ msScrambleType = "Off"
      BY <1>a DEF Loaded, Registrants
    <2>b. ~Named(sheet, idx) /\ ~given /\ row = idx
      BY <2>a DEF Named, Given, RowFor
    <2>c. answer = Orig(sheet, member, idx)
      BY <1>a DEF getVal
    <2> QED
      BY <2>b, <2>c
  <1>b. CASE Callbacks # <<>>
    <2>a. PICK access :
            /\ Skips(sheet) => access = first
            /\ ~Skips(sheet) => access = RunAll(first, mtRand)
            /\ answer = IF access.ignoreEmptyData \/ access.data # Word(0) THEN access.data
                        ELSE Orig(sheet, member, access.row)
      BY <1>b, LastAccess
    <2>b. CASE Skips(sheet)
      <3>a. access.row = idx /\ access.data = Word(0) /\ ~access.ignoreEmptyData
        BY <2>a, <2>b DEF Access
      <3>b. answer = Orig(sheet, member, idx)
        <4> HIDE DEF answer
        <4> QED
          BY <2>a, <3>a
      <3> QED
        BY <2>b, <3>b
    <2>c. CASE ~Skips(sheet) /\ given
      <3>a. second = Access(sheet, member, row, value, TRUE)
        <4>a. DOMAIN File # {}
          BY <2>c DEF Given, Named
        <4> QED
          BY <2>c, <4>a, TomlAnswers
      <3>b. ASSUME ~(scrambled /\ msScrambleType = "ShowSheetName")
            PROVE  access.data = value /\ access.ignoreEmptyData
        <4> DEFINE yes == TRUE
                   out == Run("Randomizer", second, mtRand)
        <4>a. access = IF msScrambleType # "Off" THEN out ELSE second
          <5> HIDE DEF first
          <5> QED
            BY <2>a, <2>c, CallbacksInOrder DEF first
        <4>b. second.data = value /\ second.ignoreEmptyData = TRUE
          <5> HIDE DEF value, row, second
          <5> QED
            BY <3>a DEF Access
        <4>c. second = Access(sheet, member, row, value, yes)
          BY <3>a
        <4> HIDE DEF second, yes, out, value, row
        <4>d. msScrambleType # "ShowSheetName" => out.data = value /\ out.ignoreEmptyData = yes
          BY <4>c, RandomizerAnswers DEF out
        <4>e. ~scrambled => out = second
          BY <2>c, <4>c, RandomizerAnswers DEF out
        <4>f. yes = TRUE
          BY DEF yes
        <4> QED
          BY <3>b, <4>a, <4>b, <4>d, <4>e, <4>f
      <3>c. ASSUME ~(scrambled /\ msScrambleType = "ShowSheetName") PROVE answer = value
        <4> HIDE DEF answer, value, scrambled
        <4> QED
          BY <2>a, <3>b, <3>c
      <3>d. ASSUME ~Fitting(Kind[member], File[sheet][idx].values[member])
            PROVE  answer = Ended
        <4> DEFINE yes == TRUE
                   out == Run("Randomizer", second, mtRand)
        <4>u. value = Ended
          BY <3>d DEF Converted
        <4>a. access = IF msScrambleType # "Off" THEN out ELSE second
          <5> HIDE DEF first
          <5> QED
            BY <2>a, <2>c, CallbacksInOrder DEF first
        <4>b. second = Access(sheet, member, row, value, yes)
          BY <3>a
        <4> HIDE DEF second, yes, out, value, row
        <4>c. out = second
          BY <4>u, <4>b, RandomizerAnswers DEF out
        <4>d. access.data = Ended /\ access.ignoreEmptyData = yes
          BY <4>a, <4>b, <4>c, <4>u DEF Access
        <4> HIDE DEF answer
        <4> QED
          BY <2>a, <4>d, WordGoesOn
      <3> QED
        BY <2>c, <3>c, <3>d
    <2>d. CASE ~Skips(sheet) /\ ~given
      <3>a. second = Access(sheet, member, row, Word(0), FALSE)
        <4>a. CASE DOMAIN File # {}
          BY <2>d, <4>a, TomlAnswers
        <4>b. CASE DOMAIN File = {}
          BY <4>b DEF Named, RowFor
        <4> QED
          BY <4>a, <4>b
      <3>b. ASSUME ~scrambled PROVE answer = Orig(sheet, member, row)
        <4> DEFINE no == FALSE
                   zero == Word(0)
                   out == Run("Randomizer", second, mtRand)
        <4>a. access = IF msScrambleType # "Off" THEN out ELSE second
          <5> HIDE DEF first
          <5> QED
            BY <2>a, <2>d, CallbacksInOrder DEF first
        <4>b. second = Access(sheet, member, row, zero, no)
          BY <3>a
        <4> HIDE DEF second, no, out, row, zero
        <4>c. out = second
          BY <2>d, <3>b, <4>b, RandomizerAnswers DEF out
        <4>d. access.row = row /\ access.data = zero /\ access.ignoreEmptyData = no
          BY <4>a, <4>b, <4>c DEF Access
        <4>e. no = FALSE /\ zero = Word(0)
          BY DEF no, zero
        <4> HIDE DEF answer
        <4> QED
          BY <2>a, <4>d, <4>e
      <3>c. ~scrambled => answer = Orig(sheet, member, IF Skips(sheet) THEN idx ELSE row)
        <4> HIDE DEF answer, row, scrambled
        <4> QED
          BY <2>d, <3>b
      <3> QED
        BY <2>d, <3>c, Zenon
    <2> QED
      BY <2>b, <2>c, <2>d
  <1> QED
    BY <1>a, <1>b

LEMMA SheetEnds ==
  ASSUME FilesInv, booted, NEW sheet \in Sheets
  PROVE  /\ IdTop[sheet] \in Nat /\ IdCount[sheet] \in Nat \ {0}
         /\ IdTop[sheet] + IdCount[sheet] <= Ids
         /\ DOMAIN SheetMaxIDs = DOMAIN File
         /\ sheet \in DOMAIN SheetMaxIDs => SheetMaxIDs[sheet] \in 0 .. Ids - 1
         /\ IDEnd(sheet) \in 0 .. Ids - 1
  <1>a. /\ IdTop[sheet] \in Nat /\ IdCount[sheet] \in Nat \ {0}
        /\ IdTop[sheet] + IdCount[sheet] <= Ids
    BY ReplacementAssumption
  <1>b. DOMAIN SheetMaxIDs = DOMAIN File
    BY DEF FilesInv, Loaded
  <1>c. ASSUME sheet \in DOMAIN SheetMaxIDs PROVE SheetMaxIDs[sheet] \in 0 .. Ids - 1
    <2>a. SheetMaxIDs[sheet] = MaxRow(File[sheet])
      BY <1>b, <1>c DEF FilesInv, Loaded
    <2>b. DOMAIN File[sheet] \subseteq 0 .. Ids - 1
      BY <1>b, <1>c, FileRows DEF FilesInv
    <2> QED
      BY <2>a, <2>b, MaxRowIsLargest
  <1>d. IDEnd(sheet) \in 0 .. Ids - 1
    BY <1>a, <1>c, IdsAreMany DEF IDEnd
  <1> QED
    BY <1>a, <1>b, <1>c, <1>d

LEMMA TablesFollow == FilesInv => TablesFollowFile
  <1> SUFFICES ASSUME FilesInv, booted PROVE TablesFollowFile
    BY DEF TablesFollowFile
  <1> SUFFICES ASSUME NEW sheet \in Sheets, NEW member \in Members,
                      NEW idx \in IdTop[sheet] .. IDEnd(sheet), NEW mtRand \in Draws
               PROVE
                LET file == IF overrideFile = NoTable THEN Nothing ELSE overrideFile
                    skipped == Skips(sheet)
                    named == ~skipped /\ sheet \in DOMAIN file /\ idx \in DOMAIN file[sheet]
                    row == file[sheet][idx]
                    given == named /\ member \in DOMAIN row.values
                    scrambled == /\ ~skipped /\ msScrambleType # "Off"
                                 /\ sheet \in MessageSheets /\ member = NameMember
                    answer == getVal(sheet, member, idx, mtRand)
                IN /\ given /\ ~(scrambled /\ msScrambleType = "ShowSheetName")
                        => answer = Converted(Kind[member], row.values[member])
                   /\ given /\ ~Fitting(Kind[member], row.values[member]) => answer = Ended
                   /\ ~given /\ ~scrambled
                        => answer = Orig(sheet, member,
                               IF named /\ row.fb # NoFallback THEN row.fb ELSE idx)
    BY Zenon DEF TablesFollowFile
  <1>a. idx \in 0 .. Ids - 1
    <2>a. IdTop[sheet] \in Nat /\ IDEnd(sheet) \in 0 .. Ids - 1
      BY SheetEnds
    <2> QED
      BY <2>a, IdsAreMany
  <1>b. idx = Row(idx)
    BY <1>a, IdsAreMany, Remainder DEF Row
  <1>c. Loaded
    BY DEF FilesInv
  <1>d. File = IF overrideFile = NoTable THEN Nothing ELSE overrideFile
    BY DEF File
  <1> HIDE DEF File
  <1> QED
    BY <1>b, <1>c, <1>d, Answers DEF Given, Named, RowFor

LEMMA CountReaches == FilesInv => CountReachesEnd
  <1> SUFFICES ASSUME FilesInv, NEW sheet \in Sheets, sheet \in DOMAIN SheetMaxIDs
               PROVE
                 LET last == SheetMaxIDs[sheet]
                     below == IdTop[sheet] - 1 - last
                 IN IF below > 0
                    THEN /\ IDEnd(sheet) = IdTop[sheet] + IdCount[sheet] - 1
                         /\ IDCount(sheet) = Ids - below
                    ELSE IF -below = Ids
                    THEN IDEnd(sheet) = last /\ IDCount(sheet) = IdCount[sheet]
                    ELSE IdTop[sheet] + IDCount(sheet) - 1 = IDEnd(sheet)
    BY Zenon DEF CountReachesEnd
  <1> DEFINE last == SheetMaxIDs[sheet]
             below == IdTop[sheet] - 1 - last
  <1>a. booted
    BY DEF FilesInv, Loaded, Nothing
  <1>b. /\ IdTop[sheet] \in Nat /\ IdCount[sheet] \in Nat \ {0}
        /\ IdTop[sheet] + IdCount[sheet] <= Ids
        /\ last \in 0 .. Ids - 1
    BY <1>a, SheetEnds
  <1>c. IDCount(sheet) = LET maxId == (-below) % Ids
                         IN IF maxId > IdCount[sheet] THEN maxId ELSE IdCount[sheet]
    <2>a. SheetMaxIDs[sheet] - IdTop[sheet] + 1 = -below
      BY <1>b, IdsAreMany
    <2> QED
      BY <2>a DEF IDCount
  <1>d. IDEnd(sheet) = IF last > IdTop[sheet] + IdCount[sheet] - 1 THEN last
                       ELSE IdTop[sheet] + IdCount[sheet] - 1
    BY DEF IDEnd
  <1>e. below \in Int
    BY <1>b, IdsAreMany
  <1>f. CASE below > 0
    <2>a. below < Ids /\ below \in Nat
      BY <1>b, <1>f, IdsAreMany
    <2>b. (-below) % Ids = Ids - below
      <3> HIDE DEF below
      <3> QED
        BY <1>f, <2>a DEF Ids
    <2>c. Ids - below > IdCount[sheet] /\ ~(last > IdTop[sheet] + IdCount[sheet] - 1)
      BY <1>b, <1>f, IdsAreMany
    <2> QED
      BY <1>c, <1>d, <1>f, <2>b, <2>c
  <1>g. CASE -below = Ids
    <2>a. (-below) % Ids = 0
      <3> HIDE DEF below
      <3> QED
        BY <1>g DEF Ids
    <2>b. last > IdTop[sheet] + IdCount[sheet] - 1 \/ last = IdTop[sheet] + IdCount[sheet] - 1
      BY <1>b, <1>g, IdsAreMany
    <2>c. ~(below > 0)
      BY <1>b, <1>g, IdsAreMany
    <2>d. IDCount(sheet) = IdCount[sheet]
      <3>a. ~(0 > IdCount[sheet])
        BY <1>b
      <3> HIDE DEF below
      <3> QED
        BY <1>c, <2>a, <3>a
    <2>e. IDEnd(sheet) = last
      <3> HIDE DEF last
      <3> QED
        BY <1>d, <2>b
    <2> QED
      BY <1>g, <2>c, <2>d, <2>e
  <1>h. CASE ~(below > 0) /\ -below # Ids
    <2>a. -below \in 0 .. Ids - 1
      BY <1>b, <1>h, IdsAreMany
    <2>b. (-below) % Ids = -below
      <3> DEFINE n == -below
      <3>a. n \in Nat /\ n < Ids
        BY <2>a, IdsAreMany
      <3> HIDE DEF n
      <3>b. n % Ids = n
        BY <3>a, IdsAreMany, Remainder
      <3> QED
        BY <3>b DEF n
    <2> QED
      BY <1>b, <1>c, <1>d, <1>h, <2>b
  <1> QED
    BY <1>f, <1>g, <1>h

\* BdatOverride, BdatRandomizer, Config: once the ROM is mounted the tables and the
\* settings are those of the card, the file's callback stands before the randomizer's,
\* and no dump holds an override.
THEOREM FilesInvariance == ReplacementSpec => []FilesInv
  BY FilesInit, FilesStep, PTL DEF ReplacementSpec

\* What the game hears is what the files on the card say: for any sheets, overrides,
\* settings and numbers drawn, and for every read that fails.
THEOREM FilesAreHeardHolds == ReplacementSpec => []FilesAreHeard
  <1>a. FilesInv => FilesAreHeard
    BY TablesFollow, CountReaches, SettingsFollowSections DEF FilesInv, FilesAreHeard
  <1> QED
    BY <1>a, FilesInvariance, PTL

====
