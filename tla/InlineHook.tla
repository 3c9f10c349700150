------------------------------ MODULE InlineHook ------------------------------
(* And64InlineHook: the first instructions of a hooked function are moved into   *)
(* a trampoline that ends with a jump back, and overwritten with a jump to the   *)
(* replacement.  An instruction that depends on its own address is rewritten:    *)
(* with a new offset, or, out of its reach, as a load of the absolute address    *)
(* stored behind it.  Addresses count words of four bytes.                       *)
EXTENDS Integers, Sequences, FiniteSets

CONSTANTS
    Symbols,        \* addresses of functions that are hooked
    Trampolines,    \* address of __insns_jit
    MaxBackups,     \* bound: hooks made (the code's A64_MAX_BACKUPS is never tested)
    Replacements,   \* addresses of replacements
    Targets,        \* addresses outside the prologue that instructions name
    Reach,          \* op |-> the distance from which the code takes it as too far
    Wrap,           \* op |-> the size of its offset field
    PageWords,      \* words in a page
    MaxRelative,    \* bound: instructions of one prologue that are not copied as they are
    inline_hook_count,      \* entries of the pool of inline hooks
    Handlers                \* address of the first entry's handler

Branches == {"B", "BL"}
Conditional == {"BC", "TBZ"}                 \* B.cond, CBZ and CBNZ; TBZ and TBNZ
Loads == {"LDRW", "LDRX", "LDRSW", "LDRS", "LDRD", "LDRQ"}
Addresses == {"ADR", "ADRB"}                 \* ADRB names a byte inside its target
Relative == Branches \cup Conditional \cup Loads \cup Addresses \cup {"ADRP"}
Ops == Relative \cup {"PRFM", "Other"}

A64_MAX_INSTRUCTIONS == 5
InsnsWords == 10 * A64_MAX_INSTRUCTIONS      \* one trampoline of insns_t

ASSUME InlineHookAssumption ==
    /\ Symbols \subseteq Nat /\ Replacements \subseteq Nat /\ Targets \subseteq Nat
    /\ Trampolines \in Nat /\ Trampolines % 2 = 0
    /\ Reach \in [Relative -> Nat \ {0}]
    /\ Wrap \in [Conditional -> Nat \ {0}]
    /\ PageWords \in Nat \ {0} /\ MaxBackups \in Nat /\ MaxRelative \in Nat
    /\ inline_hook_count \in Nat /\ Handlers \in Nat

VARIABLES
    __index,    \* trampolines handed out
    inline_hook_curridx,
    hook,       \* the function being hooked: symbol, replace, count; for an inline hook?
    program,    \* its instructions that were moved, as [op, target]
    items,      \* what was written for each: [from, at, form, value]
    dat,        \* context::dat: where the context says each of them now is
    waiting,    \* the fix map: instructions that wait for a later one's place
    outprx,     \* the next word of the trampoline
    back        \* the jump back, or NoBack

hookVars == <<__index, inline_hook_curridx, hook, program, items, dat, waiting, outprx, back>>

NoHook == [symbol |-> 0, replace |-> 0, count |-> 0, inline |-> FALSE]
NoBack == [from |-> 0, at |-> 0, form |-> "None", value |-> 0]

Distance(a, b) == IF a <= b THEN b - a ELSE a - b

InlineHookInit ==
    /\ __index = 0 /\ inline_hook_curridx = 0
    /\ hook = NoHook
    /\ program = <<>> /\ items = <<>> /\ dat = <<>> /\ waiting = {}
    /\ outprx = 0
    /\ back = NoBack

-------------------------------------------------------------------------------
(* The context: places of instructions, before and after. *)

inprx == hook.symbol + Len(program)          \* the instruction to move next
is_in_fixing_range(address) ==
    hook.symbol <= address /\ address < hook.symbol + hook.count
get_ref_ins_index(address) == address - hook.symbol + 1

\* Where the words of one instruction begin, given how many NOPs go first.
Padded(aligned) == IF aligned THEN outprx ELSE outprx + 1

\* Instructions the fix map keeps waiting get their offsets to the place of this
\* one, which is the last of program by now.  ADRP is entered with its writable
\* address (view "rw"): an offset to it leads out of the trampoline.
Astray == 0 - 1
Offset(place, from) == IF place.view = "rx" THEN place.at - from ELSE Astray - from

\* Mutant: one instruction waits for each place.
ProcessedFirst(list, index, place) ==
    [i \in DOMAIN list |->
        IF [item |-> i, ref |-> index] \in waiting
           /\ \A w \in waiting : w.ref = index => i <= w.item
        THEN [list[i] EXCEPT !.value = Offset(place, list[i].at)]
        ELSE list[i]]

process_fix_map(list, index, place) ==
    [i \in DOMAIN list |->
        IF [item |-> i, ref |-> index] \in waiting
        THEN [list[i] EXCEPT !.value = Offset(place, list[i].at)]
        ELSE list[i]]

\* The end of every __fix function: item is written for ins in the given number of
\* words behind the NOPs, its place entered, and whoever waits for it is told.
\* A relative item without a value waits for a later instruction.
Emit(ins, item, words, place, waitsFor) ==
    LET index == Len(program) + 1
    IN  /\ program' = Append(program, ins)
        /\ items' = process_fix_map(Append(items, item), index, place)
        /\ dat' = Append(dat, place)
        /\ waiting' = {w \in waiting : w.ref # index} \cup
                      {[item |-> index, ref |-> r] : r \in waitsFor}
        /\ outprx' = item.at + words
        /\ UNCHANGED <<__index, inline_hook_curridx, hook, back>>

At(address) == [view |-> "rx", at |-> address]

-------------------------------------------------------------------------------
(* The instructions. *)

\* An instruction whose target is in reach, or among the moved instructions: to an
\* earlier one or itself the offset is known, for a later one it waits.  The item
\* keeps its place: nothing but loads is aligned in this form.
Near(ins, target) ==
    LET index == Len(program) + 1
        ref == get_ref_ins_index(target)
        forward == is_in_fixing_range(target) /\ ref > index
        places == Append(dat, At(outprx))
        value == IF forward THEN 0
                 ELSE IF is_in_fixing_range(target) THEN Offset(places[ref], outprx)
                 ELSE target - outprx
    IN  Emit(ins, [from |-> outprx, at |-> outprx, form |-> "Relative", value |-> value], 1,
             At(outprx), IF forward THEN {ref} ELSE {})

Far(ins, target, at, words, mark) ==
    Emit(ins, [from |-> outprx, at |-> at, form |-> "Absolute", value |-> target], words,
         At(mark), {})

IsNear(op, target) ==
    is_in_fixing_range(target) \/ Distance(outprx, target) < Reach[op]

\* __fix_branch_imm: an absolute B stores its address behind two words, an absolute
\* BL behind three, either on an even word.
__fix_branch_imm(ins) ==
    /\ ins.op \in Branches
    /\ IF IsNear(ins.op, ins.target)
       THEN Near(ins, ins.target)
       ELSE LET at == Padded((outprx % 2 = 0) = (ins.op = "B"))
            IN  Far(ins, ins.target, at, IF ins.op = "B" THEN 4 ELSE 5, at)

\* The address the code reads out of ins at a place: the offset of a conditional
\* branch is not sign-extended, so that one which goes back is read as going forward.
ReadAt(ins, place) ==
    IF ins.op \in Conditional /\ ins.target < place THEN ins.target + Wrap[ins.op] ELSE ins.target
Decoded(ins) == ReadAt(ins, inprx)

\* __fix_cond_comp_test_branch: out of reach, the branch jumps over a jump, and
\* its place is that of its NOP.
__fix_cond_comp_test_branch(ins) ==
    /\ ins.op \in Conditional
    /\ IF IsNear(ins.op, Decoded(ins))
       THEN Near(ins, Decoded(ins))
       ELSE Far(ins, Decoded(ins), Padded(outprx % 2 = 0), 6, outprx)

\* The words a load reads, to which its data is aligned; LDRSW reads one and is
\* treated as if it read two.
LoadWords(op) == CASE op \in {"LDRW", "LDRS"} -> 1
                   [] op \in {"LDRX", "LDRD", "LDRSW"} -> 2
                   [] op = "LDRQ" -> 4

\* The first place from which an address keeps the alignment of the data.
AlignedFrom(place, ahead, words) ==
    CHOOSE p \in place .. place + words - 1 : (p + ahead) % words = 0

\* A new offset that is negative also sets the size bits its mask leaves free.
SizeSurvives(op, offset) == op \in {"LDRX", "LDRSW"} \/ offset >= 0

\* __fix_loadlit: the data of a load that is too far, or among the moved
\* instructions, is copied behind it.
__fix_loadlit(ins) ==
    /\ ins.op \in Loads
    /\ LET words == LoadWords(ins.op)
           inside == is_in_fixing_range(ins.target)
           near == ~inside /\ Distance(outprx, ins.target) + words - 1 < Reach[ins.op]
           copied == AlignedFrom(outprx, 2, words)
           moved == CHOOSE p \in outprx .. outprx + words - 1 : (ins.target - p) % words = 0
           offset == ins.target - moved
       IN  IF near
           THEN Emit(ins, [from |-> outprx, at |-> moved,
                           form |-> IF SizeSurvives(ins.op, offset) THEN "Relative" ELSE "Corrupt",
                           value |-> offset], 1, At(moved), {})
           ELSE Emit(ins, [from |-> outprx, at |-> copied, form |-> "Copied",
                           value |-> ins.target], 2 + words, At(copied), {})

\* __fix_pcreladdr: ADR, and ADRP whose target is the first word of a page.  The byte
\* of an ADR stays in its word, but that of a near address outside the moved words
\* is set in the register's bits too, which may have had them set.
SpoilRegister(ins) ==
    /\ ins.op = "ADRB" /\ ~is_in_fixing_range(ins.target)
    /\ Emit(ins, [from |-> outprx, at |-> outprx, form |-> "Corrupt",
                  value |-> ins.target - outprx], 1, At(outprx), {})

__fix_adr(ins) ==
    /\ ins.op \in Addresses
    /\ IF IsNear(ins.op, ins.target)
       THEN Near(ins, ins.target) \/ SpoilRegister(ins)
       ELSE LET at == Padded(outprx % 2 = 0) IN Far(ins, ins.target, at, 4, at)

__fix_adrp(ins) ==
    /\ ins.op = "ADRP" /\ ins.target % PageWords = 0
    /\ LET entered == [view |-> "rw", at |-> outprx]
       IN  IF is_in_fixing_range(ins.target)
           THEN Emit(ins, [from |-> outprx, at |-> outprx, form |-> "Unchanged",
                           value |-> ins.target], 1, entered, {})
           ELSE LET at == Padded(outprx % 2 = 0)
                IN  Emit(ins, [from |-> outprx, at |-> at, form |-> "Absolute",
                               value |-> ins.target], 4,
                         IF at = outprx THEN entered ELSE At(at), {})

\* A prefetch is left out, anything without an address is copied.
SkipPrefetch(ins) ==
    /\ ins.op = "PRFM"
    /\ Emit(ins, [from |-> outprx, at |-> outprx, form |-> "None", value |-> 0], 0,
            At(outprx), {})

CopyInstruction(ins) ==
    /\ ins.op = "Other"
    /\ Emit(ins, [from |-> outprx, at |-> outprx, form |-> "Same", value |-> 0], 1,
            At(outprx), {})

-------------------------------------------------------------------------------
(* A hook. *)

\* A64HookFunction and the start of A64HookFunctionV: a trampoline is taken; a
\* replacement out of the reach of one B costs four words, five on an odd word.
Start(symbol, replace, inline) ==
    /\ hook = NoHook /\ __index < MaxBackups
    /\ __index' = __index + 1
    /\ hook' = [symbol |-> symbol, replace |-> replace, inline |-> inline,
                count |-> IF Distance(symbol, replace) < Reach["B"] THEN 1
                          ELSE IF symbol % 2 = 0 THEN 4 ELSE 5]
    /\ outprx' = Trampolines + InsnsWords * __index
    /\ UNCHANGED <<inline_hook_curridx, program, items, dat, waiting, back>>

A64HookFunction(symbol, replace) == Start(symbol, replace, FALSE)

\* A64InlineHook: the replacement is the handler of the next entry of the pool, an
\* entry of nine words.
A64InlineHook(symbol) ==
    /\ inline_hook_curridx < inline_hook_count
    /\ Start(symbol, Handlers + 9 * inline_hook_curridx, TRUE)

Instruction ==
    [op : {"PRFM", "Other"}, target : {0}] \cup
    [op : Relative, target : Targets \cup (hook.symbol .. hook.symbol + hook.count - 1)]

__fix_instruction ==
    /\ Len(program) < hook.count
    /\ \E ins \in Instruction :
          /\ \/ ins.op = "Other"
             \/ Cardinality({i \in DOMAIN program : program[i].op # "Other"}) < MaxRelative
          /\ \/ __fix_branch_imm(ins)
             \/ __fix_cond_comp_test_branch(ins)
             \/ __fix_loadlit(ins)
             \/ __fix_adr(ins)
             \/ __fix_adrp(ins)
             \/ SkipPrefetch(ins)
             \/ CopyInstruction(ins)

\* The end of __fix_instructions: the jump to the first instruction not moved.
JumpBack ==
    /\ hook # NoHook /\ Len(program) = hook.count /\ back = NoBack
    /\ LET near == Distance(outprx, inprx) < Reach["B"]
           at == Padded(near \/ outprx % 2 = 0)
       IN  /\ back' = [from |-> outprx, at |-> at,
                       form |-> IF near THEN "Relative" ELSE "Absolute",
                       value |-> IF near THEN inprx - outprx ELSE inprx]
           /\ outprx' = at + (IF near THEN 1 ELSE 4)
    /\ UNCHANGED <<__index, inline_hook_curridx, hook, program, items, dat, waiting>>

\* The end of A64HookFunctionV, which overwrites the function, and of
\* A64InlineHook, which fills the pool's entry and counts it.
Finish ==
    /\ back # NoBack
    /\ hook' = NoHook /\ program' = <<>> /\ items' = <<>> /\ dat' = <<>>
    /\ waiting' = {} /\ outprx' = 0 /\ back' = NoBack
    /\ inline_hook_curridx' = inline_hook_curridx + (IF hook.inline THEN 1 ELSE 0)
    /\ UNCHANGED __index

InlineHookNext ==
    \/ \E symbol \in Symbols, replace \in Replacements : A64HookFunction(symbol, replace)
    \/ \E symbol \in Symbols : A64InlineHook(symbol)
    \/ __fix_instruction
    \/ JumpBack
    \/ Finish

InlineHookSpec == InlineHookInit /\ [][InlineHookNext]_hookVars

-------------------------------------------------------------------------------
(* Properties. *)

\* Where an item sends the processor, or points a register at.
Denotes(item) == IF item.form = "Relative" THEN item.at + item.value ELSE item.value

\* A target among the moved instructions is met at the words of its item, the NOPs
\* before them included; one that was left out at whatever follows it.
Meets(target, address) ==
    IF is_in_fixing_range(target)
    THEN LET i == items[get_ref_ins_index(target)] IN i.from <= address /\ address <= i.at
    ELSE address = target

\* The address the code read out of the moved instruction i.
Read(i) == ReadAt(program[i], hook.symbol + i - 1)

\* What the code knows it cannot keep: a reference to an ADRP among the moved
\* instructions, which is entered by its writable address.
LeadsToPage(i) ==
    /\ is_in_fixing_range(Read(i)) /\ program[i].op \notin Loads
    /\ program[get_ref_ins_index(Read(i))].op = "ADRP"

\* When a word is not what its instruction was in its new place: a load of four bytes
\* or of a vector whose new offset is negative, an ADR to a byte outside, and an ADRP
\* whose page begins among the moved instructions.
Spoiled(ins, item) ==
    LET inside == is_in_fixing_range(ins.target)
    IN  \/ ins.op \in Loads \ {"LDRX", "LDRSW"} /\ ~inside /\ ins.target < item.at
        \/ ins.op = "ADRB" /\ ~inside
        \/ ins.op = "ADRP" /\ inside

\* When the jump back is written, every moved instruction names the address that was
\* read out of it, or the new place of the instruction that was there, and a load far
\* off has its data from there, but for the references LeadsToPage and the words
\* Spoiled describes; what was read is what the instruction named, but for a
\* conditional branch that goes back, which is sent Wrap words too far.
MovedAsRead ==
    back # NoBack =>
        /\ \A i \in DOMAIN items : program[i].op \in Relative =>
              CASE items[i].form \in {"Corrupt", "Unchanged"} -> Spoiled(program[i], items[i])
                [] items[i].form = "Copied" -> items[i].value = Read(i)
                [] OTHER -> LeadsToPage(i) \/ Meets(Read(i), Denotes(items[i]))
        /\ Denotes(back) = hook.symbol + hook.count

\* What is written for one function stays in its own trampoline.
FitsTrampoline ==
    hook # NoHook => outprx <= Trampolines + InsnsWords * __index

===============================================================================
