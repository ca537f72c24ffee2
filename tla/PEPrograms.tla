----------------------------- MODULE PEPrograms -----------------------------
(***************************************************************************)
(* The example programs of a processing element and the host programs that *)
(* run them, as scripts: the accesses and other effects of each, in order. *)
(* The steps of a PE program are                                           *)
(*   "init"         initInterrupts           "initPrint"  initPrint        *)
(*   "arg1","arg2"  readFromCtrl             "store"      the store of     *)
(*   "rom"          a read of the debug ROM               localsum         *)
(*   "text","hex"   print, print_hex         "ret"        writeToCtrl(RETL)*)
(*   "intr"         setIntr                                                *)
(* A printed string is one unit of text.                                   *)
(***************************************************************************)
EXTENDS Integers, Sequences

CONSTANTS AddressWidth,     \* address bits of the core: 32 or 64
          WordBits,         \* bits of an int: 32
          OverwriteBits,    \* OVERWRITE_BITS of dmaOffset: 1 or 16
          RomWord           \* the first word of the debug module's ROM

ASSUME WidthAssumption ==
    /\ WordBits \in Nat \ {0}
    /\ AddressWidth \in Nat /\ AddressWidth >= WordBits
    /\ OverwriteBits \in 1 .. AddressWidth - 1

-----------------------------------------------------------------------------
(* Programs of the core, after the start-up code.                          *)

\* Mutant: the end is signalled before the result is written.
simple_sum_EarlyIntr == <<"arg1", "arg2", "intr", "ret">>

simple_sum == <<"arg1", "arg2", "ret", "intr">>
localsum == <<"init", "store", "ret", "intr">>
readargs == <<"init", "ret", "text", "intr">>

\* The header is printed in eight pieces, of which two stand for all; the
\* loop over the words of the ROM is run for one word.
read_dm == <<"init", "initPrint", "arg1", "arg2", "text", "hex",
             "rom", "hex", "rom", "ret", "intr">>
rv_template == <<"intr">>

Program == [simple_sum |-> simple_sum, localsum |-> localsum,
            readargs |-> readargs, read_dm |-> read_dm,
            rv_template |-> rv_template]

Printed(prog) == SelectSeq(Program[prog], LAMBDA s : s \in {"text", "hex"})

\* What a program returns when nothing goes wrong; the template returns
\* whatever the register holds.
ReturnValue(prog, a, b) ==
    CASE prog = "simple_sum" -> a + b
      [] prog = "localsum" -> 42 + 1337
      [] prog = "readargs" -> 42 + 123
      [] prog = "read_dm" -> RomWord

Returns(prog) == prog # "rv_template"
MayFail(prog) == \E i \in DOMAIN Program[prog] : Program[prog][i] = "init"

TrapCode == 2 ^ WordBits - 2      \* fallbackDefaultIRQ: -2
PanicCode == 2 ^ WordBits - 1     \* initInterrupts without a writable mtvec: -1

-----------------------------------------------------------------------------
(* Host programs: "load" stands for everything up to the transfer of the   *)
(* program to the local memory.                                            *)

host_template == <<"load", "start", "wait", "getret">>
simple_sum_host_c == <<"load", "arg1", "arg2", "start", "wait", "getret">>
simple_sum_host_cpp ==
    <<"load", "arg1", "arg2", "arg3", "start", "wait", "getret">>

HostScript == [template |-> host_template, c |-> simple_sum_host_c,
               cpp |-> simple_sum_host_cpp]

-----------------------------------------------------------------------------
(* Printing.  out_buf and out_idx are static: they lie in .bss, which is   *)
(* not part of the loaded image and which the start-up code leaves alone.  *)

RAM_OFFSET == 2 ^ (AddressWidth - OverwriteBits)

\* (char *)readFromCtrl(ARG3) + RAM_OFFSET: an int is sign-extended.
OutBuf(word) ==
    LET wide == IF word < 2 ^ (WordBits - 1) THEN word
                ELSE word + 2 ^ AddressWidth - 2 ^ WordBits
    IN  (wide + RAM_OFFSET) % 2 ^ AddressWidth

\* dmaOffset clears the highest address bits.
axi_offset(addr) == addr % 2 ^ (AddressWidth - OverwriteBits)

\* The units of text in memory at a position and the terminator after them.
Put(text, idx, unit) ==
    [i \in DOMAIN text |-> IF i = idx THEN unit
                           ELSE IF i = idx + 1 THEN "nul" ELSE text[i]]

\* What a reader of the buffer sees: everything before the first terminator.
Visible(text) ==
    LET ends == {i \in DOMAIN text : text[i] = "nul"}
        end == CHOOSE i \in ends : \A j \in ends : i <= j
    IN  IF ends = {} THEN [i \in 1 .. Len(text) |-> text[i]]
        ELSE SubSeq(text, 1, end - 1)
=============================================================================
