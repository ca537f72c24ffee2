------------------------ MODULE RiscvDebugGenerator ------------------------
(***************************************************************************)
(* The TaPaSCo debug server for a PE on an FPGA (riscv_debug_generator.rs):*)
(* one thread that accepts a client, reads a request, turns it into        *)
(* accesses of the debug module through the DTM's address and data         *)
(* registers, and answers.  One step is one access.                        *)
(*                                                                         *)
(* The debug module behind the registers and the hart are external; they   *)
(* behave as the RISC-V debug specification says, and an abstract command  *)
(* has finished before the next access arrives (the code does not poll).   *)
(* Only the fields of command words that matter are kept: the type of an   *)
(* abstract command, its register, its direction; sbaccess, sbreadonaddr.  *)
(***************************************************************************)
EXTENDS Integers, Sequences

CONSTANTS Reg, Addr, Word,     \* registers, memory addresses, data words
          MaxSessions,         \* bound on calls of enable_debug
          Nothing

ASSUME GeneratorAssumption == Word \subseteq Nat /\ 0 \in Word /\ MaxSessions \in Nat

VARIABLES server,      \* "off", "accept", "read", "serve" or "exited"
          connected,   \* is there a client
          socketFile,  \* does SOCKET_FILE_NAME exist
          sessions,    \* calls of enable_debug
          request, script, value,   \* being served: accesses left, last read
          answer,      \* the response sent last
          sel, dm,     \* DTM address register, debug module registers
          hart,        \* [gpr, mem, running]
          before       \* hart as it was when the request was read

netvars == <<server, connected, socketFile, sessions>>
srvvars == <<request, script, value, answer, before>>
genvars == <<netvars, srvvars, sel, dm, hart>>

-----------------------------------------------------------------------------
(* Requests, and the accesses each is turned into.                         *)

Request ==
    [type : {"register"}, read : BOOLEAN, addr : Reg, data : Word]
      \cup [type : {"memory", "systemBus"}, read : BOOLEAN, addr : Addr, data : Word]
      \cup [type : {"dm"}, read : BOOLEAN, addr : {"data0", "haltreq"}, data : Word]
      \cup [type : {"dtm"}, read : {TRUE}, addr : {8, \h0c}, data : {0}]
      \cup [type : {"dtm"}, read : {FALSE}, addr : {\h10}, data : {"data0", "haltreq"}]
      \cup [type : {"dtm"}, read : {FALSE}, addr : {\h0c}, data : Word]
      \cup [type : {"control"}, read : {FALSE}, addr : {"halt", "resume"}, data : {0}]

WriteDtm(reg, v) == [reg |-> reg, op |-> "write", v |-> v]
ReadDtm(reg) == [reg |-> reg, op |-> "read", v |-> 0]

write_dm(reg, v) == <<WriteDtm("addr", reg), WriteDtm("data", v)>>

read_dm(reg) == <<WriteDtm("addr", reg), ReadDtm("data")>>

RegCommand(no, write) == [cmd |-> "reg", no |-> no, write |-> write]
MemCommand(write) == [cmd |-> "mem", no |-> 0, write |-> write]

read_register(r) == write_dm("command", RegCommand(r.addr, FALSE)) \o read_dm("data0")

\* Mutant: the command is issued before the data is in place.
write_register_CommandFirst(r) ==
    write_dm("command", RegCommand(r.addr, TRUE)) \o write_dm("data0", r.data)

write_register(r) ==
    write_dm("data0", r.data) \o write_dm("command", RegCommand(r.addr, TRUE))

read_mem(r) ==
    write_dm("data1", r.addr) \o write_dm("command", MemCommand(FALSE))
        \o read_dm("data0")

write_mem(r) ==
    write_dm("data1", r.addr) \o write_dm("data0", r.data)
        \o write_dm("command", MemCommand(TRUE))

\* sbaccess 2 is a 32-bit access, 0 an 8-bit access.
read_bus(r) ==
    write_dm("sbcs", [access |-> 2, readonaddr |-> TRUE])
        \o write_dm("sbaddress0", r.addr) \o read_dm("sbdata0")

write_bus(r) ==
    write_dm("sbcs", [access |-> 0, readonaddr |-> FALSE])
        \o write_dm("sbaddress0", r.addr) \o write_dm("sbdata0", r.data)

handle_resume == write_dm("resumereq", 1)

\* handle_read_request answers a read of DTMCS without an access.  Of the
\* control requests only a resume makes one; "halt" stands for the others.
Script(r) ==
    CASE r.type = "register" -> IF r.read THEN read_register(r) ELSE write_register(r)
      [] r.type = "memory" -> IF r.read THEN read_mem(r) ELSE write_mem(r)
      [] r.type = "systemBus" -> IF r.read THEN read_bus(r) ELSE write_bus(r)
      [] r.type = "dm" -> IF r.read THEN read_dm(r.addr) ELSE write_dm(r.addr, r.data)
      [] r.type = "dtm" /\ r.read ->
            IF r.addr = 8 THEN << >> ELSE <<ReadDtm("data")>>
      [] r.type = "dtm" /\ ~r.read ->
            <<WriteDtm(IF r.addr = \h10 THEN "addr" ELSE "data", r.data)>>
      [] r.type = "control" -> IF r.addr = "resume" THEN handle_resume ELSE << >>

-----------------------------------------------------------------------------
(* The debug module and the hart (external).                               *)

Merge(old, new, access) ==
    IF access = 2 THEN new ELSE old - (old % 256) + (new % 256)

Command(c) ==
    CASE hart.running -> UNCHANGED <<dm, hart>>
      [] ~hart.running /\ c.cmd = "reg" /\ c.write ->
            hart' = [hart EXCEPT !.gpr[c.no] = dm.data0] /\ UNCHANGED dm
      [] ~hart.running /\ c.cmd = "reg" /\ ~c.write ->
            dm' = [dm EXCEPT !.data0 = hart.gpr[c.no]] /\ UNCHANGED hart
      [] ~hart.running /\ c.cmd = "mem" /\ c.write ->
            hart' = [hart EXCEPT !.mem[dm.data1] = dm.data0] /\ UNCHANGED dm
      [] ~hart.running /\ c.cmd = "mem" /\ ~c.write ->
            dm' = [dm EXCEPT !.data0 = hart.mem[dm.data1]] /\ UNCHANGED hart

DataWrite(v) ==
    CASE sel \in {"data0", "data1", "sbcs"} ->
            dm' = [dm EXCEPT ![sel] = v] /\ UNCHANGED hart
      [] sel = "command" -> Command(v)
      [] sel = "sbaddress0" ->
            /\ dm' = [dm EXCEPT !.sbaddress0 = v,
                                !.sbdata0 = IF dm.sbcs.readonaddr THEN hart.mem[v] ELSE @]
            /\ UNCHANGED hart
      [] sel = "sbdata0" ->
            /\ hart' = [hart EXCEPT !.mem[dm.sbaddress0] =
                                        Merge(@, v, dm.sbcs.access)]
            /\ UNCHANGED dm
      [] sel = "resumereq" -> hart' = [hart EXCEPT !.running = TRUE] /\ UNCHANGED dm
      [] sel = "haltreq" -> hart' = [hart EXCEPT !.running = FALSE] /\ UNCHANGED dm

DataRead == IF sel \in {"data0", "sbdata0"} THEN dm[sel] ELSE 0

-----------------------------------------------------------------------------
GeneratorInit ==
    /\ server = "off"
    /\ connected = FALSE
    /\ socketFile = FALSE
    /\ sessions = 0
    /\ request = Nothing
    /\ script = << >>
    /\ value = 0
    /\ answer = Nothing
    /\ sel = "data0"
    /\ dm = [data0 |-> 0, data1 |-> CHOOSE a \in Addr : TRUE,
             sbcs |-> [access |-> 2, readonaddr |-> FALSE],
             sbaddress0 |-> CHOOSE a \in Addr : TRUE, sbdata0 |-> 0]
    /\ hart = [gpr |-> [r \in Reg |-> 0], mem |-> [a \in Addr |-> 0],
               running |-> FALSE]
    /\ before = Nothing

\* Returning drops the listener; the file stays.
Return ==
    /\ server' = "off"
    /\ connected' = FALSE

\* bind fails while the file of an earlier session exists.
enable_debug ==
    /\ server = "off"
    /\ sessions < MaxSessions
    /\ sessions' = sessions + 1
    /\ server' = IF socketFile THEN "off" ELSE "accept"
    /\ socketFile' = TRUE
    /\ UNCHANGED <<connected, srvvars, sel, dm, hart>>

AcceptClient ==
    /\ server = "accept"
    /\ server' = "read"
    /\ connected' = TRUE
    /\ UNCHANGED <<socketFile, sessions, srvvars, sel, dm, hart>>

\* A client writes the data register when it has selected a register for it.
Sends(r) ==
    r.type = "dtm" /\ ~r.read /\ r.addr = \h0c => sel \in {"data0", "haltreq"}

ReadRequest ==
    /\ server = "read"
    /\ connected
    /\ \E r \in Request :
          /\ Sends(r)
          /\ request' = r
          /\ script' = Script(r)
    /\ value' = \h71
    /\ before' = hart
    /\ answer' = Nothing
    /\ server' = "serve"
    /\ UNCHANGED <<connected, socketFile, sessions, sel, dm, hart>>

\* incoming() gives an error: the loop is left.
IncomingFails ==
    /\ server = "accept"
    /\ Return
    /\ UNCHANGED <<socketFile, sessions, srvvars, sel, dm, hart>>

Disconnect ==
    /\ connected
    /\ connected' = FALSE
    /\ UNCHANGED <<server, socketFile, sessions, srvvars, sel, dm, hart>>

\* A message of size 0: only this connection is closed.
SessionClosed ==
    /\ server = "read"
    /\ ~connected
    /\ server' = "accept"
    /\ UNCHANGED <<connected, socketFile, sessions, srvvars, sel, dm, hart>>

\* A read that fails ends handle_client: the client was silent for a second,
\* or it has reset the connection.  So does a message that is no request.
ReadFails ==
    /\ server = "read"
    /\ Return
    /\ UNCHANGED <<socketFile, sessions, srvvars, sel, dm, hart>>

\* A request of an unknown type ends the process; the file stays.
Panic ==
    /\ server = "read"
    /\ connected
    /\ server' = "exited"
    /\ UNCHANGED <<connected, socketFile, sessions, srvvars, sel, dm, hart>>

Access ==
    /\ server = "serve"
    /\ script # << >>
    /\ script' = Tail(script)
    /\ LET a == Head(script)
       IN  \/ /\ a.reg = "addr"
              /\ sel' = a.v
              /\ UNCHANGED <<dm, hart, value>>
           \/ /\ a.reg = "data" /\ a.op = "write"
              /\ DataWrite(a.v)
              /\ UNCHANGED <<sel, value>>
           \/ /\ a.reg = "data" /\ a.op = "read"
              /\ value' = DataRead
              /\ UNCHANGED <<sel, dm, hart>>
    /\ UNCHANGED <<netvars, request, answer, before>>

\* Mutant: a control request is not answered.
Respond_NotControl ==
    /\ server = "serve"
    /\ script = << >>
    /\ IF connected
         THEN /\ server' = "read"
              /\ answer' = IF request.type = "control" THEN Nothing
                           ELSE [read |-> request.read,
                                 data |-> IF request.read THEN value ELSE 0]
              /\ UNCHANGED connected
         ELSE Return /\ UNCHANGED answer
    /\ UNCHANGED <<socketFile, sessions, request, script, value, before, sel,
                   dm, hart>>

\* The answer; writing it to a client that is gone fails and ends handle_client.
Respond ==
    /\ server = "serve"
    /\ script = << >>
    /\ IF connected
         THEN /\ server' = "read"
              /\ answer' = [read |-> request.read,
                          data |-> IF request.read THEN value ELSE 0]
              /\ UNCHANGED connected
         ELSE Return /\ UNCHANGED answer
    /\ UNCHANGED <<socketFile, sessions, request, script, value, before, sel,
                   dm, hart>>

\* The handler, set once bind has made the file, removes it and exits,
\* wherever the server is.
CtrlC ==
    /\ socketFile
    /\ server # "exited"
    /\ server' = "exited"
    /\ socketFile' = FALSE
    /\ UNCHANGED <<connected, sessions, srvvars, sel, dm, hart>>

GeneratorNext ==
    \/ enable_debug \/ AcceptClient \/ IncomingFails \/ ReadRequest \/ Disconnect
    \/ SessionClosed \/ ReadFails \/ Panic \/ Access \/ Respond \/ CtrlC

GeneratorSpec ==
    /\ GeneratorInit /\ [][GeneratorNext]_genvars
    /\ WF_genvars(Access) /\ WF_genvars(Respond)

-----------------------------------------------------------------------------
(***************************************************************************)
(* What each request means: its effect on a halted hart, and the word it   *)
(* answers.                                                                *)
(***************************************************************************)
Target(h, r) ==
    CASE r.type = "register" /\ ~r.read -> [h EXCEPT !.gpr[r.addr] = r.data]
      [] r.type \in {"memory", "systemBus"} /\ ~r.read ->
            [h EXCEPT !.mem[r.addr] = r.data]
      [] r.type = "control" /\ r.addr = "resume" -> [h EXCEPT !.running = TRUE]
      [] r.type = "dm" /\ ~r.read /\ r.addr = "haltreq" -> [h EXCEPT !.running = FALSE]
      [] OTHER -> h

Answered(h, r) ==
    CASE r.type = "register" -> h.gpr[r.addr]
      [] r.type \in {"memory", "systemBus"} -> h.mem[r.addr]
      [] r.type = "dtm" /\ r.addr = 8 -> \h71

(***************************************************************************)
(* The accesses a request is turned into do what the request means: when   *)
(* it is answered a halted hart has changed in that way and in no other,   *)
(* and a read answers the word that was there, whatever the requests       *)
(* before it left in the module's registers.                               *)
(***************************************************************************)
RequestMeansWhatItSays ==
    server = "serve" /\ script = << >> /\ ~before.running =>
        /\ hart = Target(before, request)
        /\ request.read /\ request.type \in {"register", "memory", "systemBus"}
              => value = Answered(before, request)

(***************************************************************************)
(* A request that was read is carried out to its last access, also when    *)
(* the client leaves meanwhile, and answered if the client is still there, *)
(* unless Ctrl+C ends the process.                                         *)
(***************************************************************************)
ReadIsAnswered ==
    server = "serve" ~>
        \/ answer # Nothing
        \/ script = << >> /\ ~connected
        \/ server = "exited"
=============================================================================
