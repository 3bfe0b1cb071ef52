---------------------------- MODULE MCInterrupts ----------------------------
(* Small instances of Interrupts: a user who types, edits and sends other    *)
(* codes; two processors; and a clock that preempts.                         *)
EXTENDS ConsoleTerminal

Typing == [cpus |-> {0}, procs |-> {1}, calls |-> {}, reads |-> {3}, sleeps |-> {},
           clocks |-> {}, keys |-> {"a", "nl", "^U", "^H"}, max |-> 4]

Codes == [Typing EXCEPT !.reads = {2}, !.keys = {"a", "cr", "eot", "nul", "^P"}, !.max = 2]

Racing == [cpus |-> {0, 1}, procs |-> {1, 2}, calls |-> {"write"}, reads |-> {1},
           sleeps |-> {}, clocks |-> {}, keys |-> {"nl"}, max |-> 1]

Sleeping == [cpus |-> {0, 1}, procs |-> {1}, calls |-> {}, reads |-> {},
             sleeps |-> {2}, clocks |-> {0}, keys |-> {}, max |-> 0]

Killing == [cpus |-> {0, 1}, procs |-> {1, 2}, calls |-> {"kill"}, reads |-> {1},
            sleeps |-> {}, clocks |-> {}, keys |-> {}, max |-> 0]

Preempting == [cpus |-> {0}, procs |-> {1}, calls |-> {}, reads |-> {1}, sleeps |-> {},
               clocks |-> {0}, keys |-> {"nl", "^P"}, max |-> 2]

Migrating == [Preempting EXCEPT !.cpus = {0, 1}, !.clocks = {1}, !.keys = {"nl"}, !.max = 1]

Stopping == [Preempting EXCEPT !.procs = {1, 2}, !.calls = {"kill"}, !.reads = {},
                                 !.sleeps = {1}, !.max = 0]

MCSettings == {Typing, Codes, Racing, Sleeping, Killing, Preempting, Migrating, Stopping}
=============================================================================
