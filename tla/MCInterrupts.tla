---------------------------- MODULE MCInterrupts ----------------------------
(* An instance of Interrupts for TLC.                                      *)
EXTENDS Interrupts

\* A reader of the serial line that may be killed; one that is not, with every
\* character that is treated on its own and more of them than the buffer holds; a
\* sleeper that may be killed, with a writer; a keyboard on which both control keys
\* go down and up again; one with a letter, control and caps lock.
MCWorkloads ==
    {[calls |-> <<{<<"read", 2>>}, {<<"kill", 1>>}>>,
      chars |-> {"\r", "^P"}, keys |-> {},
      max |-> [interrupt |-> 2, call |-> 2, key |-> 2]],
     [calls |-> <<{<<"read", 2>>}, {}>>,
      chars |-> {"x", "\r", "^D", "^H", "^U"}, keys |-> {},
      max |-> [interrupt |-> 2, call |-> 2, key |-> 4]],
     [calls |-> <<{<<"sleep", 2>>, <<"write">>}, {<<"uptime">>, <<"kill", 1>>}>>,
      chars |-> {}, keys |-> {},
      max |-> [interrupt |-> 2, call |-> 2, key |-> 0]],
     [calls |-> <<{<<"read", 2>>}, {}>>,
      chars |-> {}, keys |-> {"lctl", "rctl"},
      max |-> [interrupt |-> 2, call |-> 1, key |-> 6]],
     [calls |-> <<{<<"read", 2>>}, {}>>,
      chars |-> {}, keys |-> {"h", "caps", "lctl"},
      max |-> [interrupt |-> 1, call |-> 1, key |-> 3]]}
=============================================================================
