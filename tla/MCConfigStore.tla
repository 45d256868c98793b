---------------------------- MODULE MCConfigStore ----------------------------
(***************************************************************************)
(* Two channels.  Frequencies on a grid of 3 around 10 to 13, of which 11  *)
(* is cut off to 10, where another channel may be.  By hand the user       *)
(* writes a good file, one with a channel too few, or one with a channel   *)
(* too many.                                                               *)
(***************************************************************************)
EXTENDS WaveTable

MCWave(on, freq, rate, type) ==
  [on |-> on, freq |-> freq, rate |-> rate, type |-> type]
Config(head, entries) == [head |-> head, entries |-> entries]

MCPrograms == {"receiver", "modem"}
MCNeeded == [receiver |-> 2, modem |-> 2]
MCWaves == <<MCWave(TRUE, 10, 192, "FSK"), MCWave(FALSE, 13, 192, "MSK")>>
MCDefault == [receiver |-> Config("default", <<"default0", "default1">>),
              modem |-> Config("default", MCWaves)]
MCBlank == [receiver |-> Config("blank", <<"zero", "zero">>),
            modem |-> Config("blank", <<>>)]
MCEdits ==
  [receiver |-> {Config("edited", <<"edited0", "edited1">>),
                 Config("edited", <<"edited0">>)},
   modem |-> {Config("edited", <<MCWave(TRUE, 13, 96, "MSK"),
                                 MCWave(TRUE, 11, 96, "MSK")>>),
              Config("edited", <<MCWave(TRUE, 10, 192, "MSK")>>),
              Config("edited", <<MCWave(FALSE, 10, 96, "FSK"),
                                 MCWave(TRUE, 13, 96, "MSK"),
                                 MCWave(TRUE, 11, 96, "MSK")>>)}]
=============================================================================
