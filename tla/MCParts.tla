------------------------------ MODULE MCParts -------------------------------
(* The parts that share no state for TLC: a behaviour is one of one of     *)
(* them, the others stay where they began.  The bounds are explained in    *)
(* README.md.                                                              *)
EXTENDS Routing, Clock, Boot, CmdParser, SigProc, GrabReport

CONSTANT Parts

VARIABLE part

(* Nine paths over two cores, three channels and two outputs. *)
Path(src, core, dac, n) ==
  [src |-> src, core |-> core, pinsel |-> IF core = 3 THEN 5 ELSE 0, dac |-> dac,
   sink |-> "STREAM", table_samples |-> n]
MCPaths == {Path("EXT", 1, 0, 0), Path("EXT", 3, 0, 0), Path("DAC_PIN", 1, 2, 0),
            Path("DAC_PIN", 3, 3, 2), Path("DAC_INT", 3, 1, 0), Path("RAM_TABLE", 0, 0, 2),
            [Path("EXT", 1, 0, 0) EXCEPT !.pinsel = 7],
            [Path("EXT", 1, 0, 0) EXCEPT !.pinsel = 5],
            [Path("EXT", 3, 0, 0) EXCEPT !.sink = "RAM"]}
MCPlays == [dac : {1, 2}, n : {1, 3}]

MCRates == {4000 + 1873 * i : i \in 0..19}
MCPostdivs == {<<1, 1>>, <<5, 2>>, <<7, 7>>, <<3, 4>>}
MCBoardPll == <<7, 7>>

MCCommands == {<<"a">>}

MCInit ==
  /\ part \in Parts
  /\ RoutingInit /\ ClockInit /\ BootInit /\ ParserInit /\ SigProcInit /\ ReportInit
  /\ part # "boot" => <<boot_stage, trap_seen, trap_stage, chain_mark>> = <<0, 0, 3, 0>>
                      /\ trap_vec = CHOOSE v \in Vectors : TRUE

partVars == <<routingVars, clockVars, bootVars, parserVars, sigprocVars, reportVars>>

Runs(p) == part = p /\ UNCHANGED part
MCNext ==
  \/ /\ Runs("routing") /\ RoutingNext
     /\ UNCHANGED <<clockVars, bootVars, parserVars, sigprocVars, reportVars>>
  \/ /\ Runs("clock") /\ ClockNext
     /\ UNCHANGED <<routingVars, bootVars, parserVars, sigprocVars, reportVars>>
  \/ /\ Runs("boot") /\ BootNext
     /\ UNCHANGED <<routingVars, clockVars, parserVars, sigprocVars, reportVars>>
  \/ /\ Runs("parser") /\ cmd_parser_feed_char
     /\ UNCHANGED <<routingVars, clockVars, bootVars, sigprocVars, reportVars>>
  \/ /\ Runs("sigproc") /\ SigProcNext
     /\ UNCHANGED <<routingVars, clockVars, bootVars, parserVars, reportVars>>
  \/ /\ Runs("report") /\ ReportNext
     /\ UNCHANGED <<routingVars, clockVars, bootVars, parserVars, sigprocVars>>

MCSpec == MCInit /\ [][MCNext]_<<part, partVars>>
=============================================================================
