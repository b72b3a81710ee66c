------------------------------- MODULE Commands -------------------------------
(***************************************************************************)
(* The process of firebox: Execute (cmd/root.go) runs one of the three     *)
(* commands.  Of the server this module has what happens to the resources  *)
(* of its machines, whoever starts and stops them; HttpServer, VMMManager  *)
(* and Firebox have the rest.                                              *)
(***************************************************************************)
EXTENDS Firectl, EchoServer

VARIABLE command  \* the subcommand that was given

Command == {"server", "firectl", "echo"}

CommandsTypeOK ==
  /\ command \in Command
  /\ TypeOK /\ FirectlTypeOK /\ EchoTypeOK

Execute == /\ command \in Command
           /\ Init /\ FirectlInit /\ EchoInit

Run(name) == command = name /\ UNCHANGED command

CommandsNext ==
  \/ Run("server") /\ Next /\ UNCHANGED <<firectlVars, echoVars>>
  \/ Run("firectl") /\ FirectlNext /\ UNCHANGED echoVars
  \/ Run("echo") /\ EchoNext /\ UNCHANGED <<vars, firectlVars>>

CommandsSpec ==
  /\ Execute
  /\ [][CommandsNext]_<<vars, firectlVars, echoVars, command>>
  /\ Fairness /\ FirectlFairness /\ EchoFairness

===============================================================================
