-------------------------- MODULE FtpsReplyChannel --------------------------
(***************************************************************************)
(* The control connection as FtpsControl has it, whole replies in one step: *)
(* what the functions that send commands and read replies promise the      *)
(* calls built on them.                                                    *)
(*                                                                         *)
(* wire     the replies in flight                                          *)
(* reply    what the last wait returned, and whether it answers the last    *)
(*          command                                                        *)
(***************************************************************************)
EXTENDS FtpsControl

CONSTANT Commands   \* the commands that are sent

VARIABLES wire, reply

ChannelInit ==
    /\ wire = <<>>
    /\ reply = [code |-> Silence, own |-> TRUE]

Send ==
    /\ \E cmd \in Commands : wire' \in AfterSending(wire, cmd)
    /\ UNCHANGED reply

Read ==
    \E e \in Reads(wire) :
        /\ wire' = e.rest
        /\ reply' = [code |-> e.code, own |-> e.own]

ChannelNext == Send \/ Read

ChannelSpec == ChannelInit /\ [][ChannelNext]_<<wire, reply>>

=============================================================================
