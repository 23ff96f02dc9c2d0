---------------------------- MODULE MCMidiImport ----------------------------
(* A small instance of MidiImport: one pitch on two channels. *)
EXTENDS MidiImport

MCKeys == {<<0, 60>>, <<1, 60>>}
=============================================================================
