------------------------------ MODULE MCClientView ------------------------------
(* Instances of ClientView for TLC: a source that leaves its sub-space between *)
(* two sessions.                                                             *)
EXTENDS ClientView

CONSTANTS ann, hall

MCSubSpacesOf == [x \in Sources |-> << {hall}, {} >>]
MCMyOptions == {{}, {hall}}
================================================================================
