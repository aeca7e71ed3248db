------------------------- MODULE MCSourceDiscovery -------------------------
(* Small instances of SourceDiscovery. The run walks has two of them, told *)
(* apart by mode: two sources and no restarts, so that walks and commands  *)
(* meet; one source and both healers, so that restarts overlap. The latter *)
(* needs no discoveries of the monitor loop, which neither read nor change *)
(* what healers and commands do: the liveness is that of the former.       *)
EXTENDS SourceDiscovery

CONSTANTS s1, s2, a1, a2

VARIABLE mode

MCInit == Init /\ mode \in {"walks", "restarts"}

MCNext ==
    /\ Next /\ UNCHANGED mode
    /\ mode = "walks" => heal' = heal
    /\ mode = "restarts" => /\ cmd' = None \/ cmd'.src = s1
                            /\ disc'["monitor"] = None

MCSpec ==
    /\ MCInit /\ [][MCNext]_<<vars, mode>>
    /\ WF_vars(mode = "walks" /\ Monitor /\ Observe)
    /\ WF_vars(mode = "walks" /\ Subscriber /\ Observe)
    /\ []<>(mode = "walks")
=============================================================================
