----------------------------- MODULE MCTunnels -----------------------------
(* The two tunnels side by side: a behaviour is one of one of them.        *)
EXTENDS Http3Tunnel, MasqueTunnel

VARIABLE protocol

TunnelsInit ==
    /\ H3TunnelInit /\ MasqueInit
    /\ \/ protocol = "h2"
       \/ protocol = "h3" /\ whole

H3Runs == protocol = "h3" /\ H3TunnelNext /\ UNCHANGED udpVars
H2Runs == protocol = "h2" /\ MasqueNext /\ UNCHANGED h3Vars

TunnelsSpec ==
    /\ TunnelsInit /\ [][(H3Runs \/ H2Runs) /\ UNCHANGED protocol]_<<protocol, h3Vars, udpVars>>
    /\ WF_h3Vars(protocol = "h3" /\ TaskSteps /\ UNCHANGED <<protocol, udpVars>>)
    /\ WF_udpVars(protocol = "h2" /\ TaskTick /\ UNCHANGED <<protocol, h3Vars>>)
=============================================================================
