---------------------------- MODULE MCTabRuntime ----------------------------
\* Command sequences for model checking TabRuntime.
EXTENDS TabRuntime

Cmd(type, req, epoch) == [type |-> type, req |-> req, epoch |-> epoch]

Prompt(r, e)   == Cmd("prompt.send", r, e)
Snapshot(r, e) == Cmd("response.snapshot.request", r, e)
Release(r, e)  == Cmd("request.release", r, e)
Stale(r, e)    == Cmd("stale.release", r, e)
NewSession     == Cmd("sessions.new", "none", 0)
Passive        == Cmd("passive.prompt.submit", "none", 0)
List           == Cmd("sessions.list", "none", 0)

MCRequests == {"r1", "r2"}
TwoRooms   == {"free", "full"}
Roomy      == {"free"}

\* A request that is released before another one comes, a response epoch that
\* advances, work beside standalone writes, and a stale-lease recovery.
LifeScripts == {
    <<Snapshot("r1", 0), Release("r1", 0), Prompt("r2", 0)>>,
    <<Prompt("r1", 0), Snapshot("r1", 1), Release("r1", 1)>>,
    <<Prompt("r1", 0), Release("r1", 0), Snapshot("r1", 0)>>,
    <<NewSession, Prompt("r1", 0), Release("r1", 0)>>,
    <<Passive, Prompt("r1", 0), List>>,
    <<Prompt("r1", 0), Stale("r1", 0), List>>}

QuarantineScripts == {<<Prompt("r1", 0), Release("r1", 0)>>}
ReconnectScripts  == {<<NewSession, Prompt("r1", 0)>>}
=============================================================================
