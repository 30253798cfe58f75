----------------------------- MODULE MCSettings -----------------------------
(* Instance of Settings for TLC: the window changes settings, the profile  *)
(* page and the timers edit the list of profiles meanwhile.                *)
EXTENDS Settings, TLC

CONSTANTS window, page, Sc, u1, u2

MCProcs == {window, page}
MCUids == {Sc, u1, u2}
MCRemote == {u1}

Command(kind, args) == {[kind |-> kind, arg |-> x] : x \in args}

MCCommands == [p \in MCProcs |->
    IF p = window THEN
      Command("verge", {"service" :> TRUE, "service" :> FALSE, "tun" :> TRUE, "tun" :> FALSE,
                        "launch" :> TRUE @@ "hotkeys" :> "h2", "launch" :> FALSE,
                        "proxy" :> TRUE @@ "launch" :> TRUE, "proxy" :> FALSE,
                        "port" :> "p2" @@ "hotkeys" :> "h2"})
      \cup Command("clash", {"port" :> "p2", "lan" :> TRUE, "log" :> "debug",
                             "stack" :> "mixed" @@ "lan" :> FALSE})
      \cup Command("core", {"core" :> "alpha"})
      \cup Command("switch", {"current" :> u2})
      \cup Command("script", {"script" :> "s1"})
      \cup Command("enhance", {"none" :> None})
      \cup Command("edit", {[op |-> "delete", uid |-> u2]})
    ELSE
      Command("edit", {[op |-> o, uid |-> u] : o \in {"delete", "timed"}, u \in {u1}}
                      \cup {[op |-> o, uid |-> u2] : o \in {"import", "reorder", "patch", "update"}})]

Off == [service |-> FALSE, tun |-> FALSE, launch |-> FALSE, proxy |-> FALSE, port |-> "p1",
        hotkeys |-> "h1", core |-> "mihomo"]
Base == [port |-> "p1", lan |-> FALSE, log |-> "info", stack |-> "gvisor"]

MCBoots == {
    [verge |-> Off, clash |-> Base, profiles |-> [items |-> <<Sc, u1>>, current |-> u1],
     launch |-> [task |-> "none", legacy |-> "ours"], firewall |-> {"mihomo"}],
    [verge |-> [Off EXCEPT !.service = TRUE, !.tun = TRUE, !.launch = TRUE, !.proxy = TRUE],
     clash |-> [Base EXCEPT !.lan = TRUE],
     profiles |-> [items |-> <<Sc, u1, u2>>, current |-> u1],
     launch |-> [task |-> "ours", legacy |-> "none"], firewall |-> {"mihomo", "alpha"}],
    [verge |-> [Off EXCEPT !.service = TRUE], clash |-> Base,
     profiles |-> [items |-> <<u2>>, current |-> None],
     launch |-> [task |-> "foreign", legacy |-> "none"], firewall |-> {}],
    [verge |-> Off, clash |-> Base, profiles |-> None,
     launch |-> [task |-> "none", legacy |-> "none"], firewall |-> {}]}
=============================================================================
