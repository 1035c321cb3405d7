---------------------------- MODULE MCManageNcn ----------------------------
(* Values of the constants of ManageNcn for model checking: two installed     *)
(* masters, of which ncn-m002 is the first master, and room for three NCNs.   *)
EXTENDS ManageNcn

MCInstalledAt    == [a \in Fixed |-> IF a = "ncn-m001" THEN "x1" ELSE "x2"]
MCInstalledIp    == [n \in {"NMN", "HMN"} |-> [a \in Fixed |-> IF a = "ncn-m001" THEN 2 ELSE 3]]
MCInstalledBmcIp == [a \in Fixed |-> IF a = "ncn-m001" THEN 4 ELSE 5]
MCInstalledNid   == [a \in Fixed |-> IF a = "ncn-m001" THEN 100001 ELSE 100003]
MCNoVip          == [n \in {"NMN", "HMN"} |-> 0]
MCVip            == [n \in {"NMN", "HMN"} |-> IF n = "NMN" THEN 4 ELSE 6]
MCNoDhcp         == [n \in {"NMN", "HMN"} |-> IF n = "NMN" THEN 10 ELSE 13]
\* The HMN has room for two fabric managers and their VIP, until one is replaced.
MCBroadcast      == [n \in {"NMN", "HMN"} |-> IF n = "NMN" THEN 10 ELSE 11]
\* Few static IPs: on the NMN a fabric manager gets the one dynamic IP, and
\* the HMN has room for one fabric manager.
MCDhcpStart      == [n \in {"NMN", "HMN"} |-> IF n = "NMN" THEN 5 ELSE 9]
MCFewIps         == [n \in {"NMN", "HMN"} |-> IF n = "NMN" THEN 6 ELSE 9]

\* Room for two fabric managers, every request answered.
Roomy == [aliases |-> {"ncn-m001", "ncn-m002", "fmn001", "fmn002"},
          xnames |-> {"x1", "x2", "x3", "x4"},
          vip |-> MCNoVip, dhcpStart |-> MCNoDhcp, broadcast |-> MCBroadcast,
          allowed |-> {}, faults |-> {"interrupt"}, runs |-> 5]
\* Static ranges that are full, a worker, leases and failing requests.
Tight == [aliases |-> {"ncn-m001", "ncn-m002", "ncn-w004", "fmn001"},
          xnames |-> {"x1", "x2", "x3"},
          vip |-> MCVip, dhcpStart |-> MCDhcpStart, broadcast |-> MCFewIps,
          allowed |-> {"NMN"}, faults |-> {"interrupt", "http"}, runs |-> 4]
MCSites == {Roomy, Tight}
\* Two fabric managers and their VIP, failing requests.
MCManagers == {[Roomy EXCEPT !.vip = MCVip, !.faults = {"interrupt", "http"}, !.runs = 4]}
=============================================================================
