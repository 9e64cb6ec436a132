------------------------------ MODULE MCAppShell ------------------------------
EXTENDS AppShell

P(name, host, mount, raw, insecure) ==
  [name |-> name, host |-> host, mount |-> mount, raw |-> raw, insecure |-> insecure]
MCProfiles == {P("one", "A", "RTCM", FALSE, FALSE), P("one", "B", "rtcm", FALSE, FALSE),
               P("two", "B", "rtcm", FALSE, TRUE)}
S(mount, nmea) == [mount |-> mount, nmea |-> nmea]
MCListings == [A |-> {<<S("rtcm", "no"), S("RTCM", "yes")>>}, B |-> {<<S("rtcm", "no")>>}]
MCSameMount(a, b) == a = b \/ {a, b} = {"RTCM", "rtcm"}
MCPolicies == {[auto |-> TRUE, max |-> 2]}
===============================================================================
