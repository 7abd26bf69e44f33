------------------------------ MODULE MCService ------------------------------
EXTENDS Service, TLC

CONSTANTS i1, i2

OneOrTwo == "ui" :> {i1, i2} @@ "service" :> {i1} @@ "console" :> {i1}
=============================================================================
