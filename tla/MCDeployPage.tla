----------------------------- MODULE MCDeployPage -----------------------------
(* A template that has a Deployment, and a Secret and an object of an       *)
(* unknown kind that its form can switch on; the plain values, which a      *)
(* release of an earlier version has, are refused by this version's form.   *)
EXTENDS DeployPage

KindsHere == [plain |-> {"Deployment"}, full |-> {"Deployment", "Secret", "Widget"}]
ValuesHere == DOMAIN KindsHere
GoodValues == {"full"}

GrantedHere == [p \in Cluster \X Namespace |->
                  IF p = <<"c1", "default">> THEN {"Deployment", "Secret"} ELSE {"Deployment"}]
=============================================================================
