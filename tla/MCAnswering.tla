---------------------------- MODULE MCAnswering -----------------------------
(* An instance of Answering for TLC: skills directories that differ in which *)
(* manifest comes first, in what a skill can do, and in whether there is a   *)
(* kernel; "both" is a capability two manifests declare.                     *)
EXTENDS Answering

lead    == [caps |-> <<"lead.research", "both">>, keywords |-> {"client"}, executor |-> "lead"]
rival   == [caps |-> <<"both", "competitor.intelligence">>, keywords |-> {"rival", "client"},
            executor |-> "competitor"]
brand   == [caps |-> <<"brand.review">>, keywords |-> {"client"}, executor |-> None]
gone    == [caps |-> <<"old.workflow">>, keywords |-> {"rival"}, executor |-> "missing"]
kernel  == [caps |-> <<"kernel">>, keywords |-> {}, executor |-> None]

mcFolders == {<<rival, kernel, lead>>, <<brand, lead>>, <<gone, kernel, rival>>, <<>>}
mcObjectives == [kind : {"job", "chat"}, words : {{"client"}, {"rival"}, {}}, com : BOOLEAN]
=============================================================================
