------------------------------ MODULE MCPaging ------------------------------
(* One process with two resident pages at most, under each policy, that forks *)
(* under SCFIFO only.                                                         *)
EXTENDS Paging

AloneOrForked ==
  [policy : {"SCFIFO", "LAPA"}, pages : {5}, frames : {2}, prio : {8}, forks : {0}]
  \cup [policy : {"AQ"}, pages : {3}, frames : {2}, prio : {8}, forks : {0}]
  \cup [policy : {"NFUA"}, pages : {3}, frames : {2}, prio : {8}, forks : {0}]
  \cup [policy : {"SCFIFO"}, pages : {4}, frames : {4}, prio : {5}, forks : {1}]

ForkedAndWriting ==
  [policy : {"SCFIFO"}, pages : {3}, frames : {6}, prio : {8}, forks : {1}]
=============================================================================
