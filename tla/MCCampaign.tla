------------------------------ MODULE MCCampaign ------------------------------
EXTENDS Campaign, TLC

CampaignSymmetry == Permutations(Requests) \cup Permutations(Rows)
RunsOnly  == {"execute", "retry"}
AllOps    == {"importCsv", "execute", "retry", "updateRow", "removeRow", "remove"}
=============================================================================
