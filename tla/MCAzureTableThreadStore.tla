------------------------ MODULE MCAzureTableThreadStore ------------------------
EXTENDS AzureTableThreadStore, TLC

Symmetry == Permutations(Clients) \cup Permutations(Tokens)
              \cup Permutations(Assistants)
===============================================================================
