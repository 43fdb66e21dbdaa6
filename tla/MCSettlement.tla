---------------------------- MODULE MCSettlement ----------------------------
(* Four epochs, two validator sets with different quorums and key tags, and *)
(* candidates that fail each check of the contract.                         *)
EXTENDS Settlement

MCEpochs == 0..3

Candidate(epoch, capture, root, tag, quorum) ==
    [version |-> 1, requiredKeyTag |-> tag, epoch |-> epoch,
     captureTimestamp |-> capture, quorumThreshold |-> quorum,
     totalVotingPower |-> 3, validatorsSszMRoot |-> root]

MCCandidates ==
    {Candidate(e, c, "A", 15, 2) : e \in Epochs, c \in 1..3}
      \cup {Candidate(e, c, "B", 43, 3) : e \in {1, 2}, c \in 1..3}
      \cup {Candidate(1, 1, "A", 128, 2), Candidate(1, 1, "A", 15, 4),
            Candidate(1, 1, NoRoot, 15, 2),
            [Candidate(1, 1, "A", 15, 2) EXCEPT !.version = 2]}

Entry(value) == [key |-> "k", value |-> value]

MCExtras == {<<>>, <<Entry("x")>>, <<Entry("x"), Entry("y")>>,
             <<Entry(NoValue), Entry("y")>>}

(* Only the entries with a value, for the larger runs.                      *)
MCFewExtras == {<<>>, <<Entry("x")>>}
=============================================================================
