------------------------ MODULE MCLearningPipeline ------------------------
(***************************************************************************)
(* A small instance: ratios that differ from each other, targets on both   *)
(* sides of the start and in channels that couple, and speeds that divide  *)
(* the displacement and speeds that do not.                                *)
(***************************************************************************)
EXTENDS LearningPipeline

MCStarts == { <<0, 0, 0, 0, 0, 0, 0>>, <<2, -1, 3, 0, -2, 1, 4>>,
              <<-3, 4, -2, 5, -1, 1, 2>> }

MCTargets == { <<0, 0, 0, 0, 0, 0, 0>>, <<2, -1, 1, 0, 0, 0, 0>>,
               <<-3, 4, -2, 5, -1, 1, 2>>, <<1, 1, 2, -4, 3, 0, 7>> }

MCRequests == {-1, 0, 1, 2, 3, 4}

MCTorques == { <<1, 0, 0, 0, 0, 0, 0>>, <<0, 1, 2, 0, 0, 0, 0>>,
               <<3, -2, 5, 1, 1, 1, 1>> }

=============================================================================
