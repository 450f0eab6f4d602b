----------------------- MODULE MCNotificationDelivery -----------------------
EXTENDS NotificationDelivery, TLC

Symmetry == Permutations(Slot) \cup Permutations(Subscription)
            \cup Permutations(Token)
=============================================================================
